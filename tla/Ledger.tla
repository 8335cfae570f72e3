------------------------------- MODULE Ledger -------------------------------
(***************************************************************************)
(* The money of mibudge at the granularity of whole service calls: bank    *)
(* accounts, their budgets, the transactions that move money in and out of *)
(* an account, the allocations that spread each transaction over budgets,  *)
(* and the internal transactions that move money between budgets.          *)
(*                                                                         *)
(* Every operation of moneypools/service/{bank_account, budget,            *)
(* transaction, transaction_allocation, internal_transaction}.py that      *)
(* changes one of these amounts is one action here: each runs inside one   *)
(* database transaction.  Dates, snapshots and schedules are not modelled  *)
(* here, nor is the interleaving inside a call.                            *)
(*                                                                         *)
(* Rows live in fixed pools of identifiers; an identifier whose row does   *)
(* not exist carries zero amounts, so that a sum over the pool is the sum  *)
(* over the rows.                                                          *)
(***************************************************************************)
EXTENDS Integers, FiniteSets, Functions

CONSTANTS
  Account, Budget, Tx, Itx,   \* identifiers of rows
  Home,          \* the account a budget identifier belongs to
  TxHome,        \* the account a transaction identifier belongs to
  Unallocated,   \* the budget created together with each account
  None,          \* no budget: a null foreign key
  Opening,       \* balances an account may be created with
  Amount,        \* signed amounts of bank transactions
  Part           \* magnitudes of splits and transfers

ASSUME PoolsAssumption ==
  IsFiniteSet(Budget) /\ IsFiniteSet(Tx) /\ IsFiniteSet(Itx)

ASSUME HomesAssumption ==
  /\ Home \in [Budget -> Account]
  /\ TxHome \in [Tx -> Account]
  /\ Unallocated \in [Account -> Budget]
  /\ \A a \in Account : Home[Unallocated[a]] = a
  /\ None \notin Budget

ASSUME AmountsAssumption ==
  Opening \subseteq Int /\ Amount \subseteq Int /\ Part \subseteq Nat

VARIABLES
  accounts,    \* the bank accounts that exist
  opening,     \* the balances each was created with (history, never read)
  available,   \* BankAccount.available_balance
  posted,      \* BankAccount.posted_balance
  kind,        \* Budget.budget_type, "none" when there is no such row
  balance,     \* Budget.balance
  funded,      \* Budget.funded_amount
  fillup,      \* Budget.fillup_goal
  archived,    \* the budgets with archived = True
  txs,         \* the transactions that exist
  pending,     \* those with pending = True
  amount,      \* Transaction.amount
  rows,        \* the pairs of a transaction and a budget with an allocation row
  alloc,       \* the sum of TransactionAllocation.amount of each pair
  twin,        \* the amount of one of them, when Unallocated has two rows
  excess,      \* what the last split left on the budgets beyond the amount
               \* (history, never read)
  itx          \* the internal transactions

accountVars == <<accounts, opening, available, posted>>
budgetVars  == <<kind, fillup, archived>>
moneyVars   == <<balance, funded>>
txVars      == <<txs, pending, amount, rows, alloc, twin, excess>>
vars == <<accountVars, budgetVars, moneyVars, txVars, itx>>

-----------------------------------------------------------------------------
Kinds == {"goal", "recurring", "capped", "fillup"}

NoTransfer == [src |-> None, dst |-> None, amount |-> 0]

Live(b) == b \in Budget /\ kind[b] # "none"

\* Budget rows still to be created: never an account's own Unallocated.
Unused(b) == kind[b] = "none" /\ b # Unallocated[Home[b]]

\* budget_type is GOAL.  Unallocated is created without a budget_type and so
\* carries the model's default, GOAL.
IsGoal(b) == kind[b] = "goal"

\* What moving m from s to d does to the balance of b.
Effect(s, d, m, b) == (IF b = d THEN m ELSE 0) - (IF b = s THEN m ELSE 0)

Net(i, b) == Effect(itx[i].src, itx[i].dst, itx[i].amount, b)

Magnitude(n) == IF n < 0 THEN -n ELSE n
\* Mutant: the sign of a debit is lost.
Unsigned(n, m) == m
Signed(n, m) == IF n < 0 THEN -m ELSE m

UnallocatedFor(t) == Unallocated[TxHome[t]]

Total(f, S) == SumFunctionOnSet(f, S)

-----------------------------------------------------------------------------
Init ==
  /\ accounts = {} /\ txs = {} /\ pending = {} /\ rows = {} /\ archived = {}
  /\ opening = [a \in Account |-> [available |-> 0, posted |-> 0]]
  /\ available = [a \in Account |-> 0]
  /\ posted = [a \in Account |-> 0]
  /\ kind = [b \in Budget |-> "none"]
  /\ balance = [b \in Budget |-> 0]
  /\ funded = [b \in Budget |-> 0]
  /\ fillup = [b \in Budget |-> None]
  /\ amount = [t \in Tx |-> 0]
  /\ alloc = [t \in Tx |-> [b \in Budget |-> 0]]
  /\ twin = [t \in Tx |-> 0]
  /\ excess = [t \in Tx |-> 0]
  /\ itx = [i \in Itx |-> NoTransfer]

\* bank_account.create: the account and its Unallocated budget, which starts
\* with the whole available balance.
CreateAccount(a, avail, post) ==
  LET u == Unallocated[a] IN
  /\ a \notin accounts
  /\ accounts' = accounts \union {a}
  /\ opening' = [opening EXCEPT ![a] = [available |-> avail, posted |-> post]]
  /\ available' = [available EXCEPT ![a] = avail]
  /\ posted' = [posted EXCEPT ![a] = post]
  /\ kind' = [kind EXCEPT ![u] = "goal"]
  /\ balance' = [balance EXCEPT ![u] = avail]
  /\ UNCHANGED <<funded, fillup, archived, txVars, itx>>

\* bank_account.delete: the foreign keys cascade, so every row that hangs off
\* the account goes with it.
DeleteAccount(a) ==
  LET Mine(b) == Home[b] = a
      MineTx(t) == TxHome[t] = a
  IN
  /\ a \in accounts
  /\ accounts' = accounts \ {a}
  /\ opening' = [opening EXCEPT ![a] = [available |-> 0, posted |-> 0]]
  /\ available' = [available EXCEPT ![a] = 0]
  /\ posted' = [posted EXCEPT ![a] = 0]
  /\ kind' = [b \in Budget |-> IF Mine(b) THEN "none" ELSE kind[b]]
  /\ balance' = [b \in Budget |-> IF Mine(b) THEN 0 ELSE balance[b]]
  /\ funded' = [b \in Budget |-> IF Mine(b) THEN 0 ELSE funded[b]]
  /\ fillup' = [b \in Budget |-> IF Mine(b) THEN None ELSE fillup[b]]
  /\ archived' = {b \in archived : ~Mine(b)}
  /\ txs' = {t \in txs : ~MineTx(t)}
  /\ pending' = {t \in pending : ~MineTx(t)}
  /\ amount' = [t \in Tx |-> IF MineTx(t) THEN 0 ELSE amount[t]]
  /\ rows' = {r \in rows : ~MineTx(r[1])}
  /\ alloc' = [t \in Tx |-> IF MineTx(t) THEN [b \in Budget |-> 0] ELSE alloc[t]]
  /\ twin' = [t \in Tx |-> IF MineTx(t) THEN 0 ELSE twin[t]]
  /\ excess' = [t \in Tx |-> IF MineTx(t) THEN 0 ELSE excess[t]]
  /\ itx' = [i \in Itx |-> IF itx[i].src \in Budget /\ Mine(itx[i].src)
                             THEN NoTransfer ELSE itx[i]]

-----------------------------------------------------------------------------
(* Bank transactions.  Each of these writes the account's balances, and    *)
(* the budgets' balances through transaction_allocation.create,            *)
(* update_amount and delete.                                               *)

\* Mutant: a pending transaction already counts as posted.
CreditBoth(a, toAvailable, toPosted) ==
  /\ available' = [available EXCEPT ![a] = @ + toAvailable]
  /\ posted' = [posted EXCEPT ![a] = @ + toAvailable]

\* Change both account balances, as transaction.create, update, delete and
\* resolve_pending_to_posted do under the account's lock.
Credit(a, toAvailable, toPosted) ==
  /\ available' = [available EXCEPT ![a] = @ + toAvailable]
  /\ posted' = [posted EXCEPT ![a] = @ + toPosted]

\* transaction.create: the whole amount is first allocated to Unallocated.
CreateTx(t, m, isPending) ==
  LET u == UnallocatedFor(t) IN
  /\ TxHome[t] \in accounts
  /\ t \notin txs
  /\ Credit(TxHome[t], m, IF isPending THEN 0 ELSE m)
  /\ txs' = txs \union {t}
  /\ pending' = IF isPending THEN pending \union {t} ELSE pending
  /\ amount' = [amount EXCEPT ![t] = m]
  /\ rows' = rows \union {<<t, u>>}
  /\ alloc' = [alloc EXCEPT ![t][u] = m]
  /\ balance' = [balance EXCEPT ![u] = @ + m]
  /\ UNCHANGED <<accounts, opening, budgetVars, funded, twin, excess, itx>>

\* transaction.update with pending = False.  The serializer lets no client
\* change the amount, the dates or the account, nor set pending again; other
\* updates leave the money alone.
PostTx(t) ==
  /\ t \in pending
  /\ pending' = pending \ {t}
  /\ Credit(TxHome[t], 0, amount[t])
  /\ UNCHANGED <<accounts, opening, budgetVars, moneyVars, txs, amount, rows,
                 alloc, twin, excess, itx>>

\* transaction.resolve_pending_to_posted: settle a pending transaction,
\* possibly with another amount of the same sign.
ResolveTx(t, m) ==
  LET u == UnallocatedFor(t) IN
  /\ t \in pending
  /\ <<t, u>> \in rows
  /\ (m > 0) = (amount[t] > 0)
  /\ pending' = pending \ {t}
  /\ Credit(TxHome[t], m - amount[t], m)
  /\ amount' = [amount EXCEPT ![t] = m]
  /\ IF m = amount[t]
       THEN UNCHANGED <<alloc, balance>>
       ELSE /\ alloc' = [alloc EXCEPT ![t][u] = m]
            /\ balance' = [balance EXCEPT ![u] = @ - alloc[t][u] + m]
  /\ UNCHANGED <<accounts, opening, budgetVars, funded, txs, rows, twin, excess, itx>>

\* transaction.delete: every allocation is taken back from its budget.
DeleteTx(t) ==
  /\ t \in txs
  /\ Credit(TxHome[t], -amount[t], IF t \in pending THEN 0 ELSE -amount[t])
  /\ balance' = [b \in Budget |-> balance[b] - alloc[t][b]]
  /\ txs' = txs \ {t}
  /\ pending' = pending \ {t}
  /\ amount' = [amount EXCEPT ![t] = 0]
  /\ rows' = {r \in rows : r[1] # t}
  /\ alloc' = [alloc EXCEPT ![t] = [b \in Budget |-> 0]]
  /\ twin' = [twin EXCEPT ![t] = 0]
  /\ excess' = [excess EXCEPT ![t] = 0]
  /\ UNCHANGED <<accounts, opening, budgetVars, funded, itx>>

\* A split request maps budgets to positive magnitudes; 0 is "not named".
Named(m) == {b \in Budget : m[b] > 0}

\* transaction._validate_splits
SplitIsValid(t, m) ==
  /\ \A b \in Named(m) : Live(b) /\ Home[b] = TxHome[t]
  /\ Total(m, Budget) <= Magnitude(amount[t])

SplitRemainder(t, m) == Magnitude(amount[t]) - Total(m, Budget)

\* Mutant: the remainder is not given to Unallocated.
DeclaredPart(t, m, b) == m[b]

\* What the row of b that the loop knows is left with: its declared part,
\* except that a positive remainder is written to Unallocated last, over the
\* part declared for it.
SplitPart(t, m, b) ==
  IF b = UnallocatedFor(t) /\ SplitRemainder(t, m) > 0 THEN SplitRemainder(t, m) ELSE m[b]

\* existing_by_budget is read before the loop and holds one row a budget: of
\* Unallocated's two, the one that the query returned last.  The amount of the
\* other, 0 when there is none.
PassedOver(t) ==
  IF twin[t] = 0 THEN {0} ELSE {twin[t], alloc[t][UnallocatedFor(t)] - twin[t]}

\* The second row of Unallocated after a split that passes over a row of x.
\* A declared part and a remainder are two new rows when there was none;
\* the row passed over stays, unless Unallocated gets nothing: the clean-up
\* goes by budget.
SecondRow(t, m, x) ==
  LET u == UnallocatedFor(t) IN
  IF <<t, u>> \in rows
    THEN IF SplitPart(t, m, u) > 0 THEN x ELSE 0
    ELSE IF m[u] > 0 /\ SplitRemainder(t, m) > 0 THEN Signed(amount[t], m[u]) ELSE 0

\* What a split leaves on the budgets beyond the transaction's amount: its
\* second row, less the declared part of Unallocated that the remainder took
\* the place of.
Excess(t, m, x) ==
  SecondRow(t, m, x)
    - (IF SplitRemainder(t, m) > 0 THEN Signed(amount[t], m[UnallocatedFor(t)]) ELSE 0)

\* transaction.split: the loop over the declared budgets, the remainder and
\* the clean-up, each a sequence of calls of the allocation service for one
\* row.  They are one atomic() under the locks of all these budgets (RowLocks
\* has them one by one); what an earlier of them does to a later one, through
\* rows the loop created itself or passed over, is in SplitPart and SecondRow.
Split(t, m, x) ==
  LET second == SecondRow(t, m, x)
      new == [b \in Budget |-> Signed(amount[t], SplitPart(t, m, b))
                                 + (IF b = UnallocatedFor(t) THEN second ELSE 0)]
  IN
  /\ t \in txs \ pending
  /\ SplitIsValid(t, m)
  /\ balance' = [b \in Budget |-> balance[b] + new[b] - alloc[t][b]]
  /\ alloc' = [alloc EXCEPT ![t] = new]
  /\ twin' = [twin EXCEPT ![t] = second]
  /\ excess' = [excess EXCEPT ![t] = Excess(t, m, x)]
  /\ rows' = {r \in rows : r[1] # t}
               \union {<<t, b>> : b \in {c \in Budget : SplitPart(t, m, c) > 0}}
  /\ UNCHANGED <<accountVars, budgetVars, funded, txs, pending, amount, itx>>

-----------------------------------------------------------------------------
(* Transfers between budgets and the life of a budget.                     *)

\* What a set of internal transactions does to the balance of b.
NetOf(S, b) == Total([i \in Itx |-> Net(i, b)], S)

\* internal_transaction.create
Transfer(i, s, d, m) ==
  /\ itx[i] = NoTransfer
  /\ Live(s) /\ Live(d) /\ s # d /\ Home[s] = Home[d] /\ m > 0
  /\ itx' = [itx EXCEPT ![i] = [src |-> s, dst |-> d, amount |-> m]]
  /\ balance' = [b \in Budget |-> balance[b] + Effect(s, d, m, b)]
  /\ funded' = [b \in Budget |-> IF IsGoal(b) THEN funded[b] + Effect(s, d, m, b)
                                              ELSE funded[b]]
  /\ UNCHANGED <<accountVars, budgetVars, txVars>>

\* internal_transaction.delete
ReverseTransfer(i) ==
  /\ itx[i] # NoTransfer
  /\ itx' = [itx EXCEPT ![i] = NoTransfer]
  /\ balance' = [b \in Budget |-> balance[b] - Net(i, b)]
  /\ funded' = [b \in Budget |-> IF IsGoal(b) THEN funded[b] - Net(i, b)
                                              ELSE funded[b]]
  /\ UNCHANGED <<accountVars, budgetVars, txVars>>

\* budget._maybe_create_fillup: c is the new child's identifier.
ChildFor(b, c) == c # b /\ Unused(c) /\ Home[c] = Home[b]

\* budget.create.  A recurring budget gets a fill-up child.
CreateBudget(b, k, c) ==
  /\ Home[b] \in accounts
  /\ Unused(b)
  /\ k \in Kinds
  /\ IF k = "recurring" THEN c \in Budget /\ ChildFor(b, c) ELSE c = None
  /\ kind' = [x \in Budget |-> IF x = b THEN k
                               ELSE IF x = c THEN "fillup" ELSE kind[x]]
  /\ fillup' = [fillup EXCEPT ![b] = c]
  /\ UNCHANGED <<accountVars, moneyVars, archived, txVars, itx>>

\* budget.update: its one effect here is a new child for a recurring budget
\* whose child was deleted.
UpdateBudget(b, c) ==
  /\ kind[b] = "recurring" /\ fillup[b] = None
  /\ c \in Budget /\ ChildFor(b, c)
  /\ kind' = [kind EXCEPT ![c] = "fillup"]
  /\ fillup' = [fillup EXCEPT ![b] = c]
  /\ UNCHANGED <<accountVars, moneyVars, archived, txVars, itx>>

\* Mutant: a missing child is taken for a budget.
WithNullChild(b) == {b, fillup[b]}

\* A budget and its fill-up child, if it has one.
WithChild(b) == {b, fillup[b]} \ {None}

\* What archiving takes out of b (or nothing, when there is no such budget).
Drained(b) == IF Live(b) /\ balance[b] > 0 THEN balance[b] ELSE 0

\* budget.archive: the child and then the budget are drained into Unallocated,
\* each by an internal transaction when there is something to drain.
ArchiveBudget(b, i, j) ==
  LET u == Unallocated[Home[b]]
      f == fillup[b]
      swept(x) == Effect(f, u, Drained(f), x) + Effect(b, u, Drained(b), x)
  IN
  /\ Live(b) /\ b # u /\ b \notin archived
  /\ i # j
  /\ Drained(f) > 0 => itx[i] = NoTransfer
  /\ Drained(b) > 0 => itx[j] = NoTransfer
  /\ itx' = [k \in Itx |->
               IF k = i /\ Drained(f) > 0
                 THEN [src |-> f, dst |-> u, amount |-> Drained(f)]
               ELSE IF k = j /\ Drained(b) > 0
                 THEN [src |-> b, dst |-> u, amount |-> Drained(b)]
               ELSE itx[k]]
  /\ balance' = [x \in Budget |-> balance[x] + swept(x)]
  /\ funded' = [x \in Budget |-> IF IsGoal(x) THEN funded[x] + swept(x) ELSE funded[x]]
  /\ archived' = archived \union WithChild(b)
  /\ UNCHANGED <<accountVars, kind, fillup, txVars>>

\* Mutants: transfers into a doomed budget are forgotten, and of the transfers
\* with a survivor only one direction is reversed.
LeavingOnly(D) == {i \in Itx : itx[i].src \in D}
CrossingOut(D) == {i \in Itx : itx[i].src \in D /\ itx[i].dst \notin D}
CrossingIn(D) == {i \in Itx : itx[i].dst \in D /\ itx[i].src \notin D}

\* budget._itx_counterparty_ids and the loop of budget._delete_locked: the
\* transfers that touch a doomed budget, and those whose other end survives.
Touching(D) == {i \in Itx : itx[i].src \in D \/ itx[i].dst \in D}
Crossing(D) == {i \in Touching(D) : ~(itx[i].src \in D /\ itx[i].dst \in D)}

\* What the doomed budgets hold once the crossing transfers are reversed.
Residual(D) == Total([d \in Budget |-> balance[d] - NetOf(Crossing(D), d)], D)

\* Mutant: budget.delete does not look for allocations.
DeleteAnyway(D) == TRUE

NotAllocated(D) == \A r \in rows : r[2] \notin D

\* budget.delete
DeleteBudget(b) ==
  LET u == Unallocated[Home[b]]
      D == WithChild(b)
  IN
  /\ Live(b) /\ b # u
  /\ NotAllocated(D)
  /\ balance' = [x \in Budget |->
                   IF x \in D THEN 0
                   ELSE balance[x] - NetOf(Crossing(D), x)
                          + (IF x = u THEN Residual(D) ELSE 0)]
  /\ funded' = [x \in Budget |->
                  IF x \in D THEN 0
                  ELSE IF IsGoal(x) THEN funded[x] - NetOf(Crossing(D), x)
                  ELSE funded[x]]
  /\ kind' = [x \in Budget |-> IF x \in D THEN "none" ELSE kind[x]]
  /\ fillup' = [x \in Budget |-> IF x \in D \/ fillup[x] \in D THEN None ELSE fillup[x]]
  /\ archived' = archived \ D
  /\ itx' = [i \in Itx |-> IF i \in Touching(D) THEN NoTransfer ELSE itx[i]]
  /\ UNCHANGED <<accountVars, txVars>>

-----------------------------------------------------------------------------
SplitRequests == [Budget -> Part \union {0}]

AccountStep ==
  \E a \in Account :
    \/ \E avail, post \in Opening : CreateAccount(a, avail, post)
    \/ DeleteAccount(a)

TxStep ==
  \E t \in Tx :
    \/ \E m \in Amount, p \in BOOLEAN : CreateTx(t, m, p)
    \/ PostTx(t)
    \/ \E m \in Amount : ResolveTx(t, m)
    \/ DeleteTx(t)
    \/ \E m \in SplitRequests : \E x \in PassedOver(t) : Split(t, m, x)

BudgetStep ==
  \E b \in Budget :
    \/ \E k \in Kinds, c \in Budget \union {None} : CreateBudget(b, k, c)
    \/ \E c \in Budget : UpdateBudget(b, c)
    \/ \E i, j \in Itx : ArchiveBudget(b, i, j)
    \/ DeleteBudget(b)

TransferStep ==
  \E i \in Itx :
    \/ \E s, d \in Budget, m \in Part : Transfer(i, s, d, m)
    \/ ReverseTransfer(i)

Next == AccountStep \/ TxStep \/ BudgetStep \/ TransferStep

Spec == Init /\ [][Next]_vars

-----------------------------------------------------------------------------
TransferType == [src : Budget \union {None}, dst : Budget \union {None}, amount : Nat]

\* Types of the variables.
TypeOK ==
  /\ accounts \subseteq Account
  /\ opening \in [Account -> [available : Int, posted : Int]]
  /\ available \in [Account -> Int]
  /\ posted \in [Account -> Int]
  /\ kind \in [Budget -> Kinds \union {"none"}]
  /\ balance \in [Budget -> Int]
  /\ funded \in [Budget -> Int]
  /\ fillup \in [Budget -> Budget \union {None}]
  /\ archived \subseteq Budget
  /\ txs \subseteq Tx
  /\ pending \subseteq txs
  /\ amount \in [Tx -> Int]
  /\ rows \subseteq txs \X Budget
  /\ alloc \in [Tx -> [Budget -> Int]]
  /\ twin \in [Tx -> Int]
  /\ excess \in [Tx -> Int]
  /\ itx \in [Itx -> TransferType]

\* The contributions of an account's transactions to its two balances.
AvailablePart(a) == [t \in Tx |-> IF TxHome[t] = a THEN amount[t] ELSE 0]
Settled(t) == IF t \in pending THEN 0 ELSE amount[t]
PostedPart(a) == [t \in Tx |-> IF TxHome[t] = a THEN Settled(t) ELSE 0]

\* The balances kept on an account (read, changed and saved by four different
\* service calls) are its opening balances plus its transactions: all of them
\* for available_balance, the settled ones for posted_balance.  A transaction
\* posted twice, or deleted as if posted while pending, breaks it.
AccountsMatchTransactions ==
  \A a \in Account :
    /\ available[a] = opening[a].available + Total(AvailablePart(a), Tx)
    /\ posted[a] = opening[a].posted + Total(PostedPart(a), Tx)

\* verify_balances.py, transaction level: "a split transaction has multiple
\* allocations whose amounts sum to the transaction amount"
\* (models.py:1383-1386).  A split that names Unallocated breaks it (README).
AllocationsCoverTransaction ==
  \A t \in Tx : Total(alloc[t], Budget) = amount[t]

\* What splits that name Unallocated leave behind is all that keeps a
\* transaction's allocations from its amount: a settlement, a deletion, a later
\* split or the rows it repeats add nothing to it.
AllocationsAccounted ==
  \A t \in Tx : Total(alloc[t], Budget) = amount[t] + excess[t]

ExcessPart(a) == [t \in Tx |-> IF TxHome[t] = a THEN excess[t] ELSE 0]

\* verify_balances.py, account level: the budgets of an account hold its
\* available balance, every unit of it in one of them, and what splits have
\* left beyond or short of their transactions.
BudgetsAccounted ==
  \A a \in Account :
    Total([b \in Budget |-> IF Home[b] = a THEN balance[b] ELSE 0], Budget)
      = available[a] + Total(ExcessPart(a), Tx)

\* What a budget received from transactions.
Spent(b) == Total([t \in Tx |-> alloc[t][b]], Tx)

Base(b) == IF b = Unallocated[Home[b]] THEN opening[Home[b]].available ELSE 0

\* A budget's balance has no other source than its allocations and its
\* transfers: archiving and deleting budgets leave no unexplained money behind.
BudgetExplained ==
  \A b \in Budget : balance[b] = Base(b) + Spent(b) + NetOf(Itx, b)

\* verify_balances.py _check_goal_invariant: a goal's funded_amount is the net
\* of its transfers, through archiving, reversals and deleted counterparties.
GoalFunded == \A b \in Budget : IsGoal(b) => funded[b] = NetOf(Itx, b)

AccountRefs ==
  /\ \A b \in Budget : Live(b) => Home[b] \in accounts
  /\ \A a \in accounts : IsGoal(Unallocated[a]) /\ Unallocated[a] \notin archived
  /\ \A t \in txs : TxHome[t] \in accounts

RowRefs ==
  /\ \A r \in rows : Live(r[2]) /\ Home[r[2]] = TxHome[r[1]]
  /\ \A t \in pending : \A b \in Budget : <<t, b>> \in rows <=> b = UnallocatedFor(t)

TransferRefs ==
  \A i \in Itx : itx[i] # NoTransfer =>
    /\ Live(itx[i].src) /\ Live(itx[i].dst) /\ itx[i].src # itx[i].dst
    /\ Home[itx[i].src] = Home[itx[i].dst] /\ itx[i].amount > 0

ChildRefs ==
  \A b \in Budget : fillup[b] # None =>
    /\ kind[b] = "recurring" /\ kind[fillup[b]] = "fillup"
    /\ Home[fillup[b]] = Home[b]
    /\ \A c \in Budget : fillup[c] = fillup[b] => c = b

\* Foreign keys never dangle and never cross accounts: allocations and
\* transfers join live rows of one account, a fill-up child belongs to exactly
\* one recurring budget, and a pending transaction is wholly in Unallocated,
\* which resolve_pending_to_posted relies on.
References == AccountRefs /\ RowRefs /\ TransferRefs /\ ChildRefs

\* budget.delete moves "whatever balance the deleted budgets still hold" to
\* Unallocated without a record.  There is never anything to move: once the
\* transfers are reversed, a budget no transaction is allocated to holds zero.
NothingLeftToSweep ==
  \A b \in Budget :
    Live(b) /\ b # Unallocated[Home[b]] /\ NotAllocated(WithChild(b))
      => Residual(WithChild(b)) = 0
=============================================================================
