-------------------------------- MODULE Calls --------------------------------
(***************************************************************************)
(* What the service calls of moneypools/service do to the rows they share, *)
(* as functions of the rows' values.  SerialCalls runs each call in one    *)
(* step; RowLocks runs it lock by lock and write by write.                 *)
(*                                                                         *)
(* The rows: one bank account, its budgets, one transaction with the one   *)
(* allocation that carries its whole amount, one transfer that already     *)
(* exists, and for each process the transfer its call may insert.          *)
(* Balances are integers; the account's is posted_balance.                 *)
(***************************************************************************)
EXTENDS Integers, FiniteSets, SequencesExt

CONSTANTS
  Process,      \* web requests, Celery tasks and management commands
  Budget,       \* budget rows: naturals, in the order of str(budget.id)
  Unallocated,  \* the account's Unallocated budget
  Account, Tx, Allocation, Earlier,   \* the other rows
  Gone          \* the value of a row that does not exist

ASSUME RowsAssumption ==
  /\ Budget \subseteq Nat /\ Unallocated \in Budget
  /\ IsFiniteSet(Budget) /\ IsFiniteSet(Process)
  /\ {Account, Tx, Allocation, Earlier} \intersect (Budget \union Process) = {}
  /\ Cardinality({Account, Tx, Allocation, Earlier}) = 4
  /\ Budget \intersect Process = {}

Transfers == Process \union {Earlier}
Row == Budget \union Transfers \union {Account, Tx, Allocation}

\* Rows with a model.lock_key, which have a Redis lock as well.
Lockable == Budget \union {Account, Tx}

\* A transfer of n from s to d.
Move(s, d, n) == [src |-> s, dst |-> d, amount |-> n]
\* The rows a transfer changes are its two ends.
Ends(m) == {m.src, m.dst}
\* What a transfer m adds to budget b.
Gain(m, b) == (IF b = m.dst THEN m.amount ELSE 0) - (IF b = m.src THEN m.amount ELSE 0)

\* The transfers of v that touch budget b, and the budgets at their other end.
Touching(v, b) == {i \in Transfers : v[i] # Gone /\ b \in Ends(v[i])}
Counterparties(v, b) == (UNION {Ends(v[i]) : i \in Touching(v, b)}) \ {b}

\* The values rows have: a transaction and its allocation are there together
\* or not at all.
TxValue == [pending : BOOLEAN, amount : Int]
AllocationValue == [budget : Budget, amount : Int]
TransferValue == [src : Budget, dst : Budget, amount : Int]
WellFormed(v) ==
  /\ v = [r \in Row |-> v[r]]
  /\ v[Account] \in Int /\ \A b \in Budget : v[b] \in Int \union {Gone}
  /\ v[Tx] \in TxValue \union {Gone} /\ v[Allocation] \in AllocationValue \union {Gone}
  /\ v[Tx] = Gone <=> v[Allocation] = Gone
  /\ \A i \in Transfers : v[i] \in TransferValue \union {Gone}

ASSUME GoneAssumption ==
  Gone \notin Int \union TxValue \union AllocationValue \union TransferValue

-----------------------------------------------------------------------------
(* The effect of one call on the values v, if its rows allow it.           *)

\* internal_transaction.create by process p: the row it inserts is p's.
AfterMove(v, p, m) ==
  [r \in Row |-> IF r \in Ends(m) THEN v[r] + Gain(m, r)
                 ELSE IF r = p THEN m ELSE v[r]]

\* internal_transaction.delete of the transfer that exists.
AfterReverse(v) ==
  [r \in Row |-> IF r = Earlier THEN Gone
                 ELSE IF r \in Ends(v[Earlier]) THEN v[r] - Gain(v[Earlier], r)
                 ELSE v[r]]

\* transaction.create of a posted transaction of 1.
AfterCreate(v) == [v EXCEPT ![Account] = @ + 1, ![Unallocated] = @ + 1]

\* transaction.update with pending = False.
AfterPost(v) ==
  [v EXCEPT ![Account] = IF v[Tx].pending THEN @ + v[Tx].amount ELSE @,
            ![Tx].pending = FALSE]

\* resolve_pending_to_posted with a final amount of 2.
AfterResolve(v) ==
  [v EXCEPT ![Account] = @ + 2,
            ![Tx] = [pending |-> FALSE, amount |-> 2],
            ![Unallocated] = @ - v[Allocation].amount + 2,
            ![Allocation].amount = 2]

\* transaction.split of the whole amount to budget b.
AfterSplit(v, b) ==
  LET m == Move(v[Allocation].budget, b, v[Allocation].amount)
  IN [r \in Row |-> IF r = Allocation THEN [v[r] EXCEPT !.budget = b]
                    ELSE IF r \in Ends(m) THEN v[r] + Gain(m, r) ELSE v[r]]

\* transaction.delete.
AfterDelete(v) ==
  [v EXCEPT ![v[Allocation].budget] = @ - v[Allocation].amount,
            ![Account] = IF v[Tx].pending THEN @ ELSE @ - v[Tx].amount,
            ![Tx] = Gone, ![Allocation] = Gone]

\* budget.archive by process p: a positive balance moves to Unallocated.
AfterArchive(v, p, b) ==
  IF v[b] > 0 THEN AfterMove(v, p, Move(b, Unallocated, v[b])) ELSE v

\* budget.delete: the budget's transfers are reversed on their other ends, and
\* whatever it then holds goes to Unallocated.
AfterDrop(v, b) ==
  LET given(x) == SumFunction([i \in Touching(v, b) |-> Gain(v[i], x)])
  IN [r \in Row |->
        IF r = b \/ r \in Touching(v, b) THEN Gone
        ELSE IF r = Unallocated THEN v[r] - given(r) + (v[b] - given(b))
        ELSE IF r \in Counterparties(v, b) THEN v[r] - given(r)
        ELSE v[r]]

\* One event of funding.fund_account: 1 moves from Unallocated to its target.
AfterFund(v) ==
  [r \in Row |-> IF r \in Budget
                   THEN v[r] + (IF r = Unallocated THEN -1 ELSE 1) ELSE v[r]]

\* The calls: their kind, the budgets they name, and how they are made, by a
\* web request (inside one transaction) or by a task.
Call == [op : {"transfer", "reverse", "create", "post", "resolve", "split", "delete",
               "archive", "edit", "drop", "rename", "unpost", "fund"},
         src : Budget, dst : Budget, via : {"request", "task"}]

Effect(c, p, v) ==
  CASE c.op = "transfer" -> AfterMove(v, p, Move(c.src, c.dst, 1))
    [] c.op = "reverse"  -> AfterReverse(v)
    [] c.op = "create"   -> AfterCreate(v)
    [] c.op = "post"     -> AfterPost(v)
    [] c.op = "resolve"  -> AfterResolve(v)
    [] c.op = "split"    -> AfterSplit(v, c.dst)
    [] c.op = "delete"   -> AfterDelete(v)
    [] c.op = "archive"  -> AfterArchive(v, p, c.src)
    [] c.op = "drop"     -> AfterDrop(v, c.src)
    [] c.op = "unpost"   -> [v EXCEPT ![Tx].pending = TRUE]
    [] c.op = "fund"     -> AfterFund(v)
    [] OTHER             -> v          \* budget.update, bank_account.update: no balance

\* The values that call c finds acceptable.
Legal(c, v) ==
  /\ c.op \in {"transfer", "split"} => v[c.dst] # Gone
  /\ c.op \in {"transfer", "archive", "edit", "drop"} => v[c.src] # Gone
  /\ c.op = "drop" => v[Allocation] = Gone \/ v[Allocation].budget # c.src
  /\ c.op = "reverse" => v[Earlier] # Gone
  /\ c.op \in {"post", "resolve", "split", "delete", "unpost"} => v[Tx] # Gone
  /\ c.op \in {"resolve", "unpost"} => v[Tx].pending
  /\ c.op = "split" => ~v[Tx].pending
=============================================================================
