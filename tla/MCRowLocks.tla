----------------------------- MODULE MCRowLocks -----------------------------
(***************************************************************************)
(* Instances of RowLocks for TLC: which calls are made together, by two or *)
(* three processes.  Budgets are 1, 2 and 3 in lock order; 2 is            *)
(* Unallocated.                                                            *)
(***************************************************************************)
EXTENDS RowLocks, TLC

CONSTANTS p1, p2, p3

Budgets == 1..3

Values(isPending) ==
  [r \in Row |-> IF r \in Budget THEN 2
                 ELSE IF r = Account THEN 0
                 ELSE IF r = Tx THEN [pending |-> isPending, amount |-> 1]
                 ELSE IF r = Allocation THEN [budget |-> Unallocated, amount |-> 1]
                 ELSE IF r = Earlier THEN Move(3, 1, 1)
                 ELSE Gone]
Pending == Values(TRUE)
Posted == Values(FALSE)
\* Without a transfer made before.
Fresh == [Posted EXCEPT ![Earlier] = Gone]

\* The processes are interchangeable.
Symmetry == Permutations(Process)

Make(op, s, d, via) == [op |-> op, src |-> s, dst |-> d, via |-> via]
Both(op, s, d) == {Make(op, s, d, "request"), Make(op, s, d, "task")}

\* Starts on an engine with the values v and any of the assignments C.
From(e, v, C) == {[engine |-> e, db |-> v, call |-> c] : c \in C}

\* Each kind of call, in each way of making it.
AllCalls ==
  Both("transfer", 1, 2) \union Both("transfer", 3, 1) \union Both("reverse", 1, 1)
    \union Both("create", 1, 1) \union Both("post", 1, 1) \union Both("resolve", 1, 1)
    \union Both("split", 1, 1) \union Both("split", 1, 3) \union Both("delete", 1, 1)
    \union Both("archive", 1, 1) \union Both("edit", 1, 1) \union Both("drop", 3, 3)

\* Calls that change the account or its transaction.
AccountCalls ==
  {Make(op, 1, 1, "request") : op \in {"create", "post", "resolve", "delete"}}
    \union {Make(op, 1, 1, "task") : op \in {"create", "resolve", "split"}}

\* Calls that move money between budgets.
BudgetCalls ==
  {Make("transfer", 1, 2, "request"), Make("transfer", 3, 1, "task"),
   Make("transfer", 2, 3, "request"), Make("split", 1, 3, "request"),
   Make("archive", 1, 1, "request"), Make("drop", 3, 3, "request"),
   Make("reverse", 1, 1, "task")}

\* Any two calls on a posted transaction, and any two of the account's on a
\* pending one.
PairsStart ==
  From("postgresql", Posted, [Process -> AllCalls])
    \union From("sqlite", Posted, [Process -> AllCalls])
    \union From("postgresql", Pending, [Process -> AccountCalls])

\* The theorems about RowLocks apply to these pairs.
ASSUME PairsAssumption == \A s \in PairsStart : LocksItsRows(s)

\* Three calls of the account's; three different ones of the budgets' (two
\* splits are the subject of SplitStart); and funding runs: as tasks, with
\* requests that move money and at most one split, or with calls that take the
\* account's Redis lock first; and as tasks and web requests together.
Fund == Make("fund", 1, 1, "task")
Different(C) == {m \in [Process -> C] : \A p, q \in Process : p # q => m[p] # m[q]}
OneSplit(C) ==
  {m \in [Process -> C] :
     \A p, q \in Process : p # q /\ m[p].op = "split" => m[q].op # "split"}
ThreeStart ==
  From("postgresql", Pending, [Process -> AccountCalls])
    \union From("postgresql", Posted,
      Different(BudgetCalls)
        \union OneSplit({Fund, Make("transfer", 3, 2, "request"),
                         Make("split", 1, 3, "request")})
        \union [Process -> {Fund, Make("create", 1, 1, "request"),
                            Make("rename", 1, 1, "task")}]
        \union [Process -> Both("fund", 1, 1) \union {Make("rename", 1, 1, "task")}])

\* Two calls of the budgets', or two of the account's; on SQLite, any two.
EndStart ==
  From("postgresql", Posted, [Process -> BudgetCalls])
    \union From("postgresql", Pending, [Process -> AccountCalls])
    \union From("sqlite", Posted, [Process -> BudgetCalls \union AccountCalls])

-----------------------------------------------------------------------------
(* Calls that disagree: see the README.                                    *)
Two(a, b) == {(p1 :> a) @@ (p2 :> b)}
Three(a, b, c) == {(p1 :> a) @@ (p2 :> b) @@ (p3 :> c)}

\* Two splits of one transaction, and a transfer.
SplitStart ==
  From("postgresql", Posted,
       Three(Make("split", 1, 1, "request"), Make("split", 1, 3, "request"),
             Make("transfer", 1, 3, "request")))
\* "Run funding now", and a transfer.
FundStart ==
  From("postgresql", Posted,
       Two(Make("fund", 1, 1, "request"), Make("transfer", 2, 3, "request")))
\* A new transaction, and a transfer.
ImportStart ==
  From("postgresql", Posted,
       Two(Make("create", 1, 1, "request"), Make("transfer", 1, 2, "request")))
\* A web request and a task that move money.
SQLiteStart ==
  From("sqlite", Posted,
       Two(Make("transfer", 1, 2, "request"), Make("transfer", 2, 1, "task")))
\* A transfer, and the deletion of one of its budgets.
DropStart ==
  From("postgresql", Fresh,
       Two(Make("transfer", 1, 3, "request"), Make("drop", 3, 3, "request")))
\* A new name for the account, and a new transaction.
RenameStart ==
  From("postgresql", Posted,
       Two(Make("rename", 1, 1, "request"), Make("create", 1, 1, "request")))
\* PATCH pending = True, and the settlement of the transaction.
UnpostStart ==
  From("postgresql", Pending,
       Two(Make("unpost", 1, 1, "request"), Make("post", 1, 1, "request")))
=============================================================================
