------------------------------ MODULE MCLedger ------------------------------
(***************************************************************************)
(* Instances of Ledger for TLC: one account whose budgets, transactions    *)
(* and transfers come from small pools.                                    *)
(***************************************************************************)
EXTENDS Ledger, TLC

CONSTANTS a1, u1, b1, b2, b3, t1, i1, i2

\* One account, in which every budget is at home.
OneHome == [b \in Budget |-> a1]
OneTxHome == [t \in Tx |-> a1]
OneUnallocated == [a \in Account |-> u1]

\* Amounts: two debits, so that a settlement may change the amount, and a
\* credit, so that both signs of a split and of a residual occur and archiving
\* drains both a budget and its child.
Amounts == {-3, -1, 2}

Symmetry == Permutations({b1, b2, b3} \intersect Budget)
              \union Permutations(Tx) \union Permutations(Itx)
=============================================================================
