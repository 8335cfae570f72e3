----------------------------- MODULE MCLinking -----------------------------
(* The two sides of one transfer; the bank lists the debit as pending      *)
(* first, so that its row is wiped and inserted again.                     *)
EXTENDS Linking, TLC

CONSTANTS debit, credit, A, B, v, w, e

HomeOf == debit :> A @@ credit :> B
NamesOf == debit :> {B} @@ credit :> {A}
Opposite == {<<debit, credit>>, <<credit, debit>>}
Twice == debit :> 2 @@ credit :> 1
=============================================================================
