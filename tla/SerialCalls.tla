---------------------------- MODULE SerialCalls ----------------------------
(***************************************************************************)
(* What the service layer promises its callers: each call takes effect in  *)
(* one step, on the balances the calls before it left, or not at all.      *)
(***************************************************************************)
EXTENDS Calls

VARIABLES
  db,     \* the committed rows
  call,   \* the call each process makes
  left    \* the processes whose call has neither taken effect nor failed

Init == left = Process

\* The call of p takes effect.
Perform(p) ==
  /\ Legal(call[p], db)
  /\ db' = Effect(call[p], p, db)

\* The call of p is refused or dies.
Fail(p) == UNCHANGED db

Next ==
  \E p \in left :
    /\ left' = left \ {p}
    /\ UNCHANGED call
    /\ Perform(p) \/ Fail(p)

Spec == Init /\ [][Next]_<<db, call, left>>
=============================================================================
