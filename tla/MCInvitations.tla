--------------------------- MODULE MCInvitations ---------------------------
(* Two invitations a window and one in the next; two requests at once.     *)
EXTENDS Invitations, TLC

Symmetry == Permutations(Requests)

\* In one behaviour, three things together: rows after the first, things that two
\* requests raced for, and rows whose user was deleted.
FewOfAll ==
  Cardinality(raced) + Cardinality({i \in DOMAIN inv : ~inv[i].invitee}) + Len(inv) <= 4
=============================================================================
