---------------------------- MODULE Invitations ----------------------------
(* The invitations of one email address, either to own an account with     *)
(* somebody (moneypools/service/invitation.py) or to join the site         *)
(* (users/invitation.py), with the limits both share                       *)
(* (common/invitation.py).                                                 *)
(*                                                                         *)
(* A request reads what it checks, one query after another, and writes by  *)
(* primary key when all checks have passed, without a lock: PostgreSQL     *)
(* lets the requests of several users do so at once, and what one wrote    *)
(* becomes visible when its transaction commits.  SQLite takes one request *)
(* at a time, as if Requests had one member.                               *)
(*                                                                         *)
(* The two flows touch in one place, the user's is_active.  An invitation  *)
(* outlives its invitee: deleting the user sets invitee_user to NULL.      *)
EXTENDS Integers, Sequences, FiniteSets

CONSTANTS
  Requests,       \* requests that may be served at the same time
  MaxResends,     \* INVITATION_MAX_RESENDS
  MaxPerWindow,   \* INVITATION_MAX_PER_WINDOW
  MaxInvitations  \* bound: the rows that are ever created

ASSUME MaximaAssumption ==
  MaxResends \in Nat /\ MaxPerWindow \in Nat \ {0} /\ MaxInvitations \in Nat

VARIABLES
  flow,    \* "account" or "user", for good
  inv,     \* the rows, in the order of creation
  joined,  \* the address's user owns the account; or is active
  serving, \* what each request is doing, and what it has read
  mails,   \* how often each invitation in the window was mailed, as long as it is
           \* not in raced (history)
  raced    \* rows that two requests handled at once or that were mailed by a
           \* request that then failed, and 0 for the creation of rows (history)

inviteVars == <<flow, inv, joined, serving, mails, raced>>

Free == [op |-> "idle"]
Occupied(r) == serving[r] # Free
End(r) == serving' = [serving EXCEPT ![r] = Free]
Live(i) == inv[i].status = "pending" /\ inv[i].age = "new"

-----------------------------------------------------------------------------
Answers == {"accept", "decline", "cancel", "resend", "expire"}

\* What a request reads and writes that another may, too.
Things(q) == CASE q.op = "create" -> {0}
               [] q.op = "accept" -> {0, q.row}
               [] q.op \in Answers \ {"accept"} -> {q.row}
               [] OTHER -> {}

Begin(r, q) ==
  /\ serving' = [serving EXCEPT ![r] = q]
  /\ raced' = raced \union (Things(q) \intersect UNION {Things(serving[s]) : s \in Requests \ {r}})
  /\ mails' = [i \in DOMAIN mails |-> IF i \in raced' THEN 1 ELSE mails[i]]

-----------------------------------------------------------------------------
(* create_invitation, create_user_invitation                               *)

\* An owner is not invited again, nor somebody with an active account.
\* Mutant: there is no such check.
Anybody == FALSE
Taken == joined
Create(r) ==
  /\ ~Occupied(r)
  /\ ~Taken
  /\ Begin(r, [op |-> "create", at |-> "check"])
  /\ UNCHANGED <<flow, inv, joined>>

Creating(r, at) == serving[r].op = "create" /\ serving[r].at = at

\* Whatever its status, an invitation of this window counts.
InWindow == {i \in DOMAIN inv : inv[i].age # "old"}

\* No other can be answered, and the window has room.  The two queries are one step:
\* what comes between them could as well come before, or makes the second refuse.
\* Mutant: only those that wait for an answer count.
AcceptableAgain ==
  Cardinality(InWindow) < MaxPerWindow \/ \A i \in InWindow : inv[i].status # "pending"
Acceptable == Cardinality(InWindow) < MaxPerWindow /\ \A i \in DOMAIN inv : ~Live(i)
Check(r) ==
  /\ Creating(r, "check")
  /\ IF Acceptable THEN serving' = [serving EXCEPT ![r].at = "write"] ELSE End(r)
  /\ UNCHANGED <<flow, inv, joined, mails, raced>>

Insert(r) ==
  /\ Creating(r, "write")
  /\ Len(inv) < MaxInvitations
  /\ inv' = Append(inv, [status |-> "pending", age |-> "new", count |-> 1, invitee |-> TRUE])
  /\ mails' = Append(mails, 1)
  /\ End(r)
  /\ UNCHANGED <<flow, joined, raced>>

-----------------------------------------------------------------------------
(* accept, decline, cancel, resend                                         *)

\* Accepting it writes the user that the row names: as an owner, or as active unless
\* that was so.
Adds(i) == inv[i].invitee /\ (flow = "user" => ~joined)

\* The row is read and _validate_pending passes, or is going to mark it EXPIRED; long
\* after that nobody asks for it.
\* Mutant: an accepted one can still be answered.
NotGivenUp(i) == inv[i].status \in {"pending", "accepted"}
Waiting(i) == inv[i].status = "pending"
Take(r, i, op) ==
  /\ ~Occupied(r) /\ Waiting(i) /\ inv[i].age # "old"
  /\ Begin(r, [op |-> IF inv[i].age = "new" THEN op ELSE "expire",
               row |-> i, count |-> IF op = "resend" THEN inv[i].count ELSE 0,
               adds |-> op = "accept" /\ Adds(i)])
  /\ UNCHANGED <<flow, inv, joined>>

\* check_resend: the cooldown may have passed.  Mutant: the limit is one more.
ResendableOnceMore(i) == inv[i].count <= MaxResends + 1
Resendable(i) == inv[i].count <= MaxResends
Resend(r, i) == (inv[i].age = "new" => Resendable(i)) /\ Take(r, i, "resend")

Doing(r, op) == serving[r].op = op
Becomes(r, status) ==
  /\ inv' = [inv EXCEPT ![serving[r].row].status = status]
  /\ End(r)
  /\ UNCHANGED <<flow, mails, raced>>

\* The invitee is activated and, of an account, made an owner; nobody is when the row
\* named no user any more.  A user deleted since then cannot be written.
Accepted(r) ==
  /\ Doing(r, "accept")
  /\ serving[r].adds => inv[serving[r].row].invitee
  /\ Becomes(r, "accepted")
  /\ joined' = (joined \/ serving[r].adds)
Declined(r) == Doing(r, "decline") /\ Becomes(r, "declined") /\ UNCHANGED joined
Cancelled(r) == Doing(r, "cancel") /\ Becomes(r, "cancelled") /\ UNCHANGED joined
Marked(r) == Doing(r, "expire") /\ Becomes(r, "expired") /\ UNCHANGED joined

Mailed(i) == mails' = [mails EXCEPT ![i] = IF i \in raced THEN 1 ELSE @ + 1]

\* record_send writes the count that was read plus one.
Resent(r) ==
  /\ Doing(r, "resend")
  /\ inv' = [inv EXCEPT ![serving[r].row].count = serving[r].count + 1]
  /\ Mailed(serving[r].row)
  /\ End(r)
  /\ UNCHANGED <<flow, joined, raced>>

\* The request fails and is rolled back: the mail server refuses, the process dies,
\* a view does not expect TokenExpiredError.
Fail(r) ==
  /\ Occupied(r)
  /\ End(r)
  /\ UNCHANGED <<flow, inv, joined, mails, raced>>

\* So it does after the mail went out.
FailMailed(r) ==
  /\ Doing(r, "resend")
  /\ raced' = raced \union {serving[r].row}
  /\ mails' = [mails EXCEPT ![serving[r].row] = 1]
  /\ End(r)
  /\ UNCHANGED <<flow, inv, joined>>

-----------------------------------------------------------------------------
\* A token expires, a row leaves the window: in the order of creation.
Grow(i, from, to) ==
  /\ inv[i].age = from
  /\ \A j \in 1..(i - 1) : inv[j].age # from
  /\ inv' = [inv EXCEPT ![i].age = to]
  /\ mails' = IF to = "old" THEN [mails EXCEPT ![i] = 1] ELSE mails
  /\ UNCHANGED <<flow, joined, serving, raced>>

\* The user is activated by an invitation to an account.
JoinElsewhere ==
  /\ flow = "user" /\ ~joined
  /\ joined' = TRUE
  /\ UNCHANGED <<flow, inv, serving, mails, raced>>

\* The user is deleted (on_delete=SET_NULL); an invitation made later is another's.
DeleteUser ==
  /\ \E i \in DOMAIN inv : inv[i].invitee
  /\ inv' = [i \in DOMAIN inv |-> [inv[i] EXCEPT !.invitee = FALSE]]
  /\ joined' = FALSE
  /\ UNCHANGED <<flow, serving, mails, raced>>

-----------------------------------------------------------------------------
InviteInit ==
  /\ flow \in {"account", "user"}
  /\ inv = <<>> /\ mails = <<>>
  /\ joined = FALSE
  /\ serving = [r \in Requests |-> Free]
  /\ raced = {}

Serve(r) ==
  \/ Create(r) \/ Check(r) \/ Insert(r)
  \/ \E i \in DOMAIN inv : Take(r, i, "accept") \/ Take(r, i, "cancel") \/ Resend(r, i)
  \/ flow = "account" /\ \E i \in DOMAIN inv : Take(r, i, "decline")
  \/ Accepted(r) \/ Declined(r) \/ Cancelled(r) \/ Marked(r) \/ Resent(r)
  \/ Fail(r) \/ FailMailed(r)

InviteNext ==
  \/ \E r \in Requests : Serve(r)
  \/ \E i \in DOMAIN inv : Grow(i, "new", "over") \/ Grow(i, "over", "old")
  \/ JoinElsewhere
  \/ DeleteUser

InviteSpec == InviteInit /\ [][InviteNext]_inviteVars

-----------------------------------------------------------------------------
Rows == [status : {"pending", "accepted", "declined", "cancelled", "expired"},
         age : {"new", "over", "old"}, count : 1..(MaxResends + 1), invitee : BOOLEAN]
Runs == {Free} \union [op : {"create"}, at : {"check", "write"}]
          \union [op : Answers, row : 1..MaxInvitations, count : 0..(MaxResends + 1),
                     adds : BOOLEAN]

InviteTypeOK ==
  /\ flow \in {"account", "user"} /\ joined \in BOOLEAN
  /\ inv \in Seq(Rows) /\ Len(inv) <= MaxInvitations
  /\ serving \in [Requests -> Runs]
  /\ mails \in Seq(1..(MaxResends + 2)) /\ Len(mails) = Len(inv)
  /\ raced \subseteq 0..MaxInvitations

\* Who owns the account through an invitation has accepted one, that another answer
\* given at once may have been written over; and the user who accepted one is an
\* owner, or active, whatever overlapped: unless the row names no user any more.
OwnersAnswered ==
  /\ flow = "account" /\ joined =>
       \E i \in DOMAIN inv : inv[i].status = "accepted"
                           \/ (i \in raced /\ inv[i].status # "pending")
  /\ \A i \in DOMAIN inv : inv[i].status = "accepted" /\ inv[i].invitee => joined

\* An address has one invitation that can still be answered, and none once it owns
\* the account: unless two were created at once, or one while another was accepted.
OnePending ==
  \/ 0 \in raced
  \/ /\ Cardinality({i \in DOMAIN inv : Live(i)}) <= 1
     /\ flow = "account" /\ joined => \A i \in DOMAIN inv : ~Live(i)

\* An address gets MaxPerWindow invitations in a window and each of them
\* MaxResends + 1 times, however often they are cancelled and made again: but for
\* requests that overlapped, and mails whose request then failed.
MailsBounded ==
  /\ \A i \in DOMAIN inv \ raced : mails[i] <= MaxResends + 1
  /\ 0 \in raced \/ Cardinality(InWindow) <= MaxPerWindow
=============================================================================
