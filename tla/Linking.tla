------------------------------ MODULE Linking ------------------------------
(***************************************************************************)
(* The pairing of the two transactions that one transfer between two       *)
(* accounts leaves (service/linking.py), on PostgreSQL.  A Celery task per *)
(* new row looks for the counterpart and writes Transaction.linked_        *)
(* transaction on both rows, without any lock of its own; meanwhile        *)
(* scrapes wipe the pending rows and insert them again under new ids       *)
(* (service/sync_scrape.py), users delete rows and rewrite descriptions,   *)
(* and the scraper's details are saved, with a description composed from   *)
(* them, on rows read before (service/transaction_details.py).             *)
(*                                                                         *)
(* What holds these together is the database: an UPDATE or DELETE locks    *)
(* its row until the commit, linked_transaction is UNIQUE (a writer waits  *)
(* for an uncommitted rival of the same value and fails after a committed  *)
(* one), a foreign key is checked at the commit, and of processes that     *)
(* wait for each other one is aborted.                                     *)
(***************************************************************************)
EXTENDS Integers, Sequences, FiniteSets, SequencesExt

CONSTANTS
  Lines,      \* what the banks list: one line is one side of a transfer
  Accounts,
  Home,       \* the account of a line
  Names,      \* the accounts the bank's description of it names
  Mirror,     \* pairs of lines of opposite amounts, at most three days apart
  Copies,     \* bound: how often each line is inserted
  Workers,    \* Celery workers that run link tasks
  Enrichers,  \* requests that apply details
  None,
  MaxFaults   \* bound: how many workers die, details are saved and
              \* descriptions rewritten, together

Rows == UNION {{l} \X (1..Copies[l]) : l \in Lines}
Procs == Workers \union Accounts \union Enrichers

ASSUME HomeAssumption == IsFiniteSet(Lines) /\ Home \in [Lines -> Accounts]
ASSUME NamesAssumption ==
  Names \in [Lines -> SUBSET Accounts] /\ \A l \in Lines : Home[l] \notin Names[l]
ASSUME MirrorAssumption ==
  Mirror \subseteq Lines \X Lines /\ \A p \in Mirror : <<p[2], p[1]>> \in Mirror
ASSUME ProcsAssumption ==
  /\ Workers \intersect Accounts = {} /\ Workers \intersect Enrichers = {}
  /\ Accounts \intersect Enrichers = {}
  /\ None \notin Procs \union Rows
ASSUME BoundsAssumption == Copies \in [Lines -> Nat] /\ MaxFaults \in Nat

VARIABLES
  row,      \* the committed rows
  queue,    \* the rows whose link task has not been taken
  proc,     \* what each process is doing
  lock,     \* who holds the row, and who has written a link to it
  lost,     \* how many tasks died with their worker
  crushed,  \* rows whose link a stale save replaced (history)
  missed    \* pairs of rows: the task of the later one read a description that
            \* named the other's account no longer (history)

vars == <<row, queue, proc, lock, lost, crushed, missed>>

\* A row is inserted at most once; only a stale save can bring it back.
States == {"unborn", "pending", "posted", "gone"}
Unborn == [st |-> "unborn", link |-> None, details |-> FALSE, text |-> "bank"]
Gone == [Unborn EXCEPT !.st = "gone"]

\* What a process may have to wait for: a row, or the unique index's entry for
\* a row as the target of a link.
Resources == {"row", "target"} \X Rows
Row(r) == <<"row", r>>
Target(r) == <<"target", r>>

\* A statement that writes the row r, and t as its link unless that is None.
Update(r, t) == [row |-> r, to |-> t]
Takes(u) == {Row(u.row)} \union IF u.to = None THEN {} ELSE {Target(u.to)}

\* What a process does, the rows it works on, the accounts the description it read
\* names, the rows its deletion removes or sets to NULL, and the statements still
\* to run.
Idle == [does |-> "nothing", tx |-> None, other |-> None, names |-> {}, wipes |-> {},
         nulls |-> {}, todo |-> <<>>]
Tasks == {"nothing", "search", "link", "scrape", "delete", "details"}

Present(r) == row[r].st \in {"pending", "posted"}
AccountOf(r) == Home[r[1]]

\* The accounts a row's description may name (_candidate_accounts): the bank's
\* text those of the line, a text composed from details or written by the user
\* any but the row's own.  Only the link task reads it, once for each row.
Naming(r) ==
  IF row[r].text = "bank" THEN {Names[r[1]]} ELSE SUBSET (Accounts \ {AccountOf(r)})

-----------------------------------------------------------------------------
(* The database's part.                                                    *)

\* Mutant: no unique index.
NoRivals(u) == {}
Rivals(u) == {s \in Rows \ {u.row} : Present(s) /\ u.to # None /\ row[s].link = u.to}

\* An UPDATE that finds no row stops there; a save inserts the row instead.
Writes(p, u) == Present(u.row) \/ proc[p].does = "details"

\* Whom p waits for: the holder of the row; when it has that, the holder of the
\* index entry and of a row whose link is the one p writes.
BlockedBy(p) ==
  IF proc[p].todo = <<>> THEN {}
  ELSE LET u == Head(proc[p].todo)
           others == {lock[x] : x \in {Target(t) : t \in {u.to} \ {None}}
                                        \union {Row(s) : s \in Rivals(u)}} \ {None, p}
       IN IF lock[Row(u.row)] \notin {None, p} THEN {lock[Row(u.row)]}
          ELSE IF Writes(p, u) THEN others ELSE {}

Faults ==
  lost + Cardinality({r \in Rows : row[r].text # "bank"})
       + Cardinality({e \in Enrichers : proc[e] # Idle})

Released(p) == [x \in Resources |-> IF lock[x] = p THEN None ELSE lock[x]]

Ends(p) ==
  /\ proc' = [proc EXCEPT ![p] = Idle]
  /\ lock' = Released(p)

\* A statement fails and the transaction with it.
Rollback(p) == Ends(p) /\ UNCHANGED <<row, queue, lost, crushed, missed>>

\* An UPDATE with update_fields finds no row, or the unique index refuses the
\* value.
Fails(p, u) == (proc[p].does = "link" /\ ~Present(u.row)) \/ Rivals(u) # {}

\* The next statement: it runs, fails, or holds its row while it waits for the
\* index entry.
Run(p) ==
  /\ proc[p].todo # <<>>
  /\ LET u == Head(proc[p].todo) IN
     \/ /\ BlockedBy(p) = {} /\ Fails(p, u)
        /\ Rollback(p)
     \/ /\ BlockedBy(p) = {} /\ ~Fails(p, u)
        /\ lock' = [x \in Resources |-> IF x \in Takes(u) THEN p ELSE lock[x]]
        /\ proc' = [proc EXCEPT ![p].todo = Tail(@)]
        /\ UNCHANGED <<row, queue, lost, crushed, missed>>
     \/ /\ BlockedBy(p) # {} /\ lock[Row(u.row)] = None
        /\ lock' = [lock EXCEPT ![Row(u.row)] = p]
        /\ UNCHANGED <<row, queue, proc, lost, crushed, missed>>

\* Processes that wait for each other: one of them is aborted.
Deadlocked(p) ==
  /\ BlockedBy(p) # {}
  /\ \E S \in SUBSET {q \in Procs : BlockedBy(q) # {}} :
       /\ p \in S
       /\ \A q \in S : BlockedBy(q) \intersect S # {} /\ \E o \in S : q \in BlockedBy(o)
Victim(p) == Deadlocked(p) /\ Rollback(p)

-----------------------------------------------------------------------------
(* The link task: attempt_link_transaction and attempt_link.               *)

\* The pairs r would make with rows whose own task is past, if the account its line
\* names were still among the names.
Unnamed(r, names) ==
  {{r, s} : s \in {x \in Rows \ queue : Present(x) /\ <<r[1], x[1]>> \in Mirror
                                     /\ AccountOf(x) \in Names[r[1]] \ names}}

\* The task reads its row: nothing to do when it is gone or linked.
TakeTask(w, r) ==
  /\ proc[w] = Idle /\ r \in queue
  /\ queue' = queue \ {r}
  /\ IF Present(r) /\ row[r].link = None
     THEN \E names \in Naming(r) :
            /\ proc' = [proc EXCEPT ![w] = [Idle EXCEPT !.does = "search", !.tx = r,
                                                       !.names = names]]
            /\ missed' = missed \union Unnamed(r, names)
     ELSE UNCHANGED <<proc, missed>>
  /\ UNCHANGED <<row, lock, lost, crushed>>

\* _find_counterpart's query on account a.
Matches(r, a) ==
  {s \in Rows \ {r} : Present(s) /\ AccountOf(s) = a /\ <<r[1], s[1]>> \in Mirror
                      /\ row[s].link = None}

\* The counterparts that are the only match on an account the description names;
\* of two such accounts the database's order of rows decides.
Counterparts(r, names) ==
  UNION {Matches(r, a) : a \in {b \in names : Cardinality(Matches(r, b)) = 1}}

\* Mutant: only the row itself is written.
OneSide(r, s) == <<Update(r, s)>>
BothSides(r, s) == <<Update(r, s), Update(s, r)>>

Search(w) ==
  /\ proc[w].does = "search"
  /\ LET r == proc[w].tx
         found == Counterparts(r, proc[w].names)
     IN
     \/ /\ found = {}
        /\ proc' = [proc EXCEPT ![w] = Idle]
     \/ \E s \in found :
          proc' = [proc EXCEPT ![w] = [Idle EXCEPT !.does = "link", !.tx = r, !.other = s,
                                                   !.todo = BothSides(r, s)]]
  /\ UNCHANGED <<row, queue, lock, lost, crushed, missed>>

Link(w) ==
  /\ proc[w].does = "link" /\ proc[w].todo = <<>>
  /\ LET r == proc[w].tx
         s == proc[w].other
     IN row' = [row EXCEPT ![r].link = IF lock[Row(r)] = w THEN s ELSE @,
                           ![s].link = IF lock[Row(s)] = w THEN r ELSE @]
  /\ Ends(w)
  /\ UNCHANGED <<queue, lost, crushed, missed>>

\* The worker is killed: the task was acknowledged when it was taken.
Die(w) ==
  /\ proc[w] # Idle /\ Faults < MaxFaults
  /\ lost' = lost + 1
  /\ Ends(w)
  /\ UNCHANGED <<row, queue, crushed, missed>>

-----------------------------------------------------------------------------
(* Scrapes and deletions; the account's Redis lock makes them one at a     *)
(* time for each account.                                                  *)

LinkedTo(D) == {s \in Rows : Present(s) /\ row[s].link \in D}

\* The rows a deletion writes: those on_delete=SET_NULL updates come first.
Statements(D, N) == [i \in 1..Cardinality(D \union N) |->
                   Update((SetToSeq(N \ D) \o SetToSeq(D))[i], None)]

\* sync_scrape wipes the account's pending rows.
Pending(a) == {r \in Rows : row[r].st = "pending" /\ AccountOf(r) = a}
StartScrape(a) ==
  LET D == Pending(a)
      N == LinkedTo(D)
  IN
  /\ proc[a] = Idle /\ D # {}
  /\ proc' = [proc EXCEPT ![a] = [Idle EXCEPT !.does = "scrape", !.wipes = D, !.nulls = N,
                                              !.todo = Statements(D, N)]]
  /\ UNCHANGED <<row, queue, lock, lost, crushed, missed>>

\* transaction.delete: the row is locked first and its links read after that.
StartDelete(a, r) ==
  /\ proc[a] = Idle /\ row[r].st = "posted" /\ AccountOf(r) = a
  /\ lock[Row(r)] = None
  /\ lock' = [lock EXCEPT ![Row(r)] = a]
  /\ proc' = [proc EXCEPT ![a] = [Idle EXCEPT !.does = "delete", !.wipes = {r},
                                              !.nulls = LinkedTo({r}),
                                              !.todo = Statements({r}, LinkedTo({r}))]]
  /\ UNCHANGED <<row, queue, lost, crushed, missed>>

\* The foreign keys hold once D is gone and the links of N are NULL.
KeysHold(D, N) == LinkedTo(D) \subseteq N \union D

\* Mutant: the wiped rows keep their links.
RemovedRows(D, N) ==
  [r \in Rows |-> IF r \in D THEN [row[r] EXCEPT !.st = "gone"] ELSE row[r]]
\* The UPDATE tests its condition again when a lock is granted.
Removed(D, N) ==
  [r \in Rows |-> IF r \in D THEN Gone
                  ELSE IF r \in N /\ row[r].link \in D THEN [row[r] EXCEPT !.link = None]
                  ELSE row[r]]

\* What the history still has to say when the rows of D are gone.
Forgotten(D) == {P \in missed : P \intersect D = {}}

\* One insertion for each line the bank lists that has no posted row: the rows
\* account a gets, as pending or posted ones.
Insertable(a, left) ==
  {r \in Rows : /\ AccountOf(r) = a /\ left[r].st = "unborn"
                /\ \A n \in 1..(r[2] - 1) : left[<<r[1], n>>].st # "unborn"
                /\ \A n \in 1..Copies[r[1]] : left[<<r[1], n>>].st # "posted"}

\* Mutant: only posted rows get one.
PostedOnly(new, st) == {r \in new : st[r] = "posted"}
LinkTasks(new, st) == new

\* The wipe and the insertions are one transaction; on_commit sends a link task
\* for each new row.
CommitScrape(a) ==
  /\ \/ proc[a].does = "scrape" /\ proc[a].todo = <<>>
     \/ proc[a] = Idle /\ Pending(a) = {}
  /\ IF ~KeysHold(proc[a].wipes, proc[a].nulls) THEN Rollback(a)
     ELSE LET left == Removed(proc[a].wipes, proc[a].nulls) IN
          /\ \E new \in SUBSET Insertable(a, left) :
             \E st \in [new -> {"pending", "posted"}] :
               /\ row' = [r \in Rows |-> IF r \in new THEN [Unborn EXCEPT !.st = st[r]]
                                         ELSE left[r]]
               /\ queue' = queue \union LinkTasks(new, st)
          /\ missed' = Forgotten(proc[a].wipes)
          /\ Ends(a)
          /\ UNCHANGED <<lost, crushed>>

CommitDelete(a) ==
  /\ proc[a].does = "delete" /\ proc[a].todo = <<>>
  /\ IF ~KeysHold(proc[a].wipes, proc[a].nulls) THEN Rollback(a)
     ELSE /\ row' = Removed(proc[a].wipes, proc[a].nulls)
          /\ missed' = Forgotten(proc[a].wipes)
          /\ Ends(a)
          /\ UNCHANGED <<queue, lost, crushed>>

-----------------------------------------------------------------------------
(* The scraper's details: apply_details on the row the view fetched.       *)

ReadDetails(e, r) ==
  /\ proc[e] = Idle /\ row[r].st = "posted" /\ ~row[r].details /\ Faults < MaxFaults
  /\ LET t == row[r].link IN
     proc' = [proc EXCEPT ![e] = [Idle EXCEPT
                !.does = "details", !.tx = r, !.other = t,
                !.todo = <<Update(r, t)>>]]
  /\ UNCHANGED <<row, queue, lock, lost, crushed, missed>>

\* tx.save(): every column, the link as it was read and the description composed
\* from the details, or the user's; Django inserts the row again when the UPDATE
\* finds none.
Saved(e) ==
  [st |-> "posted", link |-> proc[e].other, details |-> TRUE, text |-> "rewritten"]

SaveDetails(e) ==
  LET r == proc[e].tx
      t == proc[e].other
  IN
  /\ proc[e].does = "details" /\ proc[e].todo = <<>>
  /\ IF t # None /\ ~Present(t) THEN Rollback(e)
     ELSE /\ row' = [row EXCEPT ![r] = Saved(e)]
          /\ crushed' = IF Present(r) /\ row[r].link = t THEN crushed
                        ELSE crushed \union {r}
          /\ Ends(e)
          /\ UNCHANGED <<queue, lost, missed>>

\* transaction.update with a new description, on the row read under its lock; an
\* edit after the link task has read the row changes nothing that is read again.
EditText(a, r) ==
  /\ proc[a] = Idle /\ Present(r) /\ AccountOf(r) = a /\ r \in queue
  /\ lock[Row(r)] = None /\ Faults < MaxFaults
  /\ row' = [row EXCEPT ![r].text = "rewritten"]
  /\ UNCHANGED <<queue, proc, lock, lost, crushed, missed>>

-----------------------------------------------------------------------------
Init ==
  /\ row = [r \in Rows |-> Unborn]
  /\ queue = {}
  /\ proc = [p \in Procs |-> Idle]
  /\ lock = [x \in Resources |-> None]
  /\ lost = 0
  /\ crushed = {}
  /\ missed = {}

WorkerStep(w) == (\E r \in Rows : TakeTask(w, r)) \/ Search(w) \/ Link(w)
AccountStep(a) == CommitScrape(a) \/ CommitDelete(a)
AccountStarts(a) == StartScrape(a) \/ \E r \in Rows : StartDelete(a, r) \/ EditText(a, r)
DetailsStarts(e) == \E r \in Rows : ReadDetails(e, r)

Next ==
  \/ \E p \in Procs : Run(p) \/ Victim(p)
  \/ \E w \in Workers : WorkerStep(w) \/ Die(w)
  \/ \E a \in Accounts : AccountStarts(a) \/ AccountStep(a)
  \/ \E e \in Enrichers : DetailsStarts(e) \/ SaveDetails(e)

Spec == Init /\ [][Next]_vars

\* Workers take the tasks there are, and what was begun goes on: PostgreSQL
\* grants locks, finds deadlocks and commits.  Nothing makes a bank list a
\* line, a user delete a row or a worker die.
Fairness ==
  /\ \A p \in Procs : WF_vars(Run(p) \/ Victim(p))
  /\ \A w \in Workers : WF_vars(WorkerStep(w))
  /\ \A a \in Accounts : WF_vars(proc[a] # Idle /\ AccountStep(a))
  /\ \A e \in Enrichers : WF_vars(SaveDetails(e))

FairSpec == Spec /\ Fairness

-----------------------------------------------------------------------------
RowOrNone == Rows \union {None}

\* Types; a row that is not there links to nothing and no task runs for a row
\* that was never inserted.
TypeOK ==
  /\ row \in [Rows -> [st : States, link : RowOrNone, details : BOOLEAN,
                       text : {"bank", "rewritten"}]]
  /\ \A r \in Rows : ~Present(r) => row[r].link = None
  /\ queue \subseteq {r \in Rows : row[r].st # "unborn"}
  /\ proc \in [Procs -> [does : Tasks, tx : RowOrNone, other : RowOrNone,
                        names : SUBSET Accounts, wipes : SUBSET Rows, nulls : SUBSET Rows,
                        todo : Seq([row : Rows, to : RowOrNone])]]
  /\ lock \in [Resources -> Procs \union {None}]
  /\ lost \in Nat
  /\ crushed \subseteq Rows /\ missed \subseteq SUBSET Rows

\* "Exactly 1 match: write the link on both sides" (linking.py:41): a row's
\* link leads to a row that is there and links back, whatever tasks ran for the
\* two sides at once and whatever was wiped, deleted or killed meanwhile; only
\* a row that a stale save of details overwrote is an exception.
LinksMutual ==
  \A x \in Rows :
    row[x].link # None =>
      LET y == row[x].link IN Present(y) /\ (row[y].link = x \/ {x, y} \intersect crushed # {})

\* A link stays as long as both rows do: no task replaces one that another
\* task wrote after the search.
LinkForGood ==
  [][\A x \in Rows :
       row[x].link # None /\ Present(row[x].link) /\ row[row[x].link].st = row'[row[x].link].st
       /\ row'[x].st \in {"pending", "posted"}
         => row'[x].link = row[x].link \/ {x, row[x].link} \intersect crushed' # {}]_vars

\* Two rows whose lines name each other's account are linked in the end, in
\* whichever order they arrive, however often they are wiped and inserted again
\* and whatever is done to their descriptions once the later one's task has read
\* it.  Excepted are the pairs of which the only task that could see both had
\* lost the name, and all when a task died, a save crushed a link, or there was a
\* second row that could be the counterpart.
Paired(x, y) ==
  /\ <<x[1], y[1]>> \in Mirror
  /\ AccountOf(y) \in Names[x[1]] /\ AccountOf(x) \in Names[y[1]]
Rivalry ==
  \E x, y, z \in Rows :
    /\ x[1] # z[1] /\ Present(x) /\ Present(z)
    /\ <<x[1], y[1]>> \in Mirror /\ <<z[1], y[1]>> \in Mirror
Disturbed == lost > 0 \/ crushed # {}
AllLinked ==
  \A x, y \in Rows :
    Paired(x, y) /\ Present(x) /\ Present(y) /\ {x, y} \notin missed
      => row[x].link = y
LinkedInTheEnd == []~Rivalry => []<>(AllLinked \/ Disturbed)

\* Linking.py's promise without the exception: what SaveDetails breaks.
LinkedBothWays ==
  \A x \in Rows : row[x].link # None => row[row[x].link].link = x
=============================================================================
