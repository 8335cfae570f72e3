------------------------------ MODULE RowLocks ------------------------------
(***************************************************************************)
(* The service calls of moneypools/service as they run: concurrent         *)
(* processes that take Redis locks (common/locks.py), open transactions    *)
(* (ATOMIC_REQUESTS, common/views.py, atomic()), lock and re-read rows     *)
(* (service/_locking.py), write them and commit, on PostgreSQL or on       *)
(* SQLite (common/db.py), and that may fail or die at any point.           *)
(*                                                                         *)
(* A process holds the rest of its call as a sequence of instructions; a   *)
(* "plan" instruction is a point where what comes next depends on rows the *)
(* call reads there.                                                       *)
(***************************************************************************)
EXTENDS Calls

CONSTANTS
  Nobody,
  Start,      \* the situations to start from: a database engine, the values of
              \* the rows, and a call for each process
  Crashes,    \* whether processes may die
  Lapses      \* whether a living process's Redis lock may expire under it

ASSUME NobodyAssumption == Nobody \notin Process

VARIABLES
  engine,   \* the database: "postgresql" or "sqlite"
  db,       \* the committed value of each row
  call,     \* the call each process makes
  todo,     \* the instructions it still has to execute
  mem,      \* the values it has read: its Python objects
  wrote,    \* the rows its open transaction has written, with their values
  rowlock,  \* the process that holds each row's database lock
  depth,    \* how many atomic() blocks it is inside
  redis,    \* the process that holds each row's Redis lock
  scopes,   \* the Redis locks of its open `with acquire_lock` blocks, in order
  ended     \* how its transaction ended, "no" while it has not

database == <<engine, db, wrote, rowlock, depth>>
vars == <<database, call, todo, mem, redis, scopes, ended>>

-----------------------------------------------------------------------------
(* The programs of the calls.                                              *)

SQLite == engine = "sqlite"

\* An instruction about one row, and one about a set of rows.
Do(what, r) == [do |-> what, row |-> r, rows |-> {}]
DoAll(what, S) == [do |-> what, row |-> Nobody, rows |-> S]

Each(what, s) == [k \in DOMAIN s |-> Do(what, s[k])]
Save(S) == <<DoAll("save", S)>>
Load(S) == <<DoAll("load", S)>>
Check == <<DoAll("check", {})>>

\* Decisions, with the budgets that the call knows of.
Plans == {"split", "reallocate", "delete", "unallocate", "drain", "drop", "recheck"}
Plan(name, known) == <<DoAll(name, known)>>

\* locked_many: sorted by str(id).
Sorted(S) ==
  [k \in 1..Cardinality(S) |-> CHOOSE b \in S : Cardinality({x \in S : x < b}) = k - 1]

Scope(keys, body) == Each("acquire", keys) \o body \o Each("release", Reverse(keys))
Atomic(body) == <<DoAll("begin", {})>> \o body \o <<DoAll("end", {})>>

\* The usual shape of a service: Redis locks, transaction, row locks.
Locked(keys, body) == Scope(keys, Atomic(Each("lock", keys) \o body))

\* Mutant: the two budgets are locked in the order of the transfer.
TransferInOrder(p, s, d) == Locked(<<s, d>>, Save({s, d, p}))

\* internal_transaction.create
Transferring(p, s, d) == Locked(Sorted({s, d}), Save({s, d, p}))

\* internal_transaction.delete
Reversing(m) ==
  LET keys == Sorted(Ends(m)) IN
  Scope(keys, Atomic(Each("lock", keys) \o Each("lock", <<Earlier>>)
                       \o Save(Ends(m) \union {Earlier})))

\* transaction.create: the allocation's budget is locked inside the account's
\* transaction.
Creating ==
  Locked(<<Account>>, Save({Account}) \o Locked(<<Unallocated>>, Save({Unallocated})))

\* transaction.update
Updating(S) ==
  Scope(<<Account>>, Atomic(Each("lock", <<Account, Tx>>) \o Save(S)))

\* transaction.resolve_pending_to_posted
Resolving ==
  Scope(<<Account, Unallocated>>,
        Atomic(Each("lock", <<Account, Tx>>) \o Check \o Save({Account, Tx})
                 \o Locked(<<Unallocated>>, Each("lock", <<Allocation>>)
                                              \o Save({Unallocated, Allocation}))))

\* The budget v's transaction is allocated to, if there is one.
Holders(v) == IF v[Allocation] = Gone THEN {} ELSE {v[Allocation].budget}

\* transaction.split to budget d; the budgets to lock are chosen before any
\* lock is taken, the allocations to change after.
Splitting(v, d) ==
  LET bs == Sorted({Unallocated, d} \union Holders(v)) IN
  Scope(<<Tx>> \o bs,
        Atomic(Each("lock", <<Tx>>) \o Check \o Each("lock", bs)
                 \o Load({Allocation}) \o Plan("reallocate", {})))

\* transaction_allocation.delete, and create before it.
Unallocating(v, S) ==
  LET old == v[Allocation].budget IN
  Locked(<<old>>, Each("lock", <<Allocation>>) \o Save({old, Allocation})) \o Save(S)

Reallocating(v, d) ==
  IF v[Allocation].budget = d THEN <<>>
  ELSE Locked(<<d>>, Save({d})) \o Unallocating(v, {})

\* transaction.delete
Deleting(v) ==
  LET bs == Sorted(Holders(v)) IN
  Scope(<<Account>> \o bs,
        Atomic(Each("lock", <<Account, Tx>> \o bs) \o Load({Allocation})
                 \o Plan("unallocate", {})))

\* budget.archive
Archiving(b) == Locked(Sorted({b, Unallocated}), Plan("drain", {}) \o Load({b}) \o Save({b}))

Draining(v, p, b) ==
  IF v[b] > 0 THEN Transferring(p, b, Unallocated) ELSE <<>>

\* budget.delete: the counterparties are read before their locks are taken,
\* and again under the Redis locks.
Doomed(b, known) == Sorted({b, Unallocated} \union known)

Dropping(b, known) == Each("acquire", Doomed(b, known)) \o Plan("recheck", known)

DroppingLocked(b, known) ==
  Atomic(Each("lock", Doomed(b, known)) \o Load(Transfers \union {Allocation}) \o Check
           \o <<DoAll("expect", known)>>)

\* When a counterparty has come that it has no lock for, budget.delete leaves its
\* locks and starts over with the larger set.
Rechecking(b, known, now) ==
  LET leave == Each("release", Reverse(Doomed(b, known))) IN
  IF now \subseteq known THEN DroppingLocked(b, known) \o leave
  ELSE leave \o Dropping(b, known \union now)

\* funding.fund_account: one event per budget but Unallocated, under the
\* account's Redis lock, which it does not wait for.
Funding ==
  LET target == SetToSeq(Budget \ {Unallocated})
      event(b) == LET keys == Sorted({b, Unallocated})
                  IN Locked(keys, Locked(keys, Save({b, Unallocated})))
  IN <<Do("try", Account)>> \o FlattenSeq([k \in DOMAIN target |-> event(target[k])])
       \o <<Do("release", Account)>>

\* bank_account.update and rename, from the account the view has fetched.
Renaming == Load({Account}) \o Scope(<<Account>>, Atomic(Save({Account})))

\* PATCH pending = True: the serializer checks the transaction the view has
\* fetched, then transaction.update saves it.
Unposting == Load({Tx}) \o Check \o Updating({Tx})

Program(c, p) ==
  CASE c.op = "transfer" -> Transferring(p, c.src, c.dst)
    [] c.op = "reverse"  -> Reversing(db[Earlier])
    [] c.op = "create"   -> Creating
    [] c.op = "post"     -> Updating({Account, Tx})
    [] c.op = "resolve"  -> Resolving
    [] c.op = "split"    -> Plan("split", {})
    [] c.op = "delete"   -> Plan("delete", {})
    [] c.op = "archive"  -> Archiving(c.src)
    [] c.op = "edit"     -> Locked(<<c.src>>, Save({c.src}))
    [] c.op = "drop"     -> Plan("drop", {})
    [] c.op = "rename"   -> Renaming
    [] c.op = "unpost"   -> Unposting
    [] c.op = "fund"     -> Funding

\* Values for a process that has read nothing: those of any start.
Unread == (CHOOSE s \in Start : TRUE).db

\* AtomicWritesMixin.dispatch: a web request runs inside one transaction.
Run(c, p) == IF c.via = "request" THEN Atomic(Program(c, p)) ELSE Program(c, p)

Init ==
  /\ \E s \in Start : engine = s.engine /\ db = s.db /\ call = s.call
  /\ todo = [p \in Process |-> Run(call[p], p)]
  /\ mem = [p \in Process |-> Unread]
  /\ wrote = [p \in Process |-> <<>>]
  /\ rowlock = [r \in Row |-> Nobody]
  /\ depth = [p \in Process |-> 0]
  /\ redis = [k \in Lockable |-> Nobody]
  /\ scopes = [p \in Process |-> <<>>]
  /\ ended = [p \in Process |-> "no"]

-----------------------------------------------------------------------------
Running(p) == todo[p] # <<>>
Now(p) == Head(todo[p])
At(p, what) == Running(p) /\ Now(p).do = what
Advance(p) == todo' = [todo EXCEPT ![p] = Tail(@)]

\* What p's transaction sees: the committed rows under its own writes.
Seen(p) == [r \in Row |-> IF r \in DOMAIN wrote[p] THEN wrote[p][r] ELSE db[r]]

Available(r, p) == rowlock[r] \in {Nobody, p}

\* Undo p's transaction and leave its `with` blocks.  Objects read before are
\* never used again: every call re-reads them, so they are forgotten here and
\* at commit.
Rollback(p) ==
  /\ wrote' = [wrote EXCEPT ![p] = <<>>]
  /\ mem' = [mem EXCEPT ![p] = Unread]
  /\ rowlock' = [r \in Row |-> IF rowlock[r] = p THEN Nobody ELSE rowlock[r]]
  /\ depth' = [depth EXCEPT ![p] = 0]
  /\ scopes' = [scopes EXCEPT ![p] = <<>>]
  /\ todo' = [todo EXCEPT ![p] = <<>>]
  /\ UNCHANGED <<engine, db, call>>

\* A Redis lock taken over by another process is not released by this one.
Unlock(p, K) == redis' = [k \in Lockable |-> IF k \in K /\ redis[k] = p THEN Nobody ELSE redis[k]]

\* An exception: the blocks are left innermost first, and nothing can wait in
\* between, so this is one step.
Raise(p, why) ==
  /\ Rollback(p)
  /\ Unlock(p, ToSet(scopes[p]))
  /\ ended' = [ended EXCEPT ![p] = why]

\* acquire_lock: re-entrant, it waits for another holder.
Acquire(p) ==
  LET k == Now(p).row IN
  /\ At(p, "acquire")
  /\ \/ Contains(scopes[p], k) /\ UNCHANGED redis
     \/ /\ ~Contains(scopes[p], k)
        /\ redis[k] = Nobody
        /\ redis' = [redis EXCEPT ![k] = p]
  /\ scopes' = [scopes EXCEPT ![p] = Append(@, k)]
  /\ Advance(p)
  /\ UNCHANGED <<database, call, mem, ended>>

\* acquire_lock with blocking = False: when the lock is taken, all that is
\* left to the call is to close its transaction.
TryAcquire(p) ==
  LET k == Now(p).row IN
  /\ At(p, "try")
  /\ IF redis[k] = Nobody
       THEN /\ redis' = [redis EXCEPT ![k] = p]
            /\ scopes' = [scopes EXCEPT ![p] = Append(@, k)]
            /\ Advance(p)
       ELSE /\ todo' = [todo EXCEPT ![p] = [n \in 1..depth[p] |-> DoAll("end", {})]]
            /\ UNCHANGED <<redis, scopes>>
  /\ UNCHANGED <<database, call, mem, ended>>

\* Mutant: every block releases its key.
ReleasedByAny(p) == {Last(scopes[p])}

\* Only the outermost block of a key releases it.
Released(p) == {Last(scopes[p])} \ ToSet(Front(scopes[p]))

Release(p) ==
  /\ At(p, "release")
  /\ scopes' = [scopes EXCEPT ![p] = Front(@)]
  /\ Unlock(p, Released(p))
  /\ Advance(p)
  /\ UNCHANGED <<database, call, mem, ended>>

\* atomic(): on SQLite the outermost BEGIN IMMEDIATE takes the whole database.
Begin(p) ==
  /\ At(p, "begin")
  /\ IF SQLite /\ depth[p] = 0
       THEN /\ \A r \in Row : Available(r, p)
            /\ rowlock' = [r \in Row |-> p]
       ELSE UNCHANGED rowlock
  /\ depth' = [depth EXCEPT ![p] = @ + 1]
  /\ Advance(p)
  /\ UNCHANGED <<engine, db, call, mem, wrote, redis, scopes, ended>>

\* Mutant: the locked row is not read again.
KeepObject(p, r) == mem[p][r]

\* The value a lock refreshes p's object to.
Refreshed(p, r) == Seen(p)[r]

\* locked(): a row lock and a re-read; a deleted row raises.
LockRow(p) ==
  LET r == Now(p).row IN
  /\ At(p, "lock")
  /\ Available(r, p)
  /\ IF Seen(p)[r] = Gone
       THEN Raise(p, "refused")
       ELSE /\ rowlock' = [rowlock EXCEPT ![r] = p]
            /\ mem' = [mem EXCEPT ![p][r] = Refreshed(p, r)]
            /\ Advance(p)
            /\ UNCHANGED <<engine, db, wrote, depth, call, redis, scopes, ended>>

\* A plain read.
LoadRows(p) ==
  /\ At(p, "load")
  /\ mem' = [mem EXCEPT ![p] = [r \in Row |-> IF r \in Now(p).rows THEN Seen(p)[r] ELSE @[r]]]
  /\ Advance(p)
  /\ UNCHANGED <<database, call, redis, scopes, ended>>

\* The checks that raise ValueError (or a validation error).
CheckRows(p) ==
  /\ At(p, "check")
  /\ IF Legal(call[p], mem[p])
       THEN Advance(p) /\ UNCHANGED <<database, call, mem, redis, scopes, ended>>
       ELSE Raise(p, "refused")

\* _delete_locked looks each counterparty up among the budgets it has locked,
\* and saves them all.
ExpectKnown(p) ==
  LET b == call[p].src IN
  /\ At(p, "expect")
  /\ IF Counterparties(mem[p], b) \subseteq Now(p).rows \union {Unallocated}
       THEN /\ todo' = [todo EXCEPT ![p] =
                 Save({b, Unallocated} \union Now(p).rows \union Touching(mem[p], b)) \o Tail(@)]
            /\ UNCHANGED <<database, call, mem, redis, scopes, ended>>
       ELSE Raise(p, "KeyError")

\* What plan pl, decided on the values v, puts before the rest of p's call.
Chosen(p, pl, v) ==
  LET c == call[p] IN
  CASE pl.do = "split"      -> Splitting(v, c.dst)
    [] pl.do = "reallocate" -> Reallocating(v, c.dst)
    [] pl.do = "delete"     -> Deleting(v)
    [] pl.do = "unallocate" -> Unallocating(v, {Account, Tx})
    [] pl.do = "drain"      -> Draining(v, p, c.src)
    [] pl.do = "drop"       -> Dropping(c.src, Counterparties(v, c.src))
    [] pl.do = "recheck"    -> Rechecking(c.src, pl.rows, Counterparties(v, c.src))

\* Continue with what the rows read here call for.
Decide(p) ==
  /\ Running(p) /\ Now(p).do \in Plans
  /\ todo' = [todo EXCEPT ![p] = Chosen(p, Now(p), Seen(p)) \o Tail(@)]
  /\ UNCHANGED <<database, call, mem, redis, scopes, ended>>

\* save(): an UPDATE writes every column of the object, and waits for a row
\* lock p does not hold.
SaveRows(p) ==
  LET S == Now(p).rows IN
  /\ At(p, "save")
  /\ \A r \in S : Available(r, p)
  /\ LET after == Effect(call[p], p, mem[p]) IN
     wrote' = [wrote EXCEPT ![p] = [r \in DOMAIN @ \union S |-> IF r \in S THEN after[r] ELSE @[r]]]
  /\ rowlock' = [r \in Row |-> IF r \in S THEN p ELSE rowlock[r]]
  /\ Advance(p)
  /\ UNCHANGED <<engine, db, call, mem, depth, redis, scopes, ended>>

\* A transfer inserted by p refers to the account: PostgreSQL checks the
\* (deferred) foreign key at commit, under a share lock on the account's row.
ChecksAccount(p) ==
  \/ p \in DOMAIN wrote[p] /\ wrote[p][p] # Gone
  \/ call[p].op = "fund" /\ wrote[p] # <<>>

\* Leaving atomic(): the outermost block commits.
End(p) ==
  /\ At(p, "end")
  /\ depth' = [depth EXCEPT ![p] = @ - 1]
  /\ Advance(p)
  /\ IF depth[p] > 1
       THEN UNCHANGED <<db, wrote, rowlock, mem, ended>>
       ELSE /\ ChecksAccount(p) => Available(Account, p)
            /\ db' = Seen(p)
            /\ wrote' = [wrote EXCEPT ![p] = <<>>]
            /\ mem' = [mem EXCEPT ![p] = Unread]
            /\ rowlock' = [r \in Row |-> IF rowlock[r] = p THEN Nobody ELSE rowlock[r]]
            /\ ended' = [ended EXCEPT ![p] = "committed"]
  /\ UNCHANGED <<engine, call, redis, scopes>>

Step(p) ==
  \/ Acquire(p) \/ TryAcquire(p) \/ Release(p)
  \/ Begin(p) \/ End(p)
  \/ LockRow(p) \/ LoadRows(p) \/ SaveRows(p)
  \/ CheckRows(p) \/ ExpectKnown(p) \/ Decide(p)

\* SQLite gives up waiting for the database after its busy timeout.
BusyTimeout(p) ==
  /\ At(p, "begin") /\ SQLite /\ depth[p] = 0
  /\ \E r \in Row : ~Available(r, p)
  /\ Raise(p, "refused")

\* The process dies: its connection is closed, its Redis locks stay.
Crash(p) ==
  /\ Crashes /\ Running(p)
  /\ Rollback(p)
  /\ ended' = [ended EXCEPT ![p] = IF @ = "no" THEN "crashed" ELSE @]
  /\ UNCHANGED redis

\* Mutant: Redis locks are made without a timeout.
NeverExpires(k) == FALSE

\* The TTL of a lock runs out once nobody renews it.
Expires(k) ==
  /\ redis[k] # Nobody
  /\ Lapses \/ ~Running(redis[k])

Expire(k) ==
  /\ Expires(k)
  /\ redis' = [redis EXCEPT ![k] = Nobody]
  /\ UNCHANGED <<database, call, todo, mem, scopes, ended>>

Finished == (\A p \in Process : ~Running(p)) /\ UNCHANGED vars

Next ==
  \/ \E p \in Process : Step(p) \/ BusyTimeout(p) \/ Crash(p)
  \/ \E k \in Lockable : Expire(k)
  \/ Finished

Spec == Init /\ [][Next]_vars

Fairness ==
  /\ \A p \in Process : WF_vars(Step(p)) /\ WF_vars(BusyTimeout(p))
  /\ \A k \in Lockable : WF_vars(Expire(k))

FairSpec == Spec /\ Fairness
-----------------------------------------------------------------------------
Outcomes == {"no", "committed", "refused", "KeyError", "crashed"}

\* A row lock belongs to an open transaction, and every written row to the lock's
\* holder.
WritesLocked ==
  /\ \A r \in Row : rowlock[r] # Nobody => depth[rowlock[r]] > 0
  /\ \A p \in Process : \A r \in DOMAIN wrote[p] : rowlock[r] = p

\* Types, and that a lock belongs to work in progress: a row lock as above, a Redis
\* lock to an open block or to a process that is gone, and every open block to its
\* lock unless locks may lapse.
TypeOK ==
  /\ DOMAIN db = Row /\ call \in [Process -> Call]
  /\ rowlock \in [Row -> Process \union {Nobody}]
  /\ redis \in [Lockable -> Process \union {Nobody}]
  /\ depth \in [Process -> 0..3] /\ ended \in [Process -> Outcomes]
  /\ WritesLocked
  /\ \A k \in Lockable : redis[k] # Nobody =>
       Contains(scopes[redis[k]], k) \/ ~Running(redis[k])
  /\ Lapses \/ \A p \in Process : \A k \in ToSet(scopes[p]) : redis[k] = p

\* A start whose calls are one transaction each and save only rows that they lock and
\* re-read, or that such a row's lock protects: all but those of fund_account, of
\* bank_account.update and of a transaction made pending again.  A transfer that is to
\* be reversed was there when the call began; one that a call makes was not.
LocksItsRows(s) ==
  /\ WellFormed(s.db) /\ s.call \in [Process -> Call]
  /\ \A p \in Process :
       /\ s.db[p] = Gone
       /\ s.call[p].op \notin {"fund", "rename", "unpost"}
       /\ s.call[p].op = "reverse" => s.db[Earlier] # Gone

\* "Correctness of balances rests on the database locks" (locks.py:25): each
\* call that commits has had its whole effect, once, on the values committed
\* before it, and any other call none, even when processes die and Redis locks
\* expire under their holders.
Serial == INSTANCE SerialCalls WITH left <- {p \in Process : ended[p] = "no"}
Serializable == Serial!Spec

\* The processes that p's next instruction waits for.
WaitsFor(p) ==
  LET holders(S) == {rowlock[r] : r \in S} \ {p, Nobody}
      i == Now(p)
  IN IF ~Running(p) THEN {}
     ELSE CASE i.do = "acquire" /\ ~Contains(scopes[p], i.row)
                 -> {q \in {redis[i.row]} \ {Nobody} : Running(q)}
            [] i.do = "begin" /\ SQLite /\ depth[p] = 0 -> holders(Row)
            [] i.do = "lock" -> holders({i.row})
            [] i.do = "save" -> holders(i.rows)
            [] i.do = "end" /\ depth[p] = 1 /\ ChecksAccount(p) -> holders({Account})
            [] OTHER -> {}

\* No group of processes waits for each other, through Redis locks, row locks
\* and commits together ("acquire sorted budget locks to prevent deadlocks",
\* internal_transaction.py; the lock order of service/__init__.py).
NoCircularWait ==
  \A S \in SUBSET Process : S # {} => \E p \in S : WaitsFor(p) \intersect S = {}

\* Every call comes to an end, whatever dies on the way: the locks it waits
\* for are released or expire.
CallsEnd == \A p \in Process : <>(~Running(p))

\* budget.delete has locked every counterparty when it deletes (budget.py:370).
CounterpartiesKnown == \A p \in Process : ended[p] # "KeyError"

\* A posted transaction never becomes pending again (validate_pending).
PostedForGood ==
  [][db[Tx] # Gone /\ ~db[Tx].pending /\ db'[Tx] # Gone => ~db'[Tx].pending]_db
=============================================================================
