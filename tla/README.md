# mibudge in TLA+

This directory holds TLA+ models of mibudge, the budgeting service in `src/`,
the TLC configurations that check them and the TLAPS proofs about them.

## The system

mibudge keeps bank accounts, divides the money of each account over budgets,
and imports the account's transactions from a bank. Its parts, the state each
keeps, and what makes them hard:

| Part | State | Operations | What is hard |
|------|-------|------------|--------------|
| Ledger services (`moneypools/service/{bank_account,budget,transaction,transaction_allocation,internal_transaction}.py`) | `BankAccount`, `Budget`, `Transaction`, `TransactionAllocation`, `InternalTransaction` rows, with balances stored redundantly | create, update, delete, split, settle, transfer, reverse, archive | every balance is a running total changed in place by a dozen calls; budgets must always add up to the account |
| Locking (`common/locks.py`, `service/_locking.py`, `common/views.py`, `common/db.py`) | Redis keys with a TTL, row locks, one transaction per HTTP request | `acquire_lock`, `locked`, `locked_many`, `atomic` | two lock layers with different lifetimes; processes that crash or stall; several rows per call |
| Running-balance snapshots (`transaction_allocation.py`, `transaction.py`) | the balance after each event, on the event's row | `recalculate_from_dt` and its callers | events inserted, moved and deleted in the past |
| Funding engine (`funding.py`, `funding_strategy.py`, `schedules.py`) | `FundingEventOccurrence` rows, `last_funded_on`, `last_recurrence_on` | `fund_account` per account, daily and on demand | retries after partial runs and crashes, backfill, paused and archived budgets |
| Scrape sync (`sync_scrape.py`) and the importers (`importers/`) | pending and posted transactions of an account | one scrape per call; a statement row by row | pending rows are replaced each time, posted ones recognised by date, amount and description; scrapes come late, imports die halfway |
| Linking (`linking.py`, `tasks.py`, `transaction_details.py`) | `Transaction.linked_transaction`, both ways | a background task per new transaction | two tasks choosing each other's counterpart; rows that are wiped, deleted or saved from stale copies meanwhile |
| Invitations (`service/invitation.py`, `users/invitation.py`, `common/invitation.py`) | status, expiry and counters of a token | create, resend, cancel, accept, decline | window limits, expiry, two requests at once |
| Email change (`users/email_change.py`, `users/sessions.py`) | `EmailChangeRequest`, sessions, API keys | request, confirm, revoke | several requests of one user |
| Notifications (`notifications/`) | `Notification`, `NotificationLog`, preferences, a failure counter in the cache | notify, send now, digest, purge | the same notification in two mails, or in none; runs that overlap or die between the mail and the note of it |
| REST API, management commands, web client, importers | none of their own | call the services | which requests they can make |

How they interact: the REST views, the Celery tasks and the management commands
call the services; the services call each other (a transaction creates its
allocation, archiving a budget creates transfers, a funding run creates
transfers); all of them share the database rows and the Redis locks. A web
request that writes runs inside one transaction (`AtomicWritesMixin.dispatch`),
so the services it calls open savepoints in it; a task opens and commits a
transaction per service call. New transactions enqueue `attempt_link_transaction`
on commit.

What makes each part correct:

- **Ledger**: every unit of money of an account is in exactly one of its budgets, but for
  what splits that name Unallocated lose or count twice (Findings), every stored balance
  is explained by rows, and no row points at a deleted one.
- **Locking**: concurrent calls have the effect of some serial order; no call
  waits for ever; a crash leaves nothing half done.
- **Snapshots**: the balance stored on an event is the sum of the events before it.
- **Funding**: each event pays its intended amount at most once, and exactly once
  when the run is repeated until it completes; no payment overshoots a target; no
  due event is forgotten.
- **Scrape sync and imports**: a bank transaction is stored once, pending or posted,
  the balances are explained by the rows, and the account catches up with its bank.
- **Linking**: links are mutual, join two transactions for good, and come about.
- **Invitations**: an address has one invitation at a time, who is an owner has
  accepted one, who accepted one is an owner, and mails are bounded.
- **Email change**: a token takes effect at most once and never after it was revoked
  or replaced.
- **Notifications**: each is mailed at most once, and not never.

## Modules

| Module | Models |
|--------|--------|
| `Ledger` | the ledger services at the granularity of whole calls |
| `MCLedger`, `MCLedgerOne.cfg` | its instance for TLC |
| `Sums` | lemmas about `SumFunctionOnSet` over finite sets |
| `LedgerProofs` | the proofs about `Ledger` |
| `Calls` | what each service call does to the rows it shares, as functions of their values |
| `SerialCalls` | the promise: each call takes effect in one step, or not at all |
| `RowLocks` | the calls as they run: Redis locks, row locks, transactions, re-reads, crashes |
| `MCRowLocks`, `MCRowLocks*.cfg` | which calls meet in each run |
| `RowLocksProofs` | the proofs about `RowLocks` |
| `Funding` | the funding engine, one committed statement of `fund_account` at a time |
| `MCFunding`, `MCFunding*.cfg` | budgets and schedules for it |
| `FundingProofs` | the proofs about `Funding` |
| `Snapshots`, `MCSnapshots` | the running balances stored on allocations and transfers, and `recalculate_from_dt` |
| `SnapshotsProofs` | the proofs about `Snapshots` |
| `Imports`, `MCImports` | one account, its bank, the scrapes and statements through which it follows it |
| `ImportsProofs` | the proofs about `Imports` |
| `Linking`, `MCLinking` | link tasks statement by statement, against what happens to their rows |
| `LinkingProofs` | the proofs about `Linking` |
| `Notifications`, `MCNotifications` | a user's notifications: immediate sends, digests, purges |
| `Invitations`, `MCInvitations` | the invitations of an address, to an account or to the site |
| `MailProofs` | the proofs about `Notifications` and `Invitations`, which share nothing else |

`LedgerProofs`, `FundingProofs`, `RowLocksProofs`, `SnapshotsProofs` and `ImportsProofs` extend `Sums`
besides their modules; `MailProofs` extends two modules, so the names they would share carry
`Invite` in one of them (`InviteSpec`, `InviteTypeOK`); `SerialCalls` and `RowLocks` both extend `Calls`, and `RowLocks` instantiates `SerialCalls` for its refinement.
`Ledger` and `RowLocks` divide the work: `Ledger` asks whether the calls, run one
after the other in any order, keep the books; `RowLocks` asks whether running
them together is like running them one after the other. `Funding` asks what a run
made of many such steps does when it dies, is repeated, comes late or meets
another; it takes each locked section as one step, which `RowLocks` justifies.
`Snapshots` and `Imports` take each service call as one step for the same reason:
both are about what sequences of calls leave behind. `Linking`, `Notifications` and
`Invitations` model code that takes no Redis lock at all, so there the steps are single
reads and writes, and what holds is what the database and the order of statements give.

### Ledger

One variable per column that carries money or joins rows: `available`/`posted`
of an account, `balance`, `funded`, `fillup`, `kind`, `archived` of a budget,
`pending`, `amount` of a transaction, `rows`/`alloc` for the allocations and
`itx` for the transfers. Rows come from fixed pools of identifiers, and a row
that does not exist carries zeros. One action per service call: `CreateAccount`,
`DeleteAccount`, `CreateTx`, `PostTx` (`transaction.update`), `ResolveTx`,
`DeleteTx`, `Split`, `Transfer`, `ReverseTransfer`, `CreateBudget`,
`UpdateBudget`, `ArchiveBudget`, `DeleteBudget`. An action contains every call the
service makes: a split changes its allocations and their budgets, archiving
creates the transfers that drain the budget and its fill-up goal, deleting
reverses the transfers that cross to other budgets and sweeps what is left.
`opening` is a history variable. One currency, no dates, no snapshots.

`Split` takes any request that the view accepts, those that name Unallocated included.
Its loop over the declared budgets, the remainder and the clean-up are one step: they
are one `atomic()` block under the locks of all their budgets, so nobody else sees it half
done (`RowLocks` has the calls one by one and shows it). What they do to each other within
the block is in the step. A positive remainder is written last, over the part declared for
Unallocated (`SplitPart`). The index of existing allocations is read before the
loop: without a row of Unallocated, a declared part and a remainder create two
(`SecondRow`), and the next split passes over one of them (`PassedOver`), which stays. `twin` is the
amount of one of two such rows; `excess` is a history variable, what the last split of a
transaction left on its budgets beyond its amount (`Excess`).

### Calls, SerialCalls and RowLocks

The rows are one account, its budgets, one transaction with one allocation that
carries its whole amount, one transfer that exists and one per process that may
be inserted. `Calls!Effect` is what a call does to their values, `Calls!Legal`
when it is accepted. `SerialCalls` lets each process perform its call in one step
or fail.

In `RowLocks` a process holds the rest of its call as a sequence of instructions,
built from the source by `Locked`, `Scope` and `Atomic`:

| Instruction | Code |
|-------------|------|
| `acquire`, `try`, `release` | entering and leaving `acquire_lock`, re-entrant; `blocking=False` |
| `begin`, `end` | entering and leaving `atomic()`; the outermost `end` commits. On SQLite the outermost `begin` is `BEGIN IMMEDIATE` |
| `lock` | `locked()`: `SELECT ... FOR UPDATE` and refresh; a deleted row raises |
| `load` | a query without a lock |
| `save` | `save()`: writes every column the object holds |
| `check`, `expect` | a check that raises `ValueError`, a lookup that raises `KeyError` |
| a plan (`split`, `delete`, `drop`, ...) | code that decides what to lock or call next from rows it reads there |

`via` says how a call is made: `"request"` wraps it in the transaction of
`AtomicWritesMixin.dispatch`, `"task"` does not. Values a process has read stay in
`mem` (its Python objects) until `lock` or `load` reads them again, so a service
that saves an object it read before the lock overwrites what was committed since.
`wrote` is the transaction's uncommitted writes. A transfer's foreign key to the
account is checked by PostgreSQL at commit and waits for a lock on the account's
row (`ChecksAccount`). An exception undoes the transaction and leaves the `with`
blocks in one step (`Raise`): nothing can wait in between. A dead process keeps its
Redis locks until they expire (`Expire`); with `Lapses` a lock may also expire under
a living holder (a stalled renewal thread), which then neither notices nor releases
another holder's lock.

Abstractions of `RowLocks`: the allocations, snapshots and occurrences a call
writes are covered by the budget's row; a funding run has one event per budget; a
resolve settles for 2 and a split assigns the whole amount; PostgreSQL's
deadlock detector is left out, so that a circular wait is visible as such.

### Funding

One account. A budget's record holds its row (`balance`, `funded`, `fill` for its
fill-up's balance, the pointers `last`, the flags), the sum of the system transfers
of each event (`paid[kind][day]`, what `already_moved` adds up) and its
`FundingEventOccurrence` rows (`occ[kind][day]`). Days are numbered; a schedule is the
set of days it fires on.

A run (`run[r]`) goes through `fund_account`:

| Action | Code |
|--------|------|
| `Begin` | take the account's lock without waiting, list the due events (`_collect_events`) |
| `Instantiate` | `get_or_create` of one occurrence; what it read decides whether the loop will pass over it |
| `ClosePrior`, `Skip` | `_close_prior_incomplete`; a paused budget |
| `PayFund`, `PayRecur` | the locked transactions of `_process_fund_event` and `_process_recur_event`: the strategies' intended amounts (`Share`, `AtStart`, `EventsLeft`), less what was moved (`Net`, `Sweep`) |
| `Latch`, `Mark`, `Advance` | the statements after it, each by itself: `complete`, the occurrence, the pointer |
| `Finish`, `Commit` | release the account's lock; end the request's transaction |
| `Crash` | the process dies, or an exception ends the run |

A member of `Tasks` commits every statement; a member of `Requests` keeps its writes
in `draft` until `Commit`, which comes after the lock has been released, and others
that need the same rows wait. Users allocate, transfer, move money of a fill-up,
pause, resume and archive (`budget_svc`) between any two steps.

The strategies are translated with their rolling back of later system transfers and
their rounding; the schedule arithmetic is a set of days. `PARTIAL` has no
action: nothing in the code sets it (`_mark_occurrence_partial` has no caller).

### Snapshots

A book is all the rows of an account: `tx`, `alloc[t][b]` with its stored balance
(`snap`), `itx` with one on each side, and the budgets' `balance`. The service
functions are functions on books, and a call composes them as the code does:
`RecalculateFromDt` finds the anchor, the last allocation before a date,
and rewrites every event after it in the order of date, transfers
before allocations, creation (`_collect_events`). Actions: `CreateTx`, `Resolve` (which
may move a transaction to another date and amount: the earlier of both is the start),
`Split`, `DeleteTx`, `Transfer`, `DeleteTransfer`, `DeleteBudget` (each counterparty from
the earliest transfer it loses). The properties say what the stored balances should be
without recalculating: the sum of the events before.

### Imports

The bank holds `waiting` and `settled` charges of each kind. A page (`Page`) is what it
shows, with some descriptions cut short; `Sync` is `_sync_scrape_locked` as a whole: wipe
the pending rows and their allocations, recognise the posted ones by key, insert the
rest, add up the deltas of both balances and of Unallocated, store the rows' balances,
report the mismatch. `Live` posts the page of now, `Replay` any page there has been or
could have been (`import_bofa_saved.py`). The statement importer is a client of its own:
`Start` reads what is stored, `Skip`, `Post` and `Refused` go through the statement row by
row, and anything may come in between; it may stop anywhere and start again. `raced`
remembers that a sync inserted rows in the middle of an import, which the importer's map
cannot know. `report` is what the last sync left, looked at before anything else happens: its page and
the `balance_mismatch` it returned.

### Linking

A row is a line of a bank's list and a number, since a wiped row comes back under a new
id. A link task reads its row and searches (`Search`), then writes both sides (`Link`, one
`UPDATE` at a time); a scrape or deletion collects its rows, sets the links to them NULL and
deletes them; `ReadDetails` and `SaveDetails` are the request that saves a
`Transaction` it read before. A row's `text` is the description the bank gave, which names the
accounts of its line, or one rewritten, which may name any others or none (`Naming`):
`apply_details` composes it anew from the details, and a user may edit it (`EditText`). The link task
reads it once; `missed` remembers the pairs of which only that task could have seen both rows and
had lost the other account's name by then. `reenrich_merchant_identity`, which
recomposes descriptions when run by hand, is left out. The database is in the model: an `UPDATE` takes its row's lock
and the unique index's entry for its target until the commit, keys are checked at the
commit, a process that waits for itself through others is a `Victim`. A worker may die
and lose its task. `crushed` remembers the rows whose link a stale save of all columns put
back; what the properties say they say of the others.

### Notifications

`row[n]` is a notification (pending means: no `log_entry`), `task[n]` its
`send_notification_now` in the queue, `run[a]` a sender or a flush with the batch it
has read. `EmailChannel._dispatch` is four steps for both: `Render`, `Mail` (or `Refuse`),
`Link`, and for a flush `Done` (the counter deleted, `last_digest_sent_at` saved). A run may
die at any of them (`Die`), or raise after the mail was accepted (`Interrupt`). `open` and
`last` abstract the clock: whether the window is open and whether a digest went out in it.
`disturbed` and `clashed` remember what two runs held at once or a run left undone. Rows are
purged at any time, which includes their retention.

### Invitations

One address and either flow (`flow`), for both share their code's shape and the limits of
`common/invitation.py`. A request's checks and its write are steps of their own:
`Create` passes the first check (not an owner, or not active), `Check` the second and
third (no pending invitation; room in the window), `Insert` writes. `Take` reads a row that
passes `_validate_pending` for accept, decline, cancel or resend, and the actions after it
write by primary key. `invitee` says whether a row still has its user: `DeleteUser` sets it to NULL
(`SET_NULL`), and an acceptance that has read such a row (`adds`) marks it ACCEPTED and adds
nobody. `age` is the row's time: "new" until the token expires, "over" until
it leaves the window. `Fail` rolls a request back, `FailMailed` after its mail went out. A
create or accept works on the creation of rows (0) as well as on its own row; what two
requests worked on at once is in `raced`. On SQLite, where a request's transaction is
`BEGIN IMMEDIATE`, and with one request at a time, `raced` holds failed mails only.

## Runs

| Run | Shows |
|-----|-------|
| `ledger_one_account` | all invariants of `Ledger`, with one account, two budgets besides Unallocated (the least with a recurring budget and its child), one transaction and two transfers (the least for an archive that drains two budgets); two debits and a credit, so that a settlement may change the amount and both signs of a split and of a residual occur; every split the view accepts |
| `calls_pairs` | `Serializable`: any two of 24 calls that lock the rows they save, and pairs on a pending transaction, on both engines, with crashes and lapsing Redis locks. Renaming an account, making a transaction pending again and a funding run are not among them (Findings, `Funding`) |
| `calls_three` | `TypeOK`, `NoCircularWait` for three of the calls `ThreeStart` names, on PostgreSQL |
| `calls_end` | `CallsEnd`: every call ends, though processes die anywhere |
| `funding` | `TypeOK`, `PaidOnce`, `NoOvershoot` for every kind of budget, with a task and a request that may die, runs as of an earlier day, and a user who moves money, pauses, resumes, archives |
| `funding_tasks` | `PaidAsOnTime`, `DueIsSettled`: tasks that die up to twice, run late, repeatedly or as of an earlier day |
| `snapshots` | `AllocationSnapshots`, `TransferSnapshots`: every stored running balance is the prefix sum, after any order of insertions, splits, settlements at another date and amount, reversals and deletions |
| `imports` | `BalancesExplained`, `StoredOnce`, `CurrentScrapeWins`, `MismatchExplained`, `SnapshotsExplained`, `FollowsBank`: the account follows its bank through late and repeated scrapes and interrupted imports |
| `linking` | `LinksMutual`, `LinkForGood`, `LinkedInTheEnd`: the two sides of a transfer, two workers, scrapes, deletions, a stale save, a rewritten description, a worker that dies |
| `notifications` | `MailedOnce`, `SentWasMailed`, `OneDigestAWindow`, `Delivered`: overlapping flushes and senders, refused mails, dying workers, a template that cannot be rendered |
| `invitations` | `OwnersAnswered`, `OnePending`, `MailsBounded`: two requests at once, resends, expiry, a second window, a user who is deleted |
| `finding_unpost` | *violation*: see Findings |

Every property has a mutant: a definition marked "Mutant" beside the one it
replaces, under which the run fails.

Bounds. The pools of the `Ledger` runs are the least in which every action and every
branch is taken; the proofs remove them. Two processes suffice for a lost update,
three for a deadlock through a third party; three budgets give an order with
Unallocated in the middle, so that transfers and drains lock it first or last.
Process symmetry is used where no property is temporal with fairness.
`calls_pairs` turns deadlock checking off: some of its pairs do wait for each
other (Findings), and the run asks only about effects. `calls_three` and
`calls_end` leave those combinations out and so show that they are the only ones:
`rename` with stale data, two splits with a third call, "run funding now" with
a transfer, and a transfer with a call that holds the account's row.

`Funding` is run with one budget at a time: the budgets of an account meet only in the
order of a run and in Unallocated's row, whose balance no decision of the engine reads.
Three days are enough for an event, a later one of the same kind and a recurrence
between them; amounts of 2 and 3 cents make the last instalment smaller than the
others and the shares of a gap odd. Two crashes let a run die, be repeated and die
again. Deadlock checking is off: after the last day an archived budget has nothing to
do. `PaidOnce` is checked while `task` and `request` overlap; `PaidAsOnTime` is asked of
tasks (see Findings for what a request does to it), with `auto` off, because the two
scheduled passes of a day may come in either order.

`snapshots` has three dates for two transactions and two transfers, so that an event can
come before, between and after two others and share a date with either kind; one more
budget than Unallocated is enough, since budgets only meet in a transfer.
`imports` has two charges that look the same and one whose description may be cut: the
cases in which recognition by key can go wrong; all three settle for the same amount, so that
rows too many and rows too few can cancel in what the sync reports; nine rows are more than any behaviour
has, replays that bring back the pending rows of an earlier page beside everything posted included. `linking` has the two sides of
one transfer, one of which is inserted twice, two workers, so that both sides'
tasks, or a wiped row's and its successor's, run at once, and one fault. `notifications` has a sure
immediate notification and one for the digest that may be impossible to render, two flushes,
and one failure, retry and fault each; its theorems remove these bounds. `invitations` has
three rows for windows of two, one resend and two requests; a constraint (`FewOfAll`) keeps the rows,
the things raced for and the rows that have lost their user at four together, so that
all three kinds still meet; its theorems remove the bounds.
Deadlock checking is off in these five: a bank may show nothing new, and every invitation and
notification may have had its end.

Fairness. `FairSpec` of `RowLocks` asks weak fairness of each process's steps: a running process
is scheduled, PostgreSQL grants a free lock, and `redis-py` polls for a blocking
lock. (Only one waiter exists for each lock in the two-process run, so weak
fairness does not hide starvation.) It asks weak fairness of `Expire`, since the
TTL of a dead holder's lock runs out after 30 seconds, and of `BusyTimeout`, since
SQLite stops waiting after its timeout. No fairness is asked of crashes. `FairSpec` of
`Funding` asks weak fairness of the steps of a run that has begun, and strong
fairness of both scheduled passes (`schedule_funding_runs`, every day): a single pass
that finds the lock taken does nothing, but not every pass of every day does. The
last day of the model stands for all later ones. Nothing is asked of users, requests
or the passing of days. `FairSpec` of `Imports` asks that the live importer and the statement
importer run again and again (they are run by schedule or by hand) and that not every
import is interrupted or refused; it asks nothing of the bank. `FairSpec` of `Linking` asks
that workers take tasks and that what has begun goes on, not that workers live.
`FairSpec` of `Notifications` asks that windows open and close, that the flush, which comes
every 30 minutes, comes in some of them and that the mail server does not refuse it for
ever, and that the failure counter's key expires; it asks nothing of the immediate senders,
so `Delivered` shows that digests make up for them.

## Proofs

`LedgerProofs` proves, for any pools, amounts and homes that satisfy
`PoolsAssumption` (finite pools), `HomesAssumption` (each budget and transaction
belongs to one account, each account has its own Unallocated) and
`AmountsAssumption` (integers), that `Spec` implies `[]` of `TypeOK`, `References`,
`AccountsMatchTransactions`, `AllocationsAccounted`, `BudgetExplained`,
`GoalFunded`, `BudgetsAccounted` and `NothingLeftToSweep`.

The rules that `verify_balances.py` states (allocations sum to the transaction's amount, budgets to the
available balance) are false after a split that names Unallocated (Findings).
`AllocationsAccounted` and `BudgetsAccounted` say that this is all that is ever wrong: whatever calls
follow, what is missing or too much is what the last split of each transaction left, and
for a transaction whose splits did not name Unallocated that is nothing.

The account-level rule, `BudgetsAccounted`, is not inductive: that the balances
add up does not say what deleting a budget may leave behind. `LedgerInv` explains
each number by itself: references are sound, rows that do not exist carry
nothing (`Blank`), an account's balances are its transactions, a transaction's
allocations are its amount and its excess, a budget is its allocations plus its transfers, a goal is
its transfers. Each conjunct has a step lemma with one case per action. Then

- `BudgetsAccounted` exchanges the order of summation: the sum over budgets of
  the sums over transactions is the sum over transactions of their allocations
  (`SumSwap`), transfers cancel within an account, and allocations stay in it;
- `NothingLeftToSweep` holds because the transfers among the doomed budgets cancel
  (`InnerNet`) and no transaction is allocated to them.

`Sums` proves the facts about `SumFunctionOnSet` this needs (empty, one element
removed, pointwise equality, sums and differences, exchange, partition by a key)
from the definition of `MapThenFoldSet`'s recursive function, by induction on
subsets. It also has what the other proofs need of finite orders: a set that `Lines` puts in a
line has a first and a last element, and what each element inherits from those before it
holds of all (`LinesInduction`); numbers can be ranked (`Ranks`).

That nothing crosses accounts is proved for any number of them (`References`,
`BudgetsAccounted`); the run has one.

`FundingProofs` proves `TypeOK` and `PaidOnce` of `Funding` for any budgets, plans,
schedules, tasks, requests and bounds that satisfy the module's assumptions: finitely
many budgets with numeric ids, a positive amount for a capped budget and none for a
recurring one, tasks and requests apart. `PaidOnce` is not inductive: a request
commits rows that it worked out before others ran. `FundingInv` adds `DraftsWithin`:
whatever a run has in its draft is within the amount as well. Every action that writes
goes through `Write`, so one lemma (`WriteStep`) shows that writing a well-formed
row that is within the amount keeps the invariant, and each action's lemma shows
that its row is such a row. For `PayFund` that is `NetBounds`: the share of a gap is
at most the amount, and what was paid already is taken off it. `FirstIn` shows that
the event a run takes next exists: the sort key orders any set of due events, and
the set of days and of budgets is finite, so that there is a least one.

`NoOvershoot` needs to know what a draft has paid that is not committed yet. `FillInv` adds
that nobody else writes the rows in it (`wrote` sets are disjoint, and a task's is empty), that
each payment in it was either after a later one of its kind or leaves its level within the
target (`Filled`), that a run's payments come in the order of their days (`Ahead`), and that
only a recurring budget's fill-up ever holds anything (`Plain`). Then each payment is measured
against the level without the later payments (`Since`), and no strategy intends more than the
gap: `Quantize(gap, n) <= gap`, half cents included (`QuantizeWithin`).

`MailProofs` proves `TypeOK`, `MailedOnce`, `SentWasMailed` and
`OneDigestAWindow` for any notifications, flushes, retries and limits. `MailedOnce` says nothing
of who is about to mail, so `HeldOnce` adds it: a notification that is not disturbed has at
most one holder, which has not mailed it before it is at "link", and without a holder it
was not mailed unless it is marked. `OneFlush` is the same for the digest of a window. The
counter's bound needs `RunsCount`: a flush counts on from what it read, which others may
have reset since.

It also proves `InviteTypeOK`, `OwnersAnswered`, `OnePending` and `MailsBounded` for any
requests, limits and number of rows. The argument is about what is not in `raced`: there,
one request at a time works on a thing (`Alone`), so it finds what it read (`StillPending`,
`StillCounted`), and an answer does not replace another. `NobodyToAdd` is the half of `OwnersAnswered` about requests:
an acceptance under way that will add nobody has read a row without a user, or of one who is
active already, and neither comes undone, whoever overlaps it. `OneLive` and `Room` carry a creation from
its check to its write: no row is live, and the window has room, as long as a creation that
passed its checks is alone. That the count of a row bounds its mails (`MailsCounted`) is
needed for the types already: the mails of a row go up by one with each resend.

`LinkingProofs` proves `TypeOK`, `LinksMutual` and `LinkForGood` for finitely many lines, each
with any number of copies, and any accounts, workers and enriching requests. `LinkingInv` adds,
per kind of process, what its statements have secured: a statement that has run holds its
row's lock and the unique index's entry of its target, so no other row has or gets that link
(`Ran`); a deletion has locked or still has to visit each of its rows (`Wiping`). At the commit both sides
of a pair are locked and written, and the key check of a deletion (`KeysHold`) leaves no
link to what it removes.

`RowLocksProofs` proves that `RowLocks` implements `SerialCalls` (`Serializable`), for any
budgets, any number of processes, both engines, processes that die at any instruction and
Redis locks that lapse under their holders. It also proves `TypeOK`.
The hypothesis is `LocksItsRows` of each start: its calls are one transaction each and
save only what they have locked and re-read. It leaves out three of the thirteen calls, for
what the code does: `fund_account` is many transactions, `bank_account.update` and a
PATCH to pending save an object read before the lock (the findings below: without the hypothesis
the theorems are false). The argument goes over the programs, whatever they contain:

- A *label* is what a process knows at a point of its program: its open transactions, the rows it
  has locked and read since (`fresh`), those it has saved, and what it has found in them.
  `Sound` says that labels can be given to the points of a program such that every
  instruction leads from one to the next; a lemma per service shows that its program is sound.
- `Holds` says what a label means for the state: a fresh row is locked by the process and its
  object is what is committed; a saved row is locked and what the transaction has written is
  the call's effect on the committed values.
- The invariant: the rest of each process's program is sound from a label that holds. A step of
  one process keeps the labels of all others, since it changes only rows that it has locked
  (`Frame`, `CommitSpares`), and at a commit the label "ready" says that the writes are
  exactly `Effect` (`HoldsCommit`); any other step is a stutter of `SerialCalls`.

The Redis locks are not used in that argument: it shows that `locks.py:25` is right to rest
correctness on the row locks.

What `TypeOK` says of the Redis locks (a lock that is held belongs to an open `with` block of
its holder or to a process that is gone; an open block has its lock, unless locks lapse)
needs that every program leaves the blocks it opens. `Nested(c, n, s, k)` says that program
`s` leads from `n` open blocks to `k`; a lemma per service and plan shows that its program
is balanced, and the invariant `Bracketed` says that the rest of each call leads from the
blocks that are open now to none. A `recheck` replaces the rest of the program: it stands for one
that leaves the blocks of the budgets known so far, and the retry opens those that it finds
(`NestedRecheck`).

`NoCircularWait` is proved from one more hypothesis, `KeepsLockOrder`: PostgreSQL, and calls among
transfer, reverse, post, archive, edit and drop, any number of them on any budgets. Redis locks of
budgets are taken in the budgets' order, no other while one is held, and none while a row is
locked; rows are locked in the order budgets, transfers, account, transaction, where the account's
row is also waited for at the commits that check a foreign key to it. A third description of a point of a program, its
*holding*, says what the process may hold there at most; `Goes` says which instruction leads from
one to the next, and `Ordered` that a program does so throughout, with a lemma per service
and plan (a drop whose counterparties have changed gives up its locks before it takes more, or
it would not be). The invariant `LockOrder` says that what each process holds
fits the rest of its program. So whoever waits, waits for something that comes
after all that it holds; in a circle, whoever holds the last of the rows that are held could not
be waiting, so no row is held there, and then the same is true of the Redis locks (`NoCycle`). Redis locks that lapse and processes that
die only take from what is held. The hypothesis leaves out what the order of `service/__init__.py`
does not cover: create, resolve, split, delete and fund lock budgets while the account's or the
transaction's row is locked (several of these do wait in a circle, see `calls_three` above), and
on SQLite the first lock takes the whole database.

`SnapshotsProofs` proves `TypeOK`, `AllocationSnapshots` and `TransferSnapshots` of `Snapshots`, for
any finite set of budgets, any dates, amounts and number of rows. The invariant `SnapInv` says of
every budget, deleted ones included, that its balance before every recorded event is what
it opened with and that each of its snapshots is right (`Told`): neither is enough alone, since a
recalculation without an anchor starts from that baseline, which no row stores. The argument:

- Each of the two loops is a recursive function along the order of the events; `RunsTo` and
  `ItxRunsTo` open it once, and `LinesInduction` shows that each step adds exactly the events
  between two rows, so that it leaves right snapshots if it started right (`FromTx`, `FromDt`).
- A recalculation writes one budget's snapshots and nothing else (`Rewrites`): all others stay
  right, also those of the other side of a transfer it passes.
- What a call changes before it recalculates is at its date or later: up to there the
  budget's events are the same (`SameUpTo`), so its snapshots are right there (`RightBefore`), which
  is what the recalculation starts from. For a settlement that moves a transaction it is the
  earlier of its two dates, for a deleted budget each counterparty's earliest loss (`Earliest`).
- `split`, `transaction.delete` and `budget.delete` repeat this per budget; a fold over a finite set
  is unfolded once (`FoldIn`), and the budgets not yet visited stay right.

`ImportsProofs` proves `TypeOK`, `BalancesExplained`, `SnapshotsExplained`,
`CurrentScrapeWins` and `StoredOnce` of `Imports`, for any listing of kinds, counts,
amounts, dates, stems and cut descriptions that satisfy the module's assumptions (amounts are
integers; kinds that look the same when cut have one date and amount). The loops of a
sync are recursive functions on intervals; each is opened once (`KeptRuns`, `FromRuns`,
`PostedRuns`, from `IntervalInduction`), and after that a sync is known by what it leaves:

- `KeepsPosted`, `InsertPostedFacts` and `InsertPendingFacts` say that the rows begin with the
  posted ones that were there, that posted ones of the page follow, at most a first one of each
  kind unless a description is cut, and then exactly the page's pending ones.
- `BalancesExplained` is then arithmetic on parts of one sum (`SumOfSplit`, `TotalExtended`):
  the wiped rows are what is not kept, the inserted ones what extends it (`SyncSums`).
  `SnapshotsExplained` adds that the rows newer than one are the complement of those up to
  it (`RolledBackTo`), so rolling back from the end gives the sum from the start.
- `StoredOnce` is not inductive: a charge the importer is about to post is not stored yet.
  `NoneTooMany` adds it: of each kind, the posted rows and the importer's remaining lines,
  less those it knows to be there (`Due`), are no more than the bank has posted. It is true when
  an import starts, because the importer has counted every posted row (`OnceStart`), and every
  step of the importer keeps it or lowers it. `PendingWhole`, that only posted rows are cut,
  is there because the wipe must not hide a cut row (`SyncCut`).

Only model-checked: of `RowLocks`, `TypeOK` and `NoCircularWait` for the calls that the
hypotheses leave out; `PaidAsOnTime` of `Funding`, which
compares with a recursion over days; `MismatchExplained` of `Imports`; and liveness:
`CallsEnd`, `DueIsSettled`, `FollowsBank`, `LinkedInTheEnd`, `Delivered`.

## Findings

- **A settled transaction can become pending again** (`finding_unpost`): the
  serializer's check is stale when the update takes its locks.

Met while modelling, with a start or a specification to see them by but no run of their own:

- **A split loses Unallocated's part, or counts it twice.** When a request names Unallocated and
  leaves a remainder, the remainder overwrites the declared part (`transaction.py:484-518`), against
  "receives exactly its declared (signed) amount" (`transaction.py:411`). When the transaction has no
  allocation to Unallocated yet, both are stored, as two rows; a later split knows one of them
  and leaves the other, which counts too much. The shipped client sends such requests
  (`useBudgetTransactions.ts:156-168`), and so does `reassign_allocations`
  of the management commands (`_budget_admin.py`).
  `AllocationsCoverTransaction` fails in `MCLedgerOne.cfg` when it is put among the invariants;
  `excess` is by how much.
- **Renaming an account undoes a transaction's balances.** `bank_account.update` and
  `rename` save a row they did not re-read, against `service/__init__.py:21`:
  `Serializable` fails from `RenameStart`.
- **"Run funding now" can deadlock with a transfer.** The request's transaction keeps row locks
  while the next event waits for Redis, against the rule of `common/locks.py:54`:
  `NoCircularWait` fails from `FundStart`.
- **Deleting a budget can fail with `KeyError`.** An uncommitted transfer is not among the
  counterparties read under the Redis locks, "once the locks are held the set cannot
  grow" (`budget.py:371`): `CounterpartiesKnown` fails from `DropStart`.
- Three more circular waits: `SplitStart` (two splits of a transaction and a
  transfer: `split` lists the budgets whose allocation it removes before it has the
  transaction's lock, `transaction.py:454`), `ImportStart` (a transfer commits after its
  budgets and needs the account's row; `transaction.create` locks them the other way
  round) and `SQLiteStart` (a request holds the database before its first Redis lock,
  a task the Redis lock before the database; the busy timeout ends it).
- **A budget funded and recurring on one day skips that day's funding.** The 23:00 fund event
  is measured against the day's start, where the 03:00 sweep has not happened, and moves
  nothing; `docs/funding.md:288` says it begins to fill the next cycle:
  `SameDayFundingStarts` fails with `Plans <- FullOnTheSameDay` and `auto` on.

To see those of `RowLocks`, put the start for `UnpostStart` in `MCRowLocksUnpost.cfg` (three
processes for `SplitStart`) and the property for `PostedForGood`.

Met while modelling `Funding`, without a run of their own:

- A COMPLETE event can be paid again, or become SKIPPED, although terminal states "are
  never re-opened" (`docs/funding.md:109`). A request that ends a run releases the
  account's lock before it commits; a task that begins then reads the occurrence as it
  was, PENDING since an earlier run died, and waits for the request's rows only when it
  writes. For fund events `already_moved` makes the payment zero; a sweep can take what the
  next cycle's fund event has just put into the fill-up. `PaidAsOnTime` with a request in
  `MCFundingTasks.cfg` shows it.
- A budget archived while a run is in progress is still paid by it (`funding.py:479` filters
  archived budgets only when the run begins).
- A run as of an earlier day, after the pointers jumped on resuming, can take a capped
  budget over its target, because later payments are rolled back from its gap:
  the exception in `NoOvershoot`.
- A goal whose last payment latches `complete` and whose run dies before the mark keeps
  its occurrence PENDING: complete goals are not listed again.

Met while modelling the other modules:

- `linking.py:39-40` relies on the counterpart's own task to find a row that was not there
  yet, which needs both descriptions to name the other account (`Paired` in
  `LinkedInTheEnd`). `apply_details` composes the description anew (`transaction_details.py:298-313`): when
  that happens before the later row's link task and drops the name of the other
  account, as a user's edit may, the pair is never linked (`missed`). It also saves every column of a row it read before
  (`transaction_details.py:315`): it puts back the link of then, or the row itself when it was
  deleted meanwhile (`crushed`; `LinkedBothWays` is the promise without that exception).
- A row that a scrape stored from a description the page had cut is not recognised by a
  statement import, whose key is exact, and is stored twice, although "re-running the same
  file is safe" (`docs/importers.md:149`); hence the exception in `StoredOnce`. Equal charges
  of one page become one row until a statement separates them. The report's mismatch tells
  it, unless as much is stored too often for another reason: the two errors cancel and the mismatch
  is zero (`MismatchExplained` says what it is exactly). A late scrape brings back pending rows that have been posted, until
  the next (`scraped_at` is used in notifications only).
- A run that dies between a mail and the update of its rows mails them again; a window in which
  the flush cannot link can bring two digests. A notification that cannot be rendered fails
  every digest of its user, who is suspended again and again, and the others are deleted
  unsent when their retention is over: the exception in `Delivered`. No log row is marked FAILED
  for it, although `notifications/README.md:303-305` says so: rendering comes first.
- Two requests that answer one invitation at once both succeed and the last write stays: an
  owner whose invitation says CANCELLED. Two that create at once leave two pending ones. A resend
  whose request fails has mailed without being counted. An acceptance whose user has been deleted is marked
  ACCEPTED and makes nobody an owner (`service/invitation.py:262-270`). The cancel view does not expect
  `TokenExpiredError`: the request fails and the EXPIRED mark is rolled back.
- `recompute_running_balances` passes over budgets without allocations
  (`recompute_running_balances.py:138-192`), so snapshots of transfers alone are not repaired.

## Not modelled

The bank-description parsers, category and merchant services hold no state. The
bank simulator and file import/export are clients of the services; of the importers
`Imports` has what they send, not how they read pages and files. Accounts, sessions
and throttling are thin wrappers over Django, allauth and DRF. Email change is a token
state machine like the invitations', with several requests of one user and a
revocation by the old address; it touches nothing else and is the next to model.
Permissions, filtering, pagination, rendering and the web client's stores are
left out, and of the schedules the calendar arithmetic (RRULE expansion). `Funding`
leaves out edits of targets and schedules in mid-cycle, missing fill-ups, pointers and
Unallocated budgets (states the services do not produce), the forecasts, the dry run,
the pruning of old occurrences, reports and notifications. Much of the repository's size is
migrations, parsers of bank files, the admin, serializers and views: code without
state transitions of its own.

## Plan

1. `EmailChange`: several pending requests, confirmation and revocation at once, the end of
   the sessions; `email_change.py` reads and saves without locks.
2. `NoCircularWait` for create, resolve, split and delete in the combinations that `calls_three` admits:
   their order depends on which rows two calls share, not on each call alone.
