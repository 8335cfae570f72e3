------------------------------ MODULE Funding ------------------------------
(***************************************************************************)
(* The funding engine, service/funding.py, on one account: the runs that   *)
(* pay the scheduled events of its budgets, as Celery tasks                *)
(* (tasks.py, fund_budgets), each of whose statements commits by itself,   *)
(* and as "Run funding now" requests, all of whose writes commit together  *)
(* after fund_account has returned and released the account's lock.  Runs  *)
(* may die between any two steps; users spend, transfer, pause and archive *)
(* meanwhile.                                                              *)
(*                                                                         *)
(* Days are numbered from a budget's creation, amounts are in cents, and   *)
(* a schedule is the set of days it fires on.  A budget's record holds its *)
(* row, its fill-up's balance, what the system transfers for each of its   *)
(* events have moved, and its FundingEventOccurrence rows.                 *)
(***************************************************************************)
EXTENDS Integers, FiniteSets, Functions

CONSTANTS
  Budgets,      \* ids, in the order of str(id)
  Plans,        \* the settings the account's budgets may have
  Autos,        \* the values auto_funding_enabled may have
  LastDay,      \* bound: the last day of the model
  AsOf,         \* the days a run on demand may be asked to run as of
  Tasks,        \* runs whose statements commit one by one
  Requests,     \* runs inside a request's transaction
  Nobody,
  MaxMoves,     \* bound: what users move in or out of budgets, in cents
  MaxSwitches,  \* bound: how often users pause, resume or archive
  MaxCrashes    \* bound: how many runs die

Days == 1..LastDay
Kinds == {"fund", "recur"}
Statuses == {"NONE", "PENDING", "COMPLETE", "SKIPPED"}
Types == {"goal", "capped", "recurring"}
Runs == Tasks \union Requests

\* amount is 0 for a goal funded by its target date `due`, and for a recurring
\* budget, whose strategy does not look at it.
Plan == [type : Types, target : Nat, amount : Nat, due : Nat,
         fund : SUBSET Nat, recur : SUBSET Nat]
Events == [day : Days, kind : Kinds, budget : Budgets]

ASSUME BudgetsAssumption == Budgets \subseteq Nat /\ IsFiniteSet(Budgets)
ASSUME PlansAssumption ==
  /\ Plans \subseteq [Budgets -> Plan]
  /\ \A p \in Plans : \A b \in Budgets :
       /\ p[b].type = "capped" => p[b].amount > 0
       /\ p[b].type = "recurring" => p[b].amount = 0
ASSUME DaysAssumption == LastDay \in Nat \ {0} /\ AsOf \subseteq Days
ASSUME AutosAssumption == Autos \subseteq BOOLEAN
ASSUME RunsAssumption == Tasks \intersect Requests = {} /\ Nobody \notin Runs
ASSUME BoundsAssumption == MaxMoves \in Nat /\ MaxSwitches \in Nat /\ MaxCrashes \in Nat

VARIABLES
  today,
  plan,      \* the budgets' settings
  auto,      \* whether the account's funding runs on the schedule
  budget,    \* the committed rows of each budget
  run,       \* what each run is doing
  lock,      \* the run that holds the account's Redis lock
  moves, switches, crashes

vars == <<today, plan, auto, budget, run, lock, moves, switches, crashes>>

-----------------------------------------------------------------------------
(* What an event pays: service/funding_strategy.py.                        *)

Least(a, b) == IF a < b THEN a ELSE b
Largest(a, b) == IF a > b THEN a ELSE b

\* Decimal.quantize(Decimal("0.01")): half a cent goes to the even cent.
Quantize(gap, n) ==
  LET q == gap \div n
      r == gap % n
  IN  IF 2 * r > n \/ (2 * r = n /\ q % 2 = 1) THEN q + 1 ELSE q

\* The fund events among which the gap is divided: up to a goal's target
\* date, or before a recurring budget's next recurrence.
EventsLeft(b, d) ==
  LET p == plan[b]
      Ends == {x \in p.recur : x > d}
      left == IF p.type = "goal" THEN {x \in p.fund : d <= x /\ x <= p.due}
              ELSE {x \in p.fund : d <= x /\ \A y \in Ends : x < y}
  IN  IF p.type = "recurring" /\ Ends = {} THEN 1 ELSE Largest(1, Cardinality(left))

\* The system transfers of an event kind from day d on.
Since(row, k, d) == SumFunctionOnSet(row.paid[k], d..LastDay)

\* state_at_start_of_D, of the amount the event's gap is measured by.
AtStart(b, row, k, d) ==
  CASE k = "recur" -> row.balance - Since(row, "recur", d)
    [] k = "fund" /\ plan[b].type = "recurring" ->
         row.fill - Since(row, "fund", d) + Since(row, "recur", d)
    [] k = "fund" /\ plan[b].type = "capped" -> row.balance - Since(row, "fund", d)
    [] OTHER -> row.funded - Since(row, "fund", d)

Gap(b, row, k, d) == Largest(0, plan[b].target - AtStart(b, row, k, d))

\* Mutant: the event pays its amount whatever the gap.
FullAmount(b, gap, k, d) ==
  IF k = "fund" /\ plan[b].amount > 0 THEN plan[b].amount ELSE gap

\* intended_for_event, given the gap.
Share(b, gap, k, d) ==
  CASE k = "recur" -> gap
    [] k = "fund" /\ plan[b].amount > 0 -> Least(plan[b].amount, gap)
    [] OTHER -> Quantize(gap, EventsLeft(b, d))

\* Mutant: what earlier runs moved for the event is forgotten.
NetAgain(b, row, k, d) == Share(b, Gap(b, row, k, d), k, d)

\* The intended amount less already_moved.
Net(b, row, k, d) ==
  Largest(0, Share(b, Gap(b, row, k, d), k, d) - row.paid[k][d])

-----------------------------------------------------------------------------
(* Due events: _collect_events.                                            *)

Schedule(b, k) == IF k = "fund" THEN plan[b].fund ELSE plan[b].recur

Due(b, k, day) ==
  LET row == budget[b]
      after == Least(row.last[k], day - 1)
  IN  IF row.archived \/ (plan[b].type = "goal" /\ row.complete) THEN {}
      ELSE {e \in Events : /\ e.budget = b
                           /\ e.kind = k
                           /\ e.day \in Schedule(b, k)
                           /\ after < e.day
                           /\ e.day <= day}

\* Mutant: on one day, recurrences come first.
RecurFirst(e, f) ==
  \/ e.day < f.day
  \/ e.day = f.day /\ e.kind = "recur" /\ f.kind = "fund"
  \/ e.day = f.day /\ e.kind = f.kind /\ e.budget < f.budget

\* FundingEvent.sort_key
Precedes(e, f) ==
  \/ e.day < f.day
  \/ e.day = f.day /\ e.kind = "fund" /\ f.kind = "recur"
  \/ e.day = f.day /\ e.kind = f.kind /\ e.budget < f.budget

First(S) == CHOOSE e \in S : \A f \in S \ {e} : Precedes(e, f)

-----------------------------------------------------------------------------
(* A run's transaction.  A request keeps the rows it has written, which    *)
(* nobody else can see or write before it commits, in `draft`.             *)

\* budget.create: the pointers are on the day before the first.
Created == [balance |-> 0, funded |-> 0, fill |-> 0,
            paid |-> [k \in Kinds |-> [d \in Days |-> 0]],
            last |-> [k \in Kinds |-> 0],
            occ |-> [k \in Kinds |-> [d \in Days |-> "NONE"]],
            paused |-> FALSE, archived |-> FALSE, complete |-> FALSE]

Idle == [at |-> "idle", fresh |-> {}, open |-> {}, paused |-> {}, full |-> FALSE,
         wrote |-> {}, draft |-> [b \in Budgets |-> Created], drew |-> FALSE]

Row(r, b) == IF b \in run[r].wrote THEN run[r].draft[b] ELSE budget[b]

\* Whether another run's open transaction holds b's rows, or Unallocated's.
Available(r, b) == \A q \in Runs \ {r} : b \notin run[q].wrote
UnallocatedAvailable(r) == \A q \in Runs \ {r} : ~run[q].drew

\* Run r goes on as `next`, with b's rows written.
Write(r, b, row, next) ==
  /\ Available(r, b)
  /\ IF r \in Requests
     THEN /\ run' = [run EXCEPT ![r] = [next EXCEPT !.wrote = @ \union {b}, !.draft[b] = row]]
          /\ UNCHANGED budget
     ELSE /\ run' = [run EXCEPT ![r] = next]
          /\ budget' = [budget EXCEPT ![b] = row]
  /\ UNCHANGED <<today, plan, auto, lock, moves, switches, crashes>>

Current(r) == First(run[r].open)

WithStatus(row, e, status) == [row EXCEPT !.occ[e.kind][e.day] = status]
Dropping(r, e) == [run[r] EXCEPT !.at = "list", !.open = @ \ {e}]

-----------------------------------------------------------------------------
(* fund_account, one committed statement or transaction at a time.         *)

\* The scheduled tasks run one kind, as of the day, if the account is funded
\* automatically; the endpoint and fund_budgets run both, as of the day they
\* are asked for.
Scheduled == IF auto THEN {<<{k}, today>> : k \in Kinds} ELSE {}
Asked == {<<Kinds, d>> : d \in AsOf \union {today}}

\* Take the account's lock without waiting, list the due events.
Begin(r, kinds, day) ==
  LET due == UNION {Due(b, k, day) : b \in Budgets, k \in kinds} IN
  /\ run[r].at = "idle"
  /\ lock = Nobody
  /\ due # {}
  /\ r \in Requests => kinds = Kinds
  /\ lock' = r
  /\ run' = [run EXCEPT ![r] = [Idle EXCEPT !.at = "list", !.fresh = due,
                                  !.paused = {b \in Budgets : budget[b].paused}]]
  /\ UNCHANGED <<today, plan, auto, budget, moves, switches, crashes>>

\* Mutant: an event that has an occurrence has been dealt with.
NeverTried(status) == status = "NONE"

\* The loop passes over an occurrence that was terminal when it was read.
Unsettled(status) == status \notin {"COMPLETE", "SKIPPED"}

\* _instantiate_occurrences: get_or_create the next event's row.
Instantiate(r) ==
  LET e == First(run[r].fresh)
      row == Row(r, e.budget)
      status == row.occ[e.kind][e.day]
      next == [run[r] EXCEPT !.fresh = @ \ {e},
                             !.open = IF Unsettled(status) THEN @ \union {e} ELSE @]
  IN  /\ run[r].at = "list"
      /\ run[r].fresh # {}
      /\ IF status = "NONE" THEN Write(r, e.budget, WithStatus(row, e, "PENDING"), next)
         ELSE /\ run' = [run EXCEPT ![r] = next]
              /\ UNCHANGED <<today, plan, auto, budget, lock, moves, switches, crashes>>

\* _close_prior_incomplete: earlier occurrences of the kind are given up.
ClosePrior(r) ==
  LET e == Current(r)
      row == Row(r, e.budget)
      closed == [d \in Days |-> IF d < e.day /\ row.occ[e.kind][d] = "PENDING" THEN "SKIPPED"
                               ELSE row.occ[e.kind][d]]
      next == [run[r] EXCEPT !.at = IF e.budget \in run[r].paused THEN "skip" ELSE "pay"]
  IN  /\ run[r].at = "list"
      /\ run[r].fresh = {}
      /\ run[r].open # {}
      /\ Write(r, e.budget, [row EXCEPT !.occ[e.kind] = closed], next)

\* The budget was paused when it was last read.
Skip(r) ==
  LET e == Current(r) IN
  /\ run[r].at = "skip"
  /\ Write(r, e.budget, WithStatus(Row(r, e.budget), e, "SKIPPED"), Dropping(r, e))

Reached(b, amount) == plan[b].target > 0 /\ amount >= plan[b].target

\* The budget's rows with its event e paid by n from Unallocated.
FundedBy(b, row, e, n) ==
  LET paid == [row EXCEPT !.paid.fund[e.day] = @ + n] IN
  CASE plan[b].type = "recurring" -> [paid EXCEPT !.fill = @ + n]
    [] plan[b].type = "capped"    -> [paid EXCEPT !.balance = @ + n]
    [] OTHER -> [paid EXCEPT !.balance = @ + n, !.funded = @ + n,
                   !.complete = @ \/ Reached(b, row.funded + n)]

\* What locking the budget's row tells the run.
Refreshed(r, b) ==
  IF Row(r, b).paused THEN run[r].paused \union {b} ELSE run[r].paused \ {b}

Completed(row, e) == [WithStatus(row, e, "COMPLETE") EXCEPT !.last[e.kind] = e.day]

\* _process_fund_event: its transaction.  With nothing left to move, the
\* occurrence is completed inside it.
PayFund(r) ==
  LET e == Current(r)
      b == e.budget
      row == Row(r, b)
      n == Net(b, row, "fund", e.day)
      next == [(IF n = 0 THEN Dropping(r, e) ELSE [run[r] EXCEPT !.at = "mark"])
                 EXCEPT !.paused = Refreshed(r, b), !.drew = r \in Requests]
  IN  /\ run[r].at = "pay"
      /\ e.kind = "fund"
      /\ UnallocatedAvailable(r)
      /\ Write(r, b, IF n = 0 THEN Completed(row, e) ELSE FundedBy(b, row, e, n), next)

\* Mutant: an overdrawn fill-up is not treated as empty.
SweepWhatever(b, row, d) == Least(Net(b, row, "recur", d), row.fill)

\* What the fill-up gives: all it has, up to what is missing.
Sweep(b, row, d) == Largest(0, Least(Net(b, row, "recur", d), row.fill))

\* _process_recur_event: its transaction.
PayRecur(r) ==
  LET e == Current(r)
      b == e.budget
      row == Row(r, b)
      n == Sweep(b, row, e.day)
      full == row.balance + n >= plan[b].target
      swept == [row EXCEPT !.paid.recur[e.day] = @ + n, !.balance = @ + n, !.fill = @ - n,
                           !.complete = n > 0 /\ Reached(b, row.balance + n)]
      next == [run[r] EXCEPT !.at = "latch", !.full = full, !.paused = Refreshed(r, b)]
  IN  /\ run[r].at = "pay"
      /\ e.kind = "recur"
      /\ Write(r, b, swept, next)

\* After it: the recurring budget is complete for the cycle, or not.
Latch(r) ==
  LET e == Current(r)
      next == [run[r] EXCEPT !.at = "mark", !.full = FALSE]
  IN  /\ run[r].at = "latch"
      /\ Write(r, e.budget, [Row(r, e.budget) EXCEPT !.complete = run[r].full], next)

\* _mark_occurrence_complete, its first statement; before it, the budget a
\* fund event has paid is read again.
Mark(r) ==
  LET e == Current(r)
      b == e.budget
      next == [run[r] EXCEPT !.at = "advance",
                 !.paused = IF e.kind = "fund" /\ plan[b].type # "recurring" THEN Refreshed(r, b)
                            ELSE @]
  IN  /\ run[r].at = "mark"
      /\ Write(r, b, WithStatus(Row(r, b), e, "COMPLETE"), next)

\* Its second statement: last_funded_on, last_recurrence_on.
Advance(r) ==
  LET e == Current(r) IN
  /\ run[r].at = "advance"
  /\ Write(r, e.budget, [Row(r, e.budget) EXCEPT !.last[e.kind] = e.day], Dropping(r, e))

\* fund_account returns and releases the account's lock; a request's
\* transaction is still open.
Finish(r) ==
  /\ run[r].at = "list"
  /\ run[r].fresh = {}
  /\ run[r].open = {}
  /\ lock' = Nobody
  /\ run' = [run EXCEPT ![r] = IF r \in Requests THEN [run[r] EXCEPT !.at = "done", !.paused = {}]
                               ELSE Idle]
  /\ UNCHANGED <<today, plan, auto, budget, moves, switches, crashes>>

Commit(r) ==
  /\ run[r].at = "done"
  /\ budget' = [b \in Budgets |-> Row(r, b)]
  /\ run' = [run EXCEPT ![r] = Idle]
  /\ UNCHANGED <<today, plan, auto, lock, moves, switches, crashes>>

\* The process dies, or an exception ends the run: a request's transaction
\* is rolled back, what a task has committed stays.
Crash(r) ==
  /\ run[r].at # "idle"
  /\ crashes < MaxCrashes
  /\ crashes' = crashes + 1
  /\ lock' = IF lock = r THEN Nobody ELSE lock
  /\ run' = [run EXCEPT ![r] = Idle]
  /\ UNCHANGED <<today, plan, auto, budget, moves, switches>>

-----------------------------------------------------------------------------
(* Users and time.  A user's write waits while a request holds the rows.   *)

Free(b) == \A q \in Runs : b \notin run[q].wrote

UserWrites(b, row) ==
  /\ Free(b)
  /\ budget' = [budget EXCEPT ![b] =
       [row EXCEPT !.complete = @ \/ (plan[b].type = "recurring" /\ Reached(b, row.balance))]]
  /\ UNCHANGED <<today, plan, auto, run, lock, crashes>>

\* A transaction is allocated to the budget, one way or the other.
Allocate(b, n) ==
  /\ moves < MaxMoves
  /\ moves' = moves + 1
  /\ UserWrites(b, [budget[b] EXCEPT !.balance = @ + n])
  /\ UNCHANGED switches

\* A user's transfer between the budget and Unallocated.
UserTransfer(b, n) ==
  /\ plan[b].type = "goal"
  /\ moves < MaxMoves
  /\ moves' = moves + 1
  /\ UserWrites(b, [budget[b] EXCEPT !.balance = @ + n, !.funded = @ + n,
                                  !.complete = @ \/ (n > 0 /\ Reached(b, budget[b].funded + n))])
  /\ UNCHANGED switches

\* The fill-up is a budget like any other to transfers and allocations.
MoveFill(b, n) ==
  /\ plan[b].type = "recurring"
  /\ moves < MaxMoves
  /\ moves' = moves + 1
  /\ UserWrites(b, [budget[b] EXCEPT !.fill = @ + n])
  /\ UNCHANGED switches

\* budget.update: resuming moves both pointers to the day before.
Switch(b) ==
  /\ ~budget[b].archived
  /\ switches < MaxSwitches
  /\ switches' = switches + 1
  /\ UserWrites(b, IF budget[b].paused
                   THEN [budget[b] EXCEPT !.paused = FALSE, !.last = [k \in Kinds |-> today - 1]]
                   ELSE [budget[b] EXCEPT !.paused = TRUE])
  /\ UNCHANGED moves

\* budget.archive: what the budget and its fill-up hold goes to Unallocated.
Archive(b) ==
  LET row == budget[b]
      drained == Largest(0, row.balance)
  IN  /\ ~row.archived
      /\ switches < MaxSwitches
      /\ switches' = switches + 1
      /\ UserWrites(b, [row EXCEPT !.archived = TRUE, !.balance = @ - drained,
                         !.funded = IF plan[b].type = "goal" THEN @ - drained ELSE @,
                         !.fill = Least(0, @)])
      /\ UNCHANGED moves

NextDay ==
  /\ today < LastDay
  /\ today' = today + 1
  /\ UNCHANGED <<plan, auto, budget, run, lock, moves, switches, crashes>>

-----------------------------------------------------------------------------
Init ==
  /\ today = 1
  /\ plan \in Plans
  /\ auto \in Autos
  /\ budget = [b \in Budgets |-> Created]
  /\ run = [r \in Runs |-> Idle]
  /\ lock = Nobody
  /\ moves = 0 /\ switches = 0 /\ crashes = 0

Step(r) ==
  \/ Instantiate(r) \/ ClosePrior(r) \/ Skip(r) \/ PayFund(r) \/ PayRecur(r)
  \/ Latch(r) \/ Mark(r) \/ Advance(r) \/ Finish(r) \/ Commit(r)

UserAct(b) ==
  \/ \E n \in {-1, 1} : Allocate(b, n) \/ UserTransfer(b, n) \/ MoveFill(b, n)
  \/ Switch(b)
  \/ Archive(b)

Next ==
  \/ \E r \in Runs : \/ \E a \in Scheduled \union Asked : Begin(r, a[1], a[2])
                     \/ Step(r)
                     \/ Crash(r)
  \/ \E b \in Budgets : UserAct(b)
  \/ NextDay

Spec == Init /\ [][Next]_vars

\* Both passes are scheduled every day and a worker goes on with a run it
\* has begun; now and then a pass finds the account's lock free.  Nothing is
\* assumed of users, of requests, of time or of crashes.
Fairness ==
  \A r \in Runs : /\ WF_vars(Step(r))
                  /\ r \in Tasks => \A k \in Kinds : SF_vars(auto /\ Begin(r, {k}, today))

FairSpec == Spec /\ Fairness

-----------------------------------------------------------------------------
BudgetRow == [balance : Int, funded : Int, fill : Int,
              paid : [Kinds -> [Days -> Nat]],
              last : [Kinds -> 0..LastDay],
              occ : [Kinds -> [Days -> Statuses]],
              paused : BOOLEAN, archived : BOOLEAN, complete : BOOLEAN]

Processing == {"skip", "pay", "latch", "mark", "advance"}

RunState == [at : {"idle", "list", "done"} \union Processing,
             fresh : SUBSET Events, open : SUBSET Events, paused : SUBSET Budgets,
             full : BOOLEAN, wrote : SUBSET Budgets, draft : [Budgets -> BudgetRow],
             drew : BOOLEAN]

\* The engine's state is well formed: what an event has been paid is never
\* negative, a run that processes an event has one, and the runs between
\* _collect_events and the release are the one that holds the lock.
TypeOK ==
  /\ today \in Days
  /\ plan \in Plans
  /\ auto \in Autos
  /\ budget \in [Budgets -> BudgetRow]
  /\ run \in [Runs -> RunState]
  /\ lock \in Runs \union {Nobody}
  /\ \A r \in Runs : /\ run[r].at \in Processing => run[r].open # {}
                     /\ run[r].at \notin {"idle", "done"} <=> lock = r

\* However often an event is run, by tasks and requests that die, overlap
\* and run again, what is transferred for it stays within the budget's
\* funding amount (_process_fund_event, already_moved).
PaidOnce ==
  \A b \in Budgets, d \in Days :
    plan[b].amount > 0 => budget[b].paid["fund"][d] <= plan[b].amount

\* What a funding transfer fills.
Level(row, b, k) ==
  CASE k = "recur" -> row.balance
    [] k = "fund" /\ plan[b].type = "recurring" -> row.fill
    [] k = "fund" /\ plan[b].type = "capped" -> row.balance
    [] OTHER -> row.funded

\* A transfer does not take what it fills above the target, whatever users
\* and earlier attempts did to it -- unless a later event of the kind was paid
\* first, which a run as of an earlier day can do (funding_strategy.py).
NoOvershoot ==
  [][\A b \in Budgets, k \in Kinds, d \in Days :
       \/ budget'[b].paid[k][d] = budget[b].paid[k][d]
       \/ \E x \in Days : x > d /\ budget'[b].paid[k][x] > 0
       \/ Level(budget'[b], b, k) <= plan[b].target]_vars

\* What b's events pay up to each day when every day is run on time, the
\* fund event before the recurrence, and nobody dies.
OnTime(b) ==
  LET day[d \in 0..LastDay] ==
        IF d = 0 THEN [level |-> 0, balance |-> 0, fund |-> 0, recur |-> 0]
        ELSE LET old == day[d - 1]
                 fund == IF d \in plan[b].fund
                         THEN Share(b, Largest(0, plan[b].target - old.level), "fund", d) ELSE 0
                 recur == IF d \in plan[b].recur
                          THEN Least(plan[b].target - old.balance, old.level + fund) ELSE 0
             IN  [level |-> old.level + fund - recur, balance |-> old.balance + recur,
                  fund |-> fund, recur |-> recur]
  IN  day

\* Late runs, repeated runs, runs as of another day, and runs that die and
\* are run again pay for each event what it would have paid on time, if users
\* leave the budgets alone and each run does both kinds (the docstrings of
\* funding.py and of state_at_start_of_D).
PaidAsOnTime ==
  (~auto /\ moves = 0 /\ switches = 0) =>
    \A b \in Budgets, k \in Kinds, d \in Days :
      budget[b].occ[k][d] \in {"COMPLETE", "SKIPPED"} =>
        budget[b].paid[k][d] = OnTime(b)[d][k]

\* Every event whose day has come is settled: completed, or skipped because
\* the budget was paused or a newer event came -- for as long as its budget is
\* one that is funded (fund_account, schedule_funding_runs).
DueIsSettled ==
  \A b \in Budgets, k \in Kinds, d \in Days :
    (auto /\ today >= d /\ d \in Schedule(b, k)) ~>
      \/ budget[b].occ[k][d] \in {"COMPLETE", "SKIPPED"}
      \/ budget[b].paused \/ budget[b].archived
      \/ plan[b].type = "goal" /\ budget[b].complete

\* When the day's recurrence has swept the fill-up, the day's fund event
\* starts to fill it again.
SameDayFundingStarts ==
  [][\A b \in Budgets, d \in Days :
       (/\ plan[b].type = "recurring"
        /\ budget[b].occ["recur"][d] = "COMPLETE"
        /\ budget[b].occ["fund"][d] # "COMPLETE"
        /\ budget'[b].occ["fund"][d] = "COMPLETE"
        /\ budget'[b].fill < plan[b].target)
       => budget'[b].paid["fund"][d] > 0]_vars

=============================================================================
