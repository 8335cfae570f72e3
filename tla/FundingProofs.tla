--------------------------- MODULE FundingProofs ---------------------------
(***************************************************************************)
(* Proofs about Funding, for any budgets, schedules, runs and bounds: the  *)
(* engine's state is well formed, and however often an event is run, by    *)
(* whatever tasks and requests, it is paid at most the budget's funding    *)
(* amount and fills its budget up to the target at most.                   *)
(*                                                                         *)
(* PaidOnce is not inductive: a request commits rows it has worked out     *)
(* before.  FundingInv also bounds what is paid in every run's draft, and  *)
(* FillInv follows in which order each draft's payments were made.         *)
(***************************************************************************)
EXTENDS Funding, Sums

-----------------------------------------------------------------------------
(* A run's next event.                                                     *)

\* A non-empty finite set of integers has a least element.
LEMMA LeastExists ==
  ASSUME NEW S \in SUBSET Int, IsFiniteSet(S), S # {}
  PROVE  \E m \in S : \A y \in S : m <= y
<1> DEFINE HasLeast(T) == \E m \in T : \A y \in T : m <= y
           Good == {T \in SUBSET S : T # {} => HasLeast(T)}
<1>1. ASSUME NEW T \in SUBSET S,
             \A U \in SUBSET T : U # T => U \in Good
      PROVE  T \in Good
  <2> SUFFICES ASSUME T # {} PROVE HasLeast(T)
      OBVIOUS
  <2>1. PICK x \in T : TRUE
    OBVIOUS
  <2>2. T \ {x} \in Good
    BY <1>1, <2>1
  <2>3. CASE T \ {x} = {}
    BY <2>1, <2>3
  <2>4. CASE T \ {x} # {}
    <3>1. PICK m \in T \ {x} : \A y \in T \ {x} : m <= y
      BY <2>2, <2>4
    <3>2. CASE x <= m
      BY <2>1, <3>1, <3>2
    <3>3. CASE m <= x
      BY <2>1, <3>1, <3>3
    <3> QED BY <2>1, <3>1, <3>2, <3>3
  <2> QED BY <2>3, <2>4
<1> HIDE DEF Good
<1>2. \A T \in SUBSET S : T \in Good
  BY <1>1, SubsetInduction
<1> QED BY <1>2 DEF Good

\* The days and budgets of events are finite sets of integers.
LEMMA EventParts ==
  /\ IsFiniteSet(Days) /\ Days \in SUBSET Int
  /\ IsFiniteSet(Budgets) /\ Budgets \in SUBSET Int
  /\ \A e \in Events : e.day \in Days /\ e.kind \in Kinds /\ e.budget \in Budgets
<1>1. IsFiniteSet(Days)
  BY DaysAssumption, FS_Interval DEF Days
<1>2. Days \in SUBSET Int
  BY DaysAssumption DEF Days
<1>3. IsFiniteSet(Budgets) /\ Budgets \in SUBSET Int
  BY BudgetsAssumption
<1> QED BY <1>1, <1>2, <1>3 DEF Events

\* FundingEvent.sort_key orders the events of an account: whatever is due,
\* one of it comes first.
LEMMA FirstIn ==
  ASSUME NEW S \in SUBSET Events, S # {}
  PROVE  First(S) \in S /\ \A f \in S \ {First(S)} : Precedes(First(S), f)
<1> DEFINE Dates == {e.day : e \in S}
<1>1. PICK d \in Dates : \A y \in Dates : d <= y
  <2>1. Dates \in SUBSET Days /\ Dates # {}
    BY EventParts
  <2> HIDE DEF Dates
  <2>2. IsFiniteSet(Dates) /\ Dates \in SUBSET Int
    BY <2>1, EventParts, FS_Subset
  <2> QED BY <2>1, <2>2, LeastExists
<1> DEFINE Today == {e \in S : e.day = d}
<1>2. PICK k \in {e.kind : e \in Today} : k = "fund" \/ \A e \in Today : e.kind = "recur"
  BY <1>1, EventParts DEF Kinds
<1> DEFINE Those == {e \in Today : e.kind = k}
           Ids == {e.budget : e \in Those}
<1>3. PICK b \in Ids : \A y \in Ids : b <= y
  <2>1. Ids \in SUBSET Budgets /\ Ids # {}
    BY <1>2, EventParts
  <2> HIDE DEF Ids
  <2>2. IsFiniteSet(Ids) /\ Ids \in SUBSET Int
    BY <2>1, EventParts, FS_Subset
  <2> QED BY <2>1, <2>2, LeastExists
<1>4. PICK e \in Those : e.budget = b
  BY <1>3
<1>5. ASSUME NEW f \in S \ {e} PROVE Precedes(e, f)
  <2>1. f.day # e.day \/ f.kind # e.kind \/ f.budget # e.budget
    BY <1>4 DEF Events
  <2>2. d \in Int /\ f.day \in Int /\ b \in Int /\ f.budget \in Int
    <3>1. e \in Events /\ f \in Events /\ e.day = d /\ e.budget = b
      BY <1>4
    <3> QED BY <3>1, EventParts
  <2>3. CASE f.day # d
    <3>1. d <= f.day
      BY <1>1
    <3> QED BY <1>4, <2>2, <2>3, <3>1 DEF Precedes
  <2>4. CASE f.day = d /\ f.kind # k
    <3>1. f.kind \in Kinds
      BY EventParts
    <3> QED BY <1>2, <1>4, <2>4, <3>1 DEF Precedes, Kinds
  <2>5. CASE f.day = d /\ f.kind = k
    <3>1. b <= f.budget
      BY <1>3, <2>5
    <3> QED BY <1>4, <2>1, <2>2, <2>5, <3>1 DEF Precedes
  <2> QED BY <2>3, <2>4, <2>5
<1>6. e \in S
  BY <1>4
<1> QED BY <1>5, <1>6 DEF First

-----------------------------------------------------------------------------
(* What an event pays.                                                     *)

\* A plan's settings have their types.
LEMMA PlanType ==
  ASSUME plan \in Plans, NEW b \in Budgets
  PROVE  /\ plan[b].type \in Types
         /\ plan[b].target \in Nat /\ plan[b].amount \in Nat /\ plan[b].due \in Nat
         /\ plan[b].fund \in SUBSET Nat /\ plan[b].recur \in SUBSET Nat
         /\ plan[b].type = "capped" => plan[b].amount > 0
<1>1. plan \in [Budgets -> Plan] /\ (plan[b].type = "capped" => plan[b].amount > 0)
  BY PlansAssumption
<1>2. plan[b] \in Plan
  BY <1>1
<1> QED BY <1>1, <1>2 DEF Plan

\* At least one event is left to divide a gap among, and a bounded number.
LEMMA EventsLeftPositive ==
  ASSUME plan \in Plans, NEW b \in Budgets, NEW d \in Days, plan[b].type # "capped"
  PROVE  EventsLeft(b, d) \in Nat \ {0}
<1> DEFINE p == plan[b]
           Ends == {x \in p.recur : x > d}
           left == IF p.type = "goal" THEN {x \in p.fund : d <= x /\ x <= p.due}
                   ELSE {x \in p.fund : d <= x /\ \A y \in Ends : x < y}
<1>1. d \in Int
  BY EventParts
<1>2. CASE p.type = "goal"
  <2>1. left \in SUBSET (d..p.due)
    BY <1>1, <1>2, PlanType
  <2> HIDE DEF left
  <2>2. IsFiniteSet(left)
    <3>1. IsFiniteSet(d..p.due)
      BY <1>1, PlanType, FS_Interval
    <3> HIDE DEF p
    <3> QED BY <2>1, <3>1, FS_Subset
  <2>3. Cardinality(left) \in Nat
    BY <2>2, FS_CardinalityType
  <2>4. EventsLeft(b, d) = Largest(1, Cardinality(left))
    BY <1>2 DEF EventsLeft, left
  <2> QED BY <2>3, <2>4 DEF Largest
<1>3. CASE p.type = "recurring" /\ Ends = {}
  BY <1>3 DEF EventsLeft
<1>4. CASE p.type = "recurring" /\ Ends # {}
  <2>1. PICK y \in Ends : TRUE
    BY <1>4
  <2>2. y \in Int
    BY <2>1, PlanType
  <2>3. left \in SUBSET (d..y)
    BY <1>1, <1>4, <2>1, <2>2, PlanType
  <2>4. EventsLeft(b, d) = Largest(1, Cardinality(left))
    BY <1>4 DEF EventsLeft
  <2> HIDE DEF left, Ends
  <2>5. IsFiniteSet(left)
    BY <1>1, <2>2, <2>3, FS_Interval, FS_Subset
  <2>6. Cardinality(left) \in Nat
    BY <2>5, FS_CardinalityType
  <2> QED BY <2>4, <2>6 DEF Largest
<1> QED BY <1>2, <1>3, <1>4, PlanType DEF Types

\* The strategies intend an integral amount, and a fund event's stays within
\* funding_amount when there is one.
LEMMA ShareType ==
  ASSUME plan \in Plans, NEW b \in Budgets, NEW gap \in Nat, NEW k \in Kinds, NEW d \in Days
  PROVE  /\ Share(b, gap, k, d) \in Int
         /\ k = "fund" /\ plan[b].amount > 0 => Share(b, gap, k, d) <= plan[b].amount
<1>1. CASE k = "recur" \/ plan[b].amount > 0
  BY <1>1, PlanType DEF Share, Least, Kinds
<1>2. CASE k # "recur" /\ ~(plan[b].amount > 0)
  <2> DEFINE n == EventsLeft(b, d)
  <2>1. n \in Nat \ {0}
    BY <1>2, PlanType, EventsLeftPositive
  <2> HIDE DEF n
  <2>2. gap \div n \in Int /\ gap % n \in Int
    BY <2>1
  <2>3. Quantize(gap, n) \in Int
    BY <2>2 DEF Quantize
  <2> QED BY <1>2, <2>3 DEF Share, n
<1> QED BY <1>1, <1>2

\* The amount a gap is measured by is an integer.
LEMMA AtStartType ==
  ASSUME NEW b \in Budgets, NEW row \in BudgetRow, NEW k \in Kinds, NEW d \in Days
  PROVE  AtStart(b, row, k, d) \in Int
<1>1. ASSUME NEW j \in Kinds PROVE Since(row, j, d) \in Int
  <2> DEFINE S == d..LastDay
  <2>1. S \in SUBSET Days /\ IsFiniteSet(S)
    BY DaysAssumption, FS_Interval, EventParts, FS_Subset DEF Days
  <2>2. \A x \in Days : row.paid[j][x] \in Int
    BY <1>1 DEF BudgetRow
  <2> HIDE DEF S
  <2>3. SumFunctionOnSet(row.paid[j], S) \in Int
    BY <2>1, <2>2, SumInt
  <2> QED BY <2>3 DEF Since, S
<1>2. Since(row, "fund", d) \in Int /\ Since(row, "recur", d) \in Int
  BY <1>1 DEF Kinds
<1>3. row.balance \in Int /\ row.funded \in Int /\ row.fill \in Int
  BY DEF BudgetRow
<1> QED BY <1>2, <1>3 DEF AtStart

\* What an event still pays is never negative, and with what earlier attempts
\* moved it stays within funding_amount.
LEMMA NetBounds ==
  ASSUME plan \in Plans, NEW b \in Budgets, NEW row \in BudgetRow, NEW k \in Kinds, NEW d \in Days
  PROVE  /\ Net(b, row, k, d) \in Nat
         /\ k = "fund" /\ plan[b].amount > 0 /\ row.paid[k][d] <= plan[b].amount
              => row.paid[k][d] + Net(b, row, k, d) <= plan[b].amount
<1> DEFINE gap == Gap(b, row, k, d)
           share == Share(b, gap, k, d)
<1>1. gap \in Nat
  BY AtStartType, PlanType DEF Gap, Largest
<1> HIDE DEF gap
<1>2. share \in Int /\ (k = "fund" /\ plan[b].amount > 0 => share <= plan[b].amount)
  BY <1>1, ShareType
<1>3. row.paid[k][d] \in Nat /\ plan[b].amount \in Nat
  BY PlanType DEF BudgetRow
<1>4. Net(b, row, k, d) = Largest(0, share - row.paid[k][d])
  BY DEF Net, gap
<1> QED
  <2> HIDE DEF share
  <2> QED BY <1>2, <1>3, <1>4 DEF Largest

\* A sweep never gives a negative amount.
LEMMA SweepBounds ==
  ASSUME plan \in Plans, NEW b \in Budgets, NEW row \in BudgetRow, NEW d \in Days
  PROVE  Sweep(b, row, d) \in Nat
<1>1. Net(b, row, "recur", d) \in Nat /\ row.fill \in Int
  BY NetBounds DEF Kinds, BudgetRow
<1> QED BY <1>1 DEF Sweep, Largest, Least

-----------------------------------------------------------------------------
(* The inductive invariant.                                                *)

\* What has been paid for fund events in b's row stays within its amount.
Within(b, row) ==
  \A d \in Days : plan[b].amount > 0 => row.paid["fund"][d] <= plan[b].amount

\* Drafts are committed as they are: they must be within bounds as well.
DraftsWithin == \A r \in Runs, b \in Budgets : Within(b, run[r].draft[b])

FundingInv == TypeOK /\ PaidOnce /\ DraftsWithin

\* A row that may be written to b.
Sound(b, row) == row \in BudgetRow /\ Within(b, row)

\* What run r may be doing while it holds the account's lock.
Busy(r, next) ==
  /\ next \in RunState
  /\ next.at \notin {"idle", "done"}
  /\ next.at \in Processing => next.open # {}
  /\ next.draft = run[r].draft

\* The rows a run sees are sound.
LEMMA RowSound ==
  ASSUME FundingInv, NEW r \in Runs, NEW b \in Budgets
  PROVE  Sound(b, Row(r, b))
<1>1. budget[b] \in BudgetRow /\ run[r].draft[b] \in BudgetRow
  BY DEF FundingInv, TypeOK, RunState
<1>2. Within(b, budget[b]) /\ Within(b, run[r].draft[b])
  BY DEF FundingInv, PaidOnce, DraftsWithin, Within
<1> QED BY <1>1, <1>2 DEF Sound, Row

\* A run that goes on keeps the invariant.
LEMMA BusyStep ==
  ASSUME FundingInv, NEW r \in Runs, NEW next, Busy(r, next),
         run[r].at \notin {"idle", "done"},
         run' = [run EXCEPT ![r] = next],
         UNCHANGED <<today, plan, auto, budget, lock, moves, switches, crashes>>
  PROVE  FundingInv'
<1>1. TypeOK'
  BY DEF FundingInv, TypeOK, Busy
<1>2. PaidOnce'
  BY DEF FundingInv, PaidOnce
<1>3. DraftsWithin'
  BY DEF FundingInv, TypeOK, DraftsWithin, Within, Busy
<1> QED BY <1>1, <1>2, <1>3 DEF FundingInv

\* A run that goes on, and writes a sound row, keeps the invariant.
LEMMA WriteStep ==
  ASSUME FundingInv, NEW r \in Runs, NEW b \in Budgets, NEW row, NEW next,
         Sound(b, row), Busy(r, next), run[r].at \notin {"idle", "done"},
         Write(r, b, row, next)
  PROVE  FundingInv'
<1> DEFINE drafted == [next EXCEPT !.wrote = @ \union {b}, !.draft[b] = row]
<1>1. UNCHANGED <<today, plan, auto, lock, moves, switches, crashes>>
  BY DEF Write
<1>2. CASE r \in Requests
  <2>1. run' = [run EXCEPT ![r] = drafted] /\ UNCHANGED budget
    BY <1>2 DEF Write
  <2>2. /\ drafted \in RunState
        /\ drafted.at = next.at /\ drafted.open = next.open
        /\ drafted.draft = [run[r].draft EXCEPT ![b] = row]
    BY DEF Busy, Sound, RunState
  <2> HIDE DEF drafted
  <2>3. TypeOK'
    BY <1>1, <2>1, <2>2 DEF FundingInv, TypeOK, Busy
  <2>4. PaidOnce'
    BY <1>1, <2>1 DEF FundingInv, PaidOnce
  <2>5. DraftsWithin'
    <3>1. run[r].draft \in [Budgets -> BudgetRow]
      BY DEF FundingInv, TypeOK, RunState
    <3>2. \A q \in Runs, c \in Budgets :
            run'[q].draft[c] = IF q = r /\ c = b THEN row ELSE run[q].draft[c]
      BY <2>1, <2>2, <3>1 DEF FundingInv, TypeOK
    <3> QED BY <1>1, <3>2 DEF FundingInv, DraftsWithin, Within, Sound
  <2> QED BY <2>3, <2>4, <2>5 DEF FundingInv
<1>3. CASE r \notin Requests
  <2>1. run' = [run EXCEPT ![r] = next] /\ budget' = [budget EXCEPT ![b] = row]
    BY <1>3 DEF Write
  <2>2. TypeOK'
    BY <1>1, <2>1 DEF FundingInv, TypeOK, Busy, Sound
  <2>3. PaidOnce'
    <3>1. \A c \in Budgets : budget'[c] = IF c = b THEN row ELSE budget[c]
      BY <2>1 DEF FundingInv, TypeOK
    <3> QED BY <1>1, <3>1 DEF FundingInv, PaidOnce, Sound, Within
  <2>4. DraftsWithin'
    BY <1>1, <2>1 DEF FundingInv, TypeOK, DraftsWithin, Within, Busy
  <2> QED BY <2>2, <2>3, <2>4 DEF FundingInv
<1> QED BY <1>2, <1>3

-----------------------------------------------------------------------------
(* The steps of a run.                                                     *)

\* A run that processes events has one; it is one of those it listed.
LEMMA CurrentType ==
  ASSUME FundingInv, NEW r \in Runs, run[r].open # {}
  PROVE  /\ Current(r) \in Events /\ Current(r) \in run[r].open
         /\ Current(r).day \in Days /\ Current(r).kind \in Kinds /\ Current(r).budget \in Budgets
<1>1. run[r].open \in SUBSET Events
  BY DEF FundingInv, TypeOK, RunState
<1>2. Current(r) \in run[r].open
  BY <1>1, FirstIn DEF Current
<1> QED BY <1>1, <1>2, EventParts

\* A row that differs in anything but what was paid is sound.
LEMMA SamePaid ==
  ASSUME NEW b \in Budgets, NEW old, Sound(b, old), NEW new \in BudgetRow, new.paid = old.paid
  PROVE  Sound(b, new)
BY DEF Sound, Within

\* A new occurrence, status or pointer leaves what was paid alone.
LEMMA StatusSound ==
  ASSUME NEW b \in Budgets, NEW row, Sound(b, row), NEW e \in Events, NEW status \in Statuses
  PROVE  Sound(b, WithStatus(row, e, status)) /\ WithStatus(row, e, status).last = row.last
<1>1. e.day \in Days /\ e.kind \in Kinds
  BY EventParts
<1> QED BY <1>1 DEF Sound, Within, WithStatus, BudgetRow

LEMMA CompletedSound ==
  ASSUME NEW b \in Budgets, NEW row, Sound(b, row), NEW e \in Events
  PROVE  Sound(b, Completed(row, e))
<1> DEFINE marked == WithStatus(row, e, "COMPLETE")
<1>1. Sound(b, marked)
  BY StatusSound DEF Statuses
<1>2. e.day \in 0..LastDay /\ e.kind \in Kinds
  BY EventParts, DaysAssumption DEF Days
<1>3. Completed(row, e) = [marked EXCEPT !.last[e.kind] = e.day]
  BY DEF Completed
<1> HIDE DEF marked
<1>4. marked \in BudgetRow
  BY <1>1 DEF Sound
<1> DEFINE last == [marked.last EXCEPT ![e.kind] = e.day]
<1>5. last \in [Kinds -> 0..LastDay]
  BY <1>2, <1>4 DEF BudgetRow
<1>6. Completed(row, e) = [marked EXCEPT !.last = last]
  BY <1>3
<1> HIDE DEF last
<1>7. Completed(row, e) \in BudgetRow /\ Completed(row, e).paid = marked.paid
  BY <1>4, <1>5, <1>6 DEF BudgetRow
<1> QED BY <1>1, <1>7, SamePaid

\* Each kind of state a run goes on to.
LEMMA RunType ==
  ASSUME FundingInv, NEW r \in Runs
  PROVE  run[r] \in RunState /\ (run[r].at \in Processing => run[r].open # {})
BY DEF FundingInv, TypeOK

\* _process_fund_event pays a sound amount.
LEMMA FundedBySound ==
  ASSUME plan \in Plans, NEW b \in Budgets, NEW row, Sound(b, row), NEW e \in Events,
         NEW n \in Nat,
         plan[b].amount > 0 => row.paid["fund"][e.day] + n <= plan[b].amount
  PROVE  Sound(b, FundedBy(b, row, e, n))
<1> DEFINE paid == [row EXCEPT !.paid.fund[e.day] = @ + n]
<1>1. e.day \in Days
  BY EventParts
<1>2. row \in BudgetRow /\ row.paid["fund"] \in [Days -> Nat] /\ row.paid \in [Kinds -> [Days -> Nat]]
  BY DEF Sound, BudgetRow, Kinds
<1>3. paid.paid = [row.paid EXCEPT !["fund"][e.day] = row.paid["fund"][e.day] + n]
  BY <1>2 DEF BudgetRow
<1>4. paid.paid \in [Kinds -> [Days -> Nat]]
  BY <1>1, <1>2, <1>3 DEF Kinds
<1>5. paid \in BudgetRow
  BY <1>2, <1>4 DEF BudgetRow
<1>6. \A d \in Days : paid.paid["fund"][d] =
        IF d = e.day THEN row.paid["fund"][d] + n ELSE row.paid["fund"][d]
  BY <1>1, <1>2, <1>3 DEF Kinds
<1>7. Within(b, paid)
  BY <1>6 DEF Sound, Within
<1>12. Sound(b, paid)
  BY <1>5, <1>7 DEF Sound
<1> HIDE DEF paid
<1> DEFINE new == FundedBy(b, row, e, n)
<1> SUFFICES new \in BudgetRow /\ new.paid = paid.paid
    BY <1>12, SamePaid
<1>8. /\ paid.balance \in Int /\ paid.funded \in Int /\ paid.fill \in Int
      /\ paid.complete \in BOOLEAN
  BY <1>5 DEF BudgetRow
<1>9. CASE plan[b].type = "recurring"
  <2>1. new = [paid EXCEPT !.fill = @ + n]
    BY <1>9 DEF FundedBy, paid
  <2> HIDE DEF new
  <2> QED BY <1>5, <1>8, <2>1 DEF BudgetRow
<1>10. CASE plan[b].type = "capped"
  <2>1. new = [paid EXCEPT !.balance = @ + n]
    BY <1>10 DEF FundedBy, paid
  <2> HIDE DEF new
  <2> QED BY <1>5, <1>8, <2>1 DEF BudgetRow
<1>11. CASE plan[b].type = "goal"
  <2> DEFINE complete == paid.complete \/ Reached(b, row.funded + n)
  <2>1. complete \in BOOLEAN
    BY <1>8 DEF Reached
  <2> DEFINE balance == paid.balance + n
             full == paid.funded + n
  <2>2. balance \in Int /\ full \in Int
    BY <1>8
  <2>3. new = [paid EXCEPT !.balance = balance, !.funded = full, !.complete = complete]
    BY <1>11 DEF FundedBy, paid
  <2> HIDE DEF new, complete, balance, full
  <2>4. [paid EXCEPT !.balance = balance, !.funded = full, !.complete = complete] \in BudgetRow
    BY <1>5, <2>1, <2>2 DEF BudgetRow
  <2>5. new.paid = paid.paid
    BY <1>5, <2>3 DEF BudgetRow
  <2> QED BY <2>3, <2>4, <2>5
<1> QED BY <1>9, <1>10, <1>11, PlanType DEF Types

\* _instantiate_occurrences
LEMMA InstantiateStep ==
  ASSUME FundingInv, NEW r \in Runs, Instantiate(r)
  PROVE  FundingInv'
<1> DEFINE e == First(run[r].fresh)
           b == e.budget
           row == Row(r, b)
           status == row.occ[e.kind][e.day]
           next == [run[r] EXCEPT !.fresh = @ \ {e},
                                  !.open = IF Unsettled(status) THEN @ \union {e} ELSE @]
<1>1. run[r] \in RunState /\ run[r].at = "list" /\ run[r].fresh # {}
  BY RunType DEF Instantiate
<1>2. e \in Events /\ b \in Budgets
  <2>1. run[r].fresh \in SUBSET Events
    BY <1>1 DEF RunState
  <2> QED BY <1>1, <2>1, FirstIn, EventParts
<1>3. \/ Write(r, b, WithStatus(row, e, "PENDING"), next)
      \/ /\ run' = [run EXCEPT ![r] = next]
         /\ UNCHANGED <<today, plan, auto, budget, lock, moves, switches, crashes>>
  BY DEF Instantiate
<1>4. Sound(b, WithStatus(row, e, "PENDING"))
  BY <1>2, RowSound, StatusSound DEF Statuses
<1> HIDE DEF e, row, status
<1>5. Busy(r, next)
  BY <1>1, <1>2 DEF Busy, RunState, Processing
<1> HIDE DEF next
<1> QED BY <1>1, <1>2, <1>3, <1>4, <1>5, WriteStep, BusyStep

\* _close_prior_incomplete
LEMMA ClosePriorStep ==
  ASSUME FundingInv, NEW r \in Runs, ClosePrior(r)
  PROVE  FundingInv'
<1> DEFINE e == Current(r)
           b == e.budget
           row == Row(r, b)
           closed == [d \in Days |->
                        IF d < e.day /\ row.occ[e.kind][d] = "PENDING" THEN "SKIPPED"
                        ELSE row.occ[e.kind][d]]
           new == [row EXCEPT !.occ[e.kind] = closed]
           at == IF b \in run[r].paused THEN "skip" ELSE "pay"
           next == [run[r] EXCEPT !.at = at]
<1>1. run[r] \in RunState /\ run[r].at = "list" /\ run[r].open # {}
  BY RunType DEF ClosePrior
<1>2. e.kind \in Kinds /\ b \in Budgets
  BY <1>1, CurrentType
<1>3. Write(r, b, new, next)
  BY DEF ClosePrior
<1>4. Sound(b, row) /\ row \in BudgetRow
  BY <1>2, RowSound DEF Sound
<1> HIDE DEF row
<1>5. closed \in [Days -> Statuses]
  <2>1. row.occ[e.kind] \in [Days -> Statuses]
    BY <1>2, <1>4 DEF BudgetRow
  <2> QED BY <2>1 DEF Statuses
<1> HIDE DEF closed, e
<1>6. new \in BudgetRow /\ new.paid = row.paid
  BY <1>2, <1>4, <1>5 DEF BudgetRow
<1> HIDE DEF new
<1>7. Sound(b, new)
  BY <1>2, <1>4, <1>6, SamePaid
<1>8. at \in {"skip", "pay"}
  OBVIOUS
<1> HIDE DEF at
<1>9. Busy(r, next)
  BY <1>1, <1>8 DEF Busy, RunState, Processing
<1> HIDE DEF next
<1> QED BY <1>1, <1>2, <1>3, <1>7, <1>9, WriteStep

\* A run that has done with an event goes back to its list.
LEMMA DroppingBusy ==
  ASSUME FundingInv, NEW r \in Runs, NEW e
  PROVE  Busy(r, Dropping(r, e)) /\ Dropping(r, e).paused = run[r].paused
BY RunType DEF Busy, Dropping, RunState, Processing

\* The paused budget's branch of the loop.
LEMMA SkipStep ==
  ASSUME FundingInv, NEW r \in Runs, Skip(r)
  PROVE  FundingInv'
<1> DEFINE e == Current(r)
           b == e.budget
<1>1. run[r].at = "skip" /\ run[r].open # {}
  BY RunType DEF Skip, Processing
<1>2. e \in Events /\ b \in Budgets
  BY <1>1, CurrentType
<1>3. Write(r, b, WithStatus(Row(r, b), e, "SKIPPED"), Dropping(r, e))
  BY DEF Skip
<1>4. Sound(b, WithStatus(Row(r, b), e, "SKIPPED"))
  BY <1>2, RowSound, StatusSound DEF Statuses
<1>5. Busy(r, Dropping(r, e))
  BY DroppingBusy
<1> QED BY <1>1, <1>2, <1>3, <1>4, <1>5, WriteStep

\* _mark_occurrence_complete, its first statement.
LEMMA MarkStep ==
  ASSUME FundingInv, NEW r \in Runs, Mark(r)
  PROVE  FundingInv'
<1> DEFINE e == Current(r)
           b == e.budget
           paused == IF e.kind = "fund" /\ plan[b].type # "recurring" THEN Refreshed(r, b)
                     ELSE run[r].paused
           next == [run[r] EXCEPT !.at = "advance", !.paused = paused]
<1>1. run[r] \in RunState /\ run[r].at = "mark" /\ run[r].open # {}
  BY RunType DEF Mark, Processing
<1>2. e \in Events /\ b \in Budgets
  BY <1>1, CurrentType
<1>3. Write(r, b, WithStatus(Row(r, b), e, "COMPLETE"), next)
  BY DEF Mark
<1>4. Sound(b, WithStatus(Row(r, b), e, "COMPLETE"))
  BY <1>2, RowSound, StatusSound DEF Statuses
<1>5. paused \in SUBSET Budgets
  BY <1>1, <1>2 DEF Refreshed, RunState
<1> HIDE DEF paused, e
<1>6. Busy(r, next)
  BY <1>1, <1>5 DEF Busy, RunState, Processing
<1> HIDE DEF next
<1> QED BY <1>1, <1>2, <1>3, <1>4, <1>6, WriteStep

\* Its second statement.
LEMMA AdvanceStep ==
  ASSUME FundingInv, NEW r \in Runs, Advance(r)
  PROVE  FundingInv'
<1> DEFINE e == Current(r)
           b == e.budget
           row == Row(r, b)
           last == [row.last EXCEPT ![e.kind] = e.day]
           new == [row EXCEPT !.last[e.kind] = e.day]
<1>1. run[r].at = "advance" /\ run[r].open # {}
  BY RunType DEF Advance, Processing
<1>2. e \in Events /\ b \in Budgets /\ e.kind \in Kinds /\ e.day \in 0..LastDay
  <2>1. e \in Events /\ b \in Budgets /\ e.kind \in Kinds /\ e.day \in Days
    BY <1>1, CurrentType
  <2> QED BY <2>1, DaysAssumption DEF Days
<1>3. Write(r, b, new, Dropping(r, e))
  BY DEF Advance
<1>4. Sound(b, row) /\ row \in BudgetRow
  BY <1>2, RowSound DEF Sound
<1> HIDE DEF row, e
<1>5. last \in [Kinds -> 0..LastDay]
  BY <1>2, <1>4 DEF BudgetRow
<1>6. new = [row EXCEPT !.last = last]
  OBVIOUS
<1> HIDE DEF new, last
<1>7. new \in BudgetRow /\ new.paid = row.paid
  BY <1>4, <1>5, <1>6 DEF BudgetRow
<1>8. Sound(b, new) /\ Busy(r, Dropping(r, e))
  BY <1>2, <1>4, <1>7, SamePaid, DroppingBusy
<1> QED BY <1>1, <1>2, <1>3, <1>8, WriteStep

\* _process_fund_event
LEMMA PayFundStep ==
  ASSUME FundingInv, NEW r \in Runs, PayFund(r)
  PROVE  FundingInv'
<1> DEFINE e == Current(r)
           b == e.budget
           row == Row(r, b)
           n == Net(b, row, "fund", e.day)
           new == IF n = 0 THEN Completed(row, e) ELSE FundedBy(b, row, e, n)
           base == IF n = 0 THEN Dropping(r, e) ELSE [run[r] EXCEPT !.at = "mark"]
           drew == r \in Requests
           next == [base EXCEPT !.paused = Refreshed(r, b), !.drew = drew]
<1>1. run[r] \in RunState /\ run[r].at = "pay" /\ run[r].open # {}
  BY RunType DEF PayFund, Processing
<1>2. e \in Events /\ b \in Budgets /\ e.day \in Days
  BY <1>1, CurrentType
<1>3. Write(r, b, new, next)
  BY DEF PayFund
<1>4. Sound(b, row) /\ row \in BudgetRow /\ plan \in Plans
  BY <1>2, RowSound DEF Sound, FundingInv, TypeOK
<1>5. /\ n \in Nat
      /\ plan[b].amount > 0 => row.paid["fund"][e.day] + n <= plan[b].amount
  <2>1. plan[b].amount > 0 => row.paid["fund"][e.day] <= plan[b].amount
    BY <1>2, <1>4 DEF Sound, Within
  <2> HIDE DEF row, e
  <2> QED BY <1>2, <1>4, <2>1, NetBounds DEF Kinds
<1>6. Refreshed(r, b) \in SUBSET Budgets
  BY <1>1, <1>2 DEF Refreshed, RunState
<1> HIDE DEF row, e, n
<1>7. Sound(b, new)
  BY <1>2, <1>4, <1>5, CompletedSound, FundedBySound
<1>8. Busy(r, base)
  BY <1>1, DroppingBusy DEF Busy, RunState, Processing
<1>9. drew \in BOOLEAN
  OBVIOUS
<1> HIDE DEF base, new, drew
<1>10. Busy(r, next)
  BY <1>6, <1>8, <1>9 DEF Busy, RunState
<1> HIDE DEF next
<1> QED BY <1>1, <1>2, <1>3, <1>7, <1>10, WriteStep

\* _process_recur_event
LEMMA PayRecurStep ==
  ASSUME FundingInv, NEW r \in Runs, PayRecur(r)
  PROVE  FundingInv'
<1> DEFINE e == Current(r)
           b == e.budget
           row == Row(r, b)
           n == Sweep(b, row, e.day)
           full == row.balance + n >= plan[b].target
           complete == n > 0 /\ Reached(b, row.balance + n)
           new == [row EXCEPT !.paid.recur[e.day] = @ + n, !.balance = @ + n,
                              !.fill = @ - n, !.complete = complete]
           next == [run[r] EXCEPT !.at = "latch", !.full = full, !.paused = Refreshed(r, b)]
<1>1. run[r] \in RunState /\ run[r].at = "pay" /\ run[r].open # {}
  BY RunType DEF PayRecur, Processing
<1>2. b \in Budgets /\ e.day \in Days
  BY <1>1, CurrentType
<1>3. Write(r, b, new, next)
  BY DEF PayRecur
<1>4. Sound(b, row) /\ row \in BudgetRow /\ plan \in Plans
  BY <1>2, RowSound DEF Sound, FundingInv, TypeOK
<1>5. Refreshed(r, b) \in SUBSET Budgets
  BY <1>1, <1>2 DEF Refreshed, RunState
<1> HIDE DEF row, e
<1>6. n \in Nat
  BY <1>2, <1>4, SweepBounds
<1> HIDE DEF n
<1>7. full \in BOOLEAN /\ complete \in BOOLEAN
  BY DEF Reached
<1> HIDE DEF full, complete
<1>8. Sound(b, new)
  <2> DEFINE paid == [row.paid EXCEPT !["recur"][e.day] = @ + n]
             balance == row.balance + n
             fill == row.fill - n
  <2>1. row.paid \in [Kinds -> [Days -> Nat]] /\ row.balance \in Int /\ row.fill \in Int
    BY <1>4 DEF BudgetRow
  <2>2. paid \in [Kinds -> [Days -> Nat]] /\ paid["fund"] = row.paid["fund"]
    BY <1>2, <1>6, <2>1 DEF Kinds
  <2>3. balance \in Int /\ fill \in Int
    BY <1>6, <2>1
  <2>4. new = [row EXCEPT !.paid = paid, !.balance = balance, !.fill = fill,
                          !.complete = complete]
    BY <1>4 DEF BudgetRow
  <2> HIDE DEF paid, balance, fill
  <2>5. /\ [row EXCEPT !.paid = paid, !.balance = balance, !.fill = fill,
                       !.complete = complete] \in BudgetRow
        /\ [row EXCEPT !.paid = paid, !.balance = balance, !.fill = fill,
                       !.complete = complete].paid = paid
    BY <1>4, <1>7, <2>2, <2>3 DEF BudgetRow
  <2> HIDE DEF new
  <2> QED BY <1>4, <2>2, <2>4, <2>5 DEF Sound, Within
<1> HIDE DEF new
<1>9. Busy(r, next)
  BY <1>1, <1>5, <1>7 DEF Busy, RunState, Processing
<1> HIDE DEF next
<1> QED BY <1>1, <1>2, <1>3, <1>8, <1>9, WriteStep

\* The statement after it.
LEMMA LatchStep ==
  ASSUME FundingInv, NEW r \in Runs, Latch(r)
  PROVE  FundingInv'
<1> DEFINE b == Current(r).budget
           row == Row(r, b)
           new == [row EXCEPT !.complete = run[r].full]
           next == [run[r] EXCEPT !.at = "mark", !.full = FALSE]
<1>1. run[r] \in RunState /\ run[r].at = "latch" /\ run[r].open # {}
  BY RunType DEF Latch, Processing
<1>2. b \in Budgets /\ run[r].full \in BOOLEAN
  BY <1>1, CurrentType DEF RunState
<1>3. Write(r, b, new, next)
  BY DEF Latch
<1>4. Sound(b, row) /\ row \in BudgetRow
  BY <1>2, RowSound DEF Sound
<1> HIDE DEF row, b
<1>5. new \in BudgetRow /\ new.paid = row.paid
  BY <1>2, <1>4 DEF BudgetRow
<1>6. Sound(b, new)
  BY <1>2, <1>4, <1>5, SamePaid
<1>7. Busy(r, next)
  BY <1>1 DEF Busy, RunState, Processing
<1> HIDE DEF new, next
<1> QED BY <1>1, <1>2, <1>3, <1>6, <1>7, WriteStep

-----------------------------------------------------------------------------
(* Beginning, ending and dying.                                            *)

\* A run that is not at work.
LEMMA IdleType ==
  ASSUME plan \in Plans
  PROVE  /\ Created \in BudgetRow /\ \A b \in Budgets : Within(b, Created)
         /\ Idle \in RunState /\ Idle.at = "idle" /\ Idle.draft = [b \in Budgets |-> Created]
<1>1. Created \in BudgetRow
  BY DaysAssumption DEF Created, BudgetRow, Statuses
<1>2. ASSUME NEW b \in Budgets
      PROVE  Within(b, Created)
  <2>1. plan[b].amount \in Int
    BY PlanType
  <2>2. \A d \in Days : Created.paid["fund"][d] = 0
    BY DEF Created, Kinds
  <2> QED BY <2>1, <2>2 DEF Within
<1>3. [b \in Budgets |-> Created] \in [Budgets -> BudgetRow]
  BY <1>1
<1>4. Idle \in RunState
  BY <1>3 DEF Idle, RunState
<1> QED BY <1>1, <1>2, <1>4 DEF Idle

\* Listing the due events, with the account's lock.
LEMMA BeginStep ==
  ASSUME FundingInv, NEW r \in Runs, NEW kinds, NEW day, Begin(r, kinds, day)
  PROVE  FundingInv'
<1> DEFINE due == UNION {Due(b, k, day) : b \in Budgets, k \in kinds}
           paused == {b \in Budgets : budget[b].paused}
           next == [Idle EXCEPT !.at = "list", !.fresh = due, !.paused = paused]
<1>1. /\ lock = Nobody /\ lock' = r /\ run' = [run EXCEPT ![r] = next]
      /\ UNCHANGED <<today, plan, auto, budget>>
  BY DEF Begin
<1>2. due \in SUBSET Events /\ paused \in SUBSET Budgets
  BY DEF Due
<1> HIDE DEF due, paused
<1>3. next \in RunState /\ next.at = "list" /\ next.draft = [b \in Budgets |-> Created]
  BY <1>2, IdleType DEF RunState, FundingInv, TypeOK
<1> HIDE DEF next
<1>4. \A q \in Runs \ {r} : run'[q] = run[q]
  BY <1>1 DEF FundingInv, TypeOK
<1>5. run'[r] = next
  BY <1>1 DEF FundingInv, TypeOK
<1>6. TypeOK'
  <2>1. \A q \in Runs : run[q].at \in {"idle", "done"}
    BY <1>1, RunsAssumption DEF FundingInv, TypeOK
  <2> QED BY <1>1, <1>3, <1>4, <1>5, <2>1 DEF FundingInv, TypeOK, Processing
<1>7. PaidOnce'
  BY <1>1 DEF FundingInv, PaidOnce
<1>8. DraftsWithin'
  BY <1>1, <1>3, <1>4, <1>5, IdleType DEF FundingInv, TypeOK, DraftsWithin, Within
<1> QED BY <1>6, <1>7, <1>8 DEF FundingInv

\* A run that lets go of the lock, in a state where it holds nothing.
LEMMA RestStep ==
  ASSUME FundingInv, NEW r \in Runs, NEW next \in RunState, next.at \in {"idle", "done"},
         \A b \in Budgets : Within(b, next.draft[b]),
         run' = [run EXCEPT ![r] = next], lock' = IF lock = r THEN Nobody ELSE lock,
         UNCHANGED <<today, plan, auto>>,
         budget' \in [Budgets -> BudgetRow],
         \A b \in Budgets : Within(b, budget'[b])
  PROVE  FundingInv'
<1>1. \A q \in Runs : run'[q] = IF q = r THEN next ELSE run[q]
  BY DEF FundingInv, TypeOK
<1>2. TypeOK'
  BY <1>1, RunsAssumption DEF FundingInv, TypeOK, Processing
<1>3. PaidOnce'
  BY DEF PaidOnce, Within
<1>4. DraftsWithin'
  BY <1>1 DEF FundingInv, DraftsWithin, Within
<1> QED BY <1>2, <1>3, <1>4 DEF FundingInv

\* Returning from fund_account.
LEMMA FinishStep ==
  ASSUME FundingInv, NEW r \in Runs, Finish(r)
  PROVE  FundingInv'
<1> DEFINE done == [run[r] EXCEPT !.at = "done", !.paused = {}]
           next == IF r \in Requests THEN done ELSE Idle
<1>1. run[r] \in RunState /\ run[r].at = "list" /\ lock = r
  BY RunType DEF Finish, FundingInv, TypeOK
<1>2. done \in RunState /\ done.at = "done" /\ done.draft = run[r].draft
  BY <1>1 DEF RunState
<1> HIDE DEF done
<1>3. next \in RunState /\ next.at \in {"idle", "done"}
  BY <1>2, IdleType DEF FundingInv, TypeOK
<1>4. \A b \in Budgets : Within(b, next.draft[b])
  BY <1>2, IdleType DEF FundingInv, TypeOK, DraftsWithin
<1>5. run' = [run EXCEPT ![r] = next] /\ lock' = Nobody /\ UNCHANGED <<today, plan, auto, budget>>
  BY DEF Finish, done
<1>6. budget' \in [Budgets -> BudgetRow] /\ \A b \in Budgets : Within(b, budget'[b])
  BY <1>5 DEF FundingInv, TypeOK, PaidOnce, Within
<1> HIDE DEF next
<1> QED BY <1>1, <1>3, <1>4, <1>5, <1>6, RestStep

\* The end of a request's transaction.
LEMMA CommitStep ==
  ASSUME FundingInv, NEW r \in Runs, Commit(r)
  PROVE  FundingInv'
<1>1. lock # r
  BY DEF Commit, FundingInv, TypeOK
<1>2. /\ run' = [run EXCEPT ![r] = Idle] /\ budget' = [b \in Budgets |-> Row(r, b)]
      /\ UNCHANGED <<today, plan, auto, lock>>
  BY DEF Commit
<1>3. \A b \in Budgets : Row(r, b) \in BudgetRow /\ Within(b, Row(r, b))
  BY RowSound DEF Sound
<1>4. budget' \in [Budgets -> BudgetRow] /\ \A b \in Budgets : Within(b, budget'[b])
  BY <1>2, <1>3
<1>5. plan \in Plans
  BY DEF FundingInv, TypeOK
<1> QED BY <1>1, <1>2, <1>4, <1>5, IdleType, RestStep

\* A run that dies.
LEMMA CrashStep ==
  ASSUME FundingInv, NEW r \in Runs, Crash(r)
  PROVE  FundingInv'
<1>1. /\ run' = [run EXCEPT ![r] = Idle] /\ lock' = IF lock = r THEN Nobody ELSE lock
      /\ UNCHANGED <<today, plan, auto, budget>>
  BY DEF Crash
<1>2. budget' \in [Budgets -> BudgetRow] /\ \A b \in Budgets : Within(b, budget'[b])
  BY <1>1 DEF FundingInv, TypeOK, PaidOnce, Within
<1>3. plan \in Plans
  BY DEF FundingInv, TypeOK
<1> QED BY <1>1, <1>2, <1>3, IdleType, RestStep

-----------------------------------------------------------------------------
(* Users and time.                                                         *)

\* A user's write of a well-formed row that leaves the system transfers alone.
LEMMA UserStep ==
  ASSUME FundingInv, NEW b \in Budgets, NEW row \in BudgetRow, row.paid = budget[b].paid,
         UserWrites(b, row)
  PROVE  FundingInv'
<1> DEFINE complete == row.complete \/ (plan[b].type = "recurring" /\ Reached(b, row.balance))
           new == [row EXCEPT !.complete = complete]
<1>1. budget' = [budget EXCEPT ![b] = new] /\ UNCHANGED <<today, plan, auto, run, lock>>
  BY DEF UserWrites
<1>2. complete \in BOOLEAN
  <2>1. row.complete \in BOOLEAN
    BY DEF BudgetRow
  <2> QED BY <2>1
<1> HIDE DEF complete
<1>3. new \in BudgetRow /\ new.paid = budget[b].paid
  BY <1>2 DEF BudgetRow
<1> HIDE DEF new
<1>4. TypeOK'
  BY <1>1, <1>3 DEF FundingInv, TypeOK
<1>5. PaidOnce'
  <2>1. \A c \in Budgets : budget'[c].paid = budget[c].paid
    BY <1>1, <1>3 DEF FundingInv, TypeOK
  <2> QED BY <1>1, <2>1 DEF FundingInv, PaidOnce
<1>6. DraftsWithin'
  BY <1>1 DEF FundingInv, DraftsWithin, Within
<1> QED BY <1>4, <1>5, <1>6 DEF FundingInv

\* What users do to a budget: service/budget.py, internal_transaction.py and
\* transaction_allocation.py.
LEMMA UserActStep ==
  ASSUME FundingInv, NEW b \in Budgets, UserAct(b)
  PROVE  FundingInv'
<1> DEFINE row == budget[b]
<1>1. row \in BudgetRow /\ today \in Days
  BY DEF FundingInv, TypeOK
<1>2. row.balance \in Int /\ row.funded \in Int /\ row.fill \in Int /\ row.complete \in BOOLEAN
  BY <1>1 DEF BudgetRow
<1>3. ASSUME NEW n \in {-1, 1}, Allocate(b, n)
      PROVE  FundingInv'
  <2> DEFINE new == [row EXCEPT !.balance = @ + n]
  <2>1. UserWrites(b, new)
    BY <1>3 DEF Allocate
  <2>2. new \in BudgetRow /\ new.paid = row.paid
    BY <1>1, <1>2 DEF BudgetRow
  <2> HIDE DEF new
  <2> QED BY <2>1, <2>2, UserStep
<1>4. ASSUME NEW n \in {-1, 1}, UserTransfer(b, n)
      PROVE  FundingInv'
  <2> DEFINE complete == row.complete \/ (n > 0 /\ Reached(b, row.funded + n))
             balance == row.balance + n
             funded == row.funded + n
             new == [row EXCEPT !.balance = balance, !.funded = funded, !.complete = complete]
  <2>1. UserWrites(b, new)
    BY <1>4 DEF UserTransfer
  <2>2. complete \in BOOLEAN /\ balance \in Int /\ funded \in Int
    BY <1>2
  <2> HIDE DEF complete, balance, funded
  <2>3. new \in BudgetRow /\ new.paid = row.paid
    BY <1>1, <2>2 DEF BudgetRow
  <2> HIDE DEF new
  <2> QED BY <2>1, <2>3, UserStep
<1>5. ASSUME NEW n \in {-1, 1}, MoveFill(b, n)
      PROVE  FundingInv'
  <2> DEFINE new == [row EXCEPT !.fill = @ + n]
  <2>1. UserWrites(b, new)
    BY <1>5 DEF MoveFill
  <2>2. new \in BudgetRow /\ new.paid = row.paid
    BY <1>1, <1>2 DEF BudgetRow
  <2> HIDE DEF new
  <2> QED BY <2>1, <2>2, UserStep
<1>6. CASE Switch(b)
  <2> DEFINE last == [k \in Kinds |-> today - 1]
             resumed == [row EXCEPT !.paused = FALSE, !.last = last]
             paused == [row EXCEPT !.paused = TRUE]
             new == IF row.paused THEN resumed ELSE paused
  <2>1. UserWrites(b, new)
    BY <1>6 DEF Switch
  <2>2. last \in [Kinds -> 0..LastDay]
    BY <1>1, DaysAssumption DEF Days
  <2> HIDE DEF last
  <2>3. /\ resumed \in BudgetRow /\ resumed.paid = row.paid
        /\ paused \in BudgetRow /\ paused.paid = row.paid
    BY <1>1, <2>2 DEF BudgetRow
  <2> HIDE DEF resumed, paused
  <2> QED BY <2>1, <2>3, UserStep
<1>7. CASE Archive(b)
  <2> DEFINE drained == Largest(0, row.balance)
             balance == row.balance - drained
             funded == IF plan[b].type = "goal" THEN row.funded - drained ELSE row.funded
             fill == Least(0, row.fill)
             new == [row EXCEPT !.archived = TRUE, !.balance = balance, !.funded = funded,
                                !.fill = fill]
  <2>1. UserWrites(b, new)
    BY <1>7 DEF Archive
  <2>2. balance \in Int /\ funded \in Int /\ fill \in Int
    BY <1>2 DEF Largest, Least
  <2> HIDE DEF balance, funded, fill
  <2>3. new \in BudgetRow /\ new.paid = row.paid
    BY <1>1, <2>2 DEF BudgetRow
  <2> HIDE DEF new
  <2> QED BY <2>1, <2>3, UserStep
<1> QED BY <1>3, <1>4, <1>5, <1>6, <1>7 DEF UserAct

-----------------------------------------------------------------------------
LEMMA FundingInit == Init => FundingInv
<1> SUFFICES ASSUME Init PROVE FundingInv
    OBVIOUS
<1>1. TypeOK
  BY IdleType, DaysAssumption, AutosAssumption, RunsAssumption DEF Init, TypeOK, Days, Processing
<1>2. PaidOnce
  BY IdleType DEF Init, PaidOnce, Within
<1>3. DraftsWithin
  BY IdleType DEF Init, DraftsWithin
<1> QED BY <1>1, <1>2, <1>3 DEF FundingInv

\* Every step preserves the inductive invariant.
LEMMA FundingStep == FundingInv /\ [Next]_vars => FundingInv'
<1> SUFFICES ASSUME FundingInv, [Next]_vars PROVE FundingInv'
    OBVIOUS
<1>1. ASSUME NEW r \in Runs, \E a \in Scheduled \union Asked : Begin(r, a[1], a[2])
      PROVE  FundingInv'
  BY <1>1, BeginStep
<1>2. ASSUME NEW r \in Runs, Step(r)
      PROVE  FundingInv'
  BY <1>2, InstantiateStep, ClosePriorStep, SkipStep, PayFundStep, PayRecurStep, LatchStep,
     MarkStep, AdvanceStep, FinishStep, CommitStep DEF Step
<1>3. ASSUME NEW r \in Runs, Crash(r)
      PROVE  FundingInv'
  BY <1>3, CrashStep
<1>4. ASSUME NEW b \in Budgets, UserAct(b)
      PROVE  FundingInv'
  BY <1>4, UserActStep
<1>5. CASE NextDay
  BY <1>5, DaysAssumption DEF NextDay, FundingInv, TypeOK, Days, PaidOnce, DraftsWithin, Within
<1>6. CASE UNCHANGED vars
  BY <1>6 DEF vars, FundingInv, TypeOK, PaidOnce, DraftsWithin, Within
<1> QED BY <1>1, <1>2, <1>3, <1>4, <1>5, <1>6 DEF Next

\* The inductive invariant holds in every reachable state.
THEOREM FundingCorrect == Spec => []FundingInv
BY FundingInit, FundingStep, PTL DEF Spec

\* The engine's state is well formed: no event's payments are negative, and
\* exactly the run between _collect_events and the release holds the lock.
THEOREM FundingTypeCorrect == Spec => []TypeOK
BY FundingCorrect, PTL DEF FundingInv

\* However often an event is run, what is transferred for it stays within the
\* budget's funding amount: _process_fund_event subtracts already_moved under
\* the budget's lock, and a request's uncommitted rows are seen by it alone.
THEOREM PaidOnceCorrect == Spec => []PaidOnce
BY FundingCorrect, PTL DEF FundingInv

-----------------------------------------------------------------------------
(* Payments do not overshoot.  A request commits what it has paid at the   *)
(* end, so the invariant follows what it has paid so far: its events come  *)
(* in the order of their days, and no one else writes its budgets.         *)

\* Only a recurring budget's fill-up ever holds anything.
Plain(b, row) == plan[b].type # "recurring" => row.fill <= 0

\* Whatever was paid between old and row leaves what it fills within the target, or was
\* paid after a later event of the kind.
Filled(b, old, row) ==
  /\ \A k \in Kinds, d \in Days :
       \/ row.paid[k][d] = old.paid[k][d]
       \/ \E x \in Days : x > d /\ row.paid[k][x] > 0
       \/ Level(row, b, k) <= plan[b].target
  /\ plan[b].type # "recurring" => \A d \in Days : row.paid["recur"][d] = old.paid["recur"][d]

\* It was paid for events that come before those in S.
Ahead(b, old, row, S) ==
  \A k \in Kinds, d \in Days :
    row.paid[k][d] # old.paid[k][d] =>
      \A e \in S : e.budget = b /\ e.kind = k => d <= e.day

FillInv ==
  /\ FundingInv
  /\ \A r \in Tasks : run[r].wrote = {}
  /\ \A r \in Runs : \A q \in Runs \ {r} : run[r].wrote \cap run[q].wrote = {}
  /\ \A r \in Runs : run[r].at \in Processing => run[r].fresh = {}
  /\ \A b \in Budgets : Plain(b, budget[b])
  /\ \A r \in Runs : \A b \in run[r].wrote :
       /\ Plain(b, run[r].draft[b])
       /\ Filled(b, budget[b], run[r].draft[b])
       /\ Ahead(b, budget[b], run[r].draft[b], run[r].fresh \union run[r].open)

\* Half cents go to the even cent, never above the gap.
LEMMA QuantizeWithin ==
  ASSUME NEW gap \in Nat, NEW n \in Nat \ {0}
  PROVE  Quantize(gap, n) <= gap
<1> DEFINE q == gap \div n
           m == gap % n
<1>1. q \in Nat /\ m \in Nat /\ gap = n * q + m
  OBVIOUS
<1> HIDE DEF q, m
<1>2. PICK k \in Nat : n = k + 1
  <2>1. n - 1 \in Nat /\ n = (n - 1) + 1
    OBVIOUS
  <2> QED BY <2>1
<1>3. n * q = k * q + q /\ k * q \in Nat
  BY <1>1, <1>2
<1>4. q + m <= gap
  BY <1>1, <1>3
<1>5. CASE m = 0
  <2>1. ~(2 * m > n) /\ 2 * m # n
    BY <1>5
  <2>2. Quantize(gap, n) = q
    BY <2>1 DEF Quantize, q, m
  <2> QED BY <1>1, <1>4, <2>2
<1>6. CASE m # 0
  <2>1. Quantize(gap, n) = q \/ Quantize(gap, n) = q + 1
    BY DEF Quantize, q, m
  <2> QED BY <1>1, <1>4, <1>6, <2>1
<1> QED BY <1>5, <1>6

\* No strategy intends more than the gap.
LEMMA ShareWithin ==
  ASSUME plan \in Plans, NEW b \in Budgets, NEW gap \in Nat, NEW k \in Kinds, NEW d \in Days
  PROVE  Share(b, gap, k, d) <= gap
<1>1. CASE k = "recur" \/ plan[b].amount > 0
  BY <1>1, PlanType DEF Share, Least, Kinds
<1>2. CASE k # "recur" /\ ~(plan[b].amount > 0)
  <2>1. EventsLeft(b, d) \in Nat \ {0}
    BY <1>2, PlanType, EventsLeftPositive
  <2>2. Share(b, gap, k, d) = Quantize(gap, EventsLeft(b, d))
    BY <1>2 DEF Share
  <2> QED BY <2>1, <2>2, QuantizeWithin
<1> QED BY <1>1, <1>2

\* With nothing paid for later days, what is paid since a day is what is paid for it.
LEMMA SinceOnly ==
  ASSUME NEW row \in BudgetRow, NEW k \in Kinds, NEW d \in Days,
         \A x \in Days : x > d => row.paid[k][x] = 0
  PROVE  Since(row, k, d) = row.paid[k][d]
<1> DEFINE S == d..LastDay
<1>1. S \in SUBSET Days /\ IsFiniteSet(S) /\ d \in S /\ \A x \in S \ {d} : x \in Days /\ x > d
  <2>1. d \in Int /\ LastDay \in Int /\ 1 <= d /\ d <= LastDay
    BY DaysAssumption DEF Days
  <2> QED BY <2>1, FS_Interval DEF Days
<1>2. row.paid[k][d] \in Int
  BY DEF BudgetRow
<1>3. \A x \in S \ {d} : row.paid[k][x] = 0
  BY <1>1
<1> HIDE DEF S
<1>4. SumFunctionOnSet(row.paid[k], S) = row.paid[k][d]
  BY <1>1, <1>2, <1>3, SumSingle
<1> QED BY <1>4 DEF Since, S

LEMMA SinceNat ==
  ASSUME NEW row \in BudgetRow, NEW k \in Kinds, NEW d \in Days
  PROVE  Since(row, k, d) \in Nat
<1> DEFINE S == d..LastDay
<1>1. S \in SUBSET Days /\ IsFiniteSet(S)
  BY DaysAssumption, FS_Interval, EventParts, FS_Subset DEF Days
<1>2. \A x \in S : row.paid[k][x] \in Nat
  BY <1>1 DEF BudgetRow
<1> HIDE DEF S
<1>3. SumFunctionOnSet(row.paid[k], S) \in Nat
  BY <1>1, <1>2, SumNat
<1> QED BY <1>3 DEF Since, S

\* A payment fills up to the target at most, unless a later event has been paid.
LEMMA NetFills ==
  ASSUME plan \in Plans, NEW b \in Budgets, NEW row \in BudgetRow, NEW k \in Kinds, NEW d \in Days,
         Net(b, row, k, d) > 0
  PROVE  \/ \E x \in Days : x > d /\ row.paid[k][x] > 0
         \/ Level(row, b, k) + Net(b, row, k, d) <= plan[b].target
<1> DEFINE gap == Gap(b, row, k, d)
           share == Share(b, gap, k, d)
           start == AtStart(b, row, k, d)
<1>1. start \in Int /\ plan[b].target \in Nat
  BY AtStartType, PlanType
<1>2. gap = Largest(0, plan[b].target - start)
  BY DEF Gap
<1>3. gap \in Nat /\ (gap = 0 \/ gap = plan[b].target - start)
  BY <1>1, <1>2 DEF Largest
<1>4. row.paid[k][d] \in Nat /\ Net(b, row, k, d) = Largest(0, share - row.paid[k][d])
  BY DEF BudgetRow, Net
<1>5. share \in Int /\ share <= gap
  BY <1>3, ShareType, ShareWithin
<1> HIDE DEF gap, share, start
<1>6. /\ Net(b, row, k, d) = share - row.paid[k][d]
      /\ Net(b, row, k, d) <= (plan[b].target - start) - row.paid[k][d]
  BY <1>1, <1>3, <1>4, <1>5 DEF Largest
<1>7. CASE \E x \in Days : x > d /\ row.paid[k][x] > 0
  BY <1>7
<1>8. CASE ~\E x \in Days : x > d /\ row.paid[k][x] > 0
  <2>1. \A x \in Days : row.paid[k][x] \in Nat
    BY DEF BudgetRow
  <2>2. Since(row, k, d) = row.paid[k][d]
    BY <1>8, <2>1, SinceOnly
  <2>3. Since(row, "recur", d) \in Nat
    BY SinceNat DEF Kinds
  <2>4. row.balance \in Int /\ row.fill \in Int /\ row.funded \in Int
    BY DEF BudgetRow
  <2>5. Level(row, b, k) - row.paid[k][d] <= start /\ Level(row, b, k) \in Int
    <3>1. CASE k = "recur"
      BY <2>2, <2>4, <3>1, <1>4 DEF start, AtStart, Level
    <3>2. CASE k = "fund" /\ plan[b].type = "recurring"
      BY <2>2, <2>3, <2>4, <3>2, <1>4 DEF start, AtStart, Level
    <3>3. CASE k = "fund" /\ plan[b].type = "capped"
      BY <2>2, <2>4, <3>3, <1>4 DEF start, AtStart, Level
    <3>4. CASE k = "fund" /\ plan[b].type = "goal"
      BY <2>2, <2>4, <3>4, <1>4 DEF start, AtStart, Level
    <3> QED BY <3>1, <3>2, <3>3, <3>4, PlanType DEF Kinds, Types
  <2> QED BY <1>1, <1>4, <1>5, <1>6, <2>5
<1> QED BY <1>7, <1>8

\* A write that pays nothing.
LEMMA NothingPaid ==
  ASSUME NEW b \in Budgets, NEW old, NEW row, NEW new, NEW S, NEW T \in SUBSET S,
         Filled(b, old, row), Ahead(b, old, row, S), Plain(b, row),
         new.paid = row.paid, new.balance = row.balance, new.funded = row.funded,
         new.fill = row.fill
  PROVE  Filled(b, old, new) /\ Ahead(b, old, new, T) /\ Plain(b, new)
<1>1. \A k \in Kinds : Level(new, b, k) = Level(row, b, k)
  BY DEF Level
<1> QED BY <1>1 DEF Filled, Ahead, Plain

\* e is the next of its kind among the events S.
ComesNext(b, S, e) ==
  e \in S /\ e \in Events /\ e.budget = b /\ \A f \in S : f.budget = b /\ f.kind = e.kind => e.day <= f.day

\* A payment of n for the event e.
Pays(b, e, n, row, new) ==
  /\ n \in Nat \ {0} /\ row \in BudgetRow /\ new \in BudgetRow
  /\ \/ \E x \in Days : x > e.day /\ row.paid[e.kind][x] > 0
     \/ Level(row, b, e.kind) + n <= plan[b].target
  /\ \A k \in Kinds, x \in Days :
       new.paid[k][x] = IF k = e.kind /\ x = e.day THEN row.paid[k][x] + n ELSE row.paid[k][x]
  /\ Level(new, b, e.kind) = Level(row, b, e.kind) + n
  /\ plan[b].type = "recurring" =>
       \A k \in Kinds : k # e.kind => Level(new, b, k) <= Level(row, b, k)
  /\ plan[b].type # "recurring" => e.kind = "fund" /\ new.fill = row.fill

LEMMA Paid ==
  ASSUME plan \in Plans, NEW b \in Budgets, NEW old, NEW row, NEW new, NEW n, NEW S,
         NEW T \in SUBSET S, NEW e, ComesNext(b, S, e), Pays(b, e, n, row, new),
         Filled(b, old, row), Ahead(b, old, row, S), Plain(b, row)
  PROVE  Filled(b, old, new) /\ Ahead(b, old, new, T) /\ Plain(b, new)
<1> USE DEF ComesNext, Pays
<1>1. e.day \in Days /\ e.kind \in Kinds /\ Days \in SUBSET Int /\ plan[b].target \in Int
  BY EventParts, PlanType
<1>2. /\ \A k \in Kinds, x \in Days : row.paid[k][x] \in Nat
      /\ \A k \in Kinds : Level(row, b, k) \in Int /\ Level(new, b, k) \in Int
  <2>1. ASSUME NEW v \in BudgetRow, NEW k \in Kinds PROVE Level(v, b, k) \in Int
    BY PlanType DEF BudgetRow, Level, Kinds, Types
  <2>2. row.paid \in [Kinds -> [Days -> Nat]]
    BY DEF BudgetRow
  <2>3. \A k \in Kinds, x \in Days : row.paid[k][x] \in Nat
    BY <2>2
  <2> QED BY <2>1, <2>3
<1>3. ASSUME NEW k \in Kinds, NEW d \in Days, new.paid[k][d] # old.paid[k][d]
      PROVE  \/ \E x \in Days : x > d /\ new.paid[k][x] > 0
             \/ Level(new, b, k) <= plan[b].target
  <2>1. CASE k = e.kind /\ d = e.day
    BY <1>1, <1>2, <2>1
  <2>2. CASE k = e.kind /\ d < e.day
    <3>1. new.paid[e.kind][e.day] = row.paid[e.kind][e.day] + n
      BY <1>1
    <3>2. row.paid[e.kind][e.day] \in Nat
      BY <1>1, <1>2
    <3>3. new.paid[k][e.day] > 0
      BY <2>2, <3>1, <3>2
    <3> QED BY <1>1, <2>2, <3>3
  <2>3. CASE k = e.kind /\ d > e.day
    <3>1. row.paid[k][d] # old.paid[k][d]
      BY <1>1, <1>3, <2>3
    <3>2. d <= e.day
      BY <2>3, <3>1 DEF Ahead
    <3>3. d \in Int /\ e.day \in Int
      BY <1>1
    <3> QED BY <2>3, <3>2, <3>3
  <2>4. CASE k # e.kind
    <3>1. row.paid[k][d] # old.paid[k][d]
      BY <1>3, <2>4
    <3>2. plan[b].type = "recurring"
      BY <1>1, <2>4, <3>1 DEF Filled, Kinds
    <3>3. \/ \E x \in Days : x > d /\ row.paid[k][x] > 0
          \/ Level(row, b, k) <= plan[b].target
      BY <3>1 DEF Filled
    <3> QED BY <1>1, <1>2, <2>4, <3>2, <3>3
  <2>5. d \in Int /\ e.day \in Int
    BY <1>1
  <2> QED BY <2>1, <2>2, <2>3, <2>4, <2>5
<1>4. plan[b].type # "recurring" => \A d \in Days : new.paid["recur"][d] = old.paid["recur"][d]
  BY DEF Filled, Kinds
<1>5. Filled(b, old, new)
  BY <1>3, <1>4 DEF Filled
<1>6. ASSUME NEW k \in Kinds, NEW d \in Days, new.paid[k][d] # old.paid[k][d],
             NEW f \in T, f.budget = b, f.kind = k
      PROVE  d <= f.day
  <2>1. CASE k = e.kind /\ d = e.day
    BY <1>6, <2>1
  <2>2. CASE ~(k = e.kind /\ d = e.day)
    <3>1. row.paid[k][d] # old.paid[k][d]
      BY <1>6, <2>2
    <3> QED BY <1>6, <3>1 DEF Ahead
  <2> QED BY <2>1, <2>2
<1>7. Ahead(b, old, new, T)
  BY <1>6 DEF Ahead
<1>8. Plain(b, new)
  BY DEF Plain
<1> QED BY <1>5, <1>7, <1>8

\* What this step pays does not overshoot.
PaysWithin == \A b \in Budgets : Filled(b, budget[b], budget'[b])

LEMMA FilledSame ==
  ASSUME NEW b, NEW row
  PROVE  Filled(b, row, row) /\ \A S : Ahead(b, row, row, S)
BY DEF Filled, Ahead

\* What holds of the rows a run sees.
LEMMA RowFilled ==
  ASSUME FillInv, NEW r \in Runs, NEW b \in Budgets
  PROVE  /\ Filled(b, budget[b], Row(r, b)) /\ Plain(b, Row(r, b))
         /\ Ahead(b, budget[b], Row(r, b), run[r].fresh \union run[r].open)
<1>1. CASE b \in run[r].wrote
  <2>1. Row(r, b) = run[r].draft[b]
    BY <1>1 DEF Row
  <2> QED BY <1>1, <2>1 DEF FillInv
<1>2. CASE b \notin run[r].wrote
  <2>1. Row(r, b) = budget[b]
    BY <1>2 DEF Row
  <2> QED BY <2>1, FilledSame DEF FillInv
<1> QED BY <1>1, <1>2

\* A run goes on with what it wrote, or without.
GoesOn(r, next) ==
  /\ next.at \in Processing => next.fresh = {}
  /\ \/ next.wrote = {}
     \/ /\ next.wrote = run[r].wrote /\ next.draft = run[r].draft
        /\ next.fresh \union next.open \subseteq run[r].fresh \union run[r].open

LEMMA NothingWritten ==
  ASSUME FillInv, FundingInv', NEW r \in Runs, NEW next, GoesOn(r, next),
         run' = [run EXCEPT ![r] = next], UNCHANGED <<plan, budget>>
  PROVE  FillInv' /\ PaysWithin
<1>1. \A q \in Runs : run'[q] = IF q = r THEN next ELSE run[q]
  BY DEF FillInv, FundingInv, TypeOK
<1>2. PaysWithin
  BY FilledSame DEF PaysWithin
<1>3. \A q \in Tasks : q \in Runs /\ run'[q].wrote = {}
  BY <1>1 DEF FillInv, GoesOn, Runs
<1>4. \A q \in Runs : \A o \in Runs \ {q} : run'[q].wrote \cap run'[o].wrote = {}
  <2>1. \A q \in Runs : run'[q].wrote \in {{}, run[q].wrote}
    BY <1>1 DEF GoesOn
  <2> QED BY <2>1 DEF FillInv
<1>5. \A q \in Runs : run'[q].at \in Processing => run'[q].fresh = {}
  BY <1>1 DEF FillInv, GoesOn
<1>6. \A b \in Budgets : Plain(b, budget[b])'
  BY DEF FillInv, Plain
<1>7. ASSUME NEW q \in Runs, NEW b \in run'[q].wrote
      PROVE  /\ Plain(b, run[q].draft[b])' /\ Filled(b, budget[b], run[q].draft[b])'
             /\ Ahead(b, budget[b], run[q].draft[b], run[q].fresh \union run[q].open)'
  <2>1. b \in run[q].wrote /\ run'[q].draft = run[q].draft
    BY <1>1, <1>7 DEF GoesOn
  <2>2. run'[q].fresh \union run'[q].open \subseteq run[q].fresh \union run[q].open
    BY <1>1, <1>7 DEF GoesOn
  <2>3. /\ Plain(b, run[q].draft[b]) /\ Filled(b, budget[b], run[q].draft[b])
        /\ Ahead(b, budget[b], run[q].draft[b], run[q].fresh \union run[q].open)
    BY <2>1 DEF FillInv
  <2>4. Plain(b, run[q].draft[b])'
    BY <2>1, <2>3 DEF Plain
  <2>5. Filled(b, budget[b], run[q].draft[b])'
    BY <2>1, <2>3 DEF Filled, Level
  <2>6. Ahead(b, budget[b], run[q].draft[b], run[q].fresh \union run[q].open)'
    BY <2>1, <2>2, <2>3 DEF Ahead
  <2> QED BY <2>4, <2>5, <2>6
<1> QED BY <1>2, <1>3, <1>4, <1>5, <1>6, <1>7 DEF FillInv

LEMMA RowWritten ==
  ASSUME FillInv, FundingInv', NEW r \in Runs, NEW b \in Budgets, NEW row, NEW next \in RunState,
         Write(r, b, row, next), GoesOn(r, next),
         next.wrote = run[r].wrote, next.draft = run[r].draft,
         Filled(b, budget[b], row), Plain(b, row),
         Ahead(b, budget[b], row, next.fresh \union next.open)
  PROVE  FillInv' /\ PaysWithin
<1>1. plan' = plan /\ (\A q \in Runs \ {r} : b \notin run[q].wrote)
  BY DEF Write, Available
<1>2. /\ run \in [Runs -> RunState] /\ budget \in [Budgets -> BudgetRow]
      /\ run[r].draft \in [Budgets -> BudgetRow] /\ run[r].wrote \in SUBSET Budgets
  BY DEF FillInv, FundingInv, TypeOK, RunState
<1>3. CASE r \in Requests
  <2> DEFINE drafted == [next EXCEPT !.wrote = @ \union {b}, !.draft[b] = row]
  <2>1. run' = [run EXCEPT ![r] = drafted] /\ budget' = budget
    BY <1>3 DEF Write
  <2>2. /\ drafted.at = next.at /\ drafted.fresh = next.fresh /\ drafted.open = next.open
        /\ drafted.wrote = run[r].wrote \union {b}
        /\ drafted.draft = [run[r].draft EXCEPT ![b] = row]
    BY DEF RunState
  <2> HIDE DEF drafted
  <2>3. \A q \in Runs : run'[q] = IF q = r THEN drafted ELSE run[q]
    BY <1>2, <2>1
  <2>4. PaysWithin
    BY <2>1, FilledSame DEF PaysWithin
  <2>5. \A q \in Tasks : run'[q].wrote = {}
    BY <1>3, <2>3, RunsAssumption DEF FillInv, Runs
  <2>6. \A q \in Runs : \A o \in Runs \ {q} : run'[q].wrote \cap run'[o].wrote = {}
    BY <1>1, <2>2, <2>3 DEF FillInv
  <2>7. \A q \in Runs : run'[q].at \in Processing => run'[q].fresh = {}
    BY <2>2, <2>3 DEF FillInv, GoesOn
  <2>8. \A c \in Budgets : Plain(c, budget[c])'
    BY <1>1, <2>1 DEF FillInv, Plain
  <2>9. ASSUME NEW q \in Runs, NEW c \in run'[q].wrote
        PROVE  /\ Plain(c, run[q].draft[c])' /\ Filled(c, budget[c], run[q].draft[c])'
               /\ Ahead(c, budget[c], run[q].draft[c], run[q].fresh \union run[q].open)'
    <3>1. CASE q = r /\ c = b
      <4>1. run'[q].draft[c] = row /\ run'[q].fresh \union run'[q].open = next.fresh \union next.open
        BY <1>2, <2>2, <2>3, <3>1
      <4> QED BY <1>1, <2>1, <3>1, <4>1 DEF Plain, Filled, Level, Ahead
    <3>2. CASE ~(q = r /\ c = b)
      <4>1. c \in run[q].wrote /\ run'[q].draft[c] = run[q].draft[c]
        BY <1>2, <2>2, <2>3, <2>9, <3>2
      <4>2. run'[q].fresh \union run'[q].open \subseteq run[q].fresh \union run[q].open
        BY <2>2, <2>3, <3>2, <4>1 DEF GoesOn
      <4>3. /\ Plain(c, run[q].draft[c]) /\ Filled(c, budget[c], run[q].draft[c])
            /\ Ahead(c, budget[c], run[q].draft[c], run[q].fresh \union run[q].open)
        BY <4>1 DEF FillInv
      <4>4. Plain(c, run[q].draft[c])' /\ Filled(c, budget[c], run[q].draft[c])'
        BY <1>1, <2>1, <4>1, <4>3 DEF Plain, Filled, Level
      <4>5. Ahead(c, budget[c], run[q].draft[c], run[q].fresh \union run[q].open)'
        BY <2>1, <4>1, <4>2, <4>3 DEF Ahead
      <4> QED BY <4>4, <4>5
    <3> QED BY <3>1, <3>2
  <2> QED BY <2>4, <2>5, <2>6, <2>7, <2>8, <2>9 DEF FillInv
<1>4. CASE r \notin Requests
  <2>1. run' = [run EXCEPT ![r] = next] /\ budget' = [budget EXCEPT ![b] = row]
    BY <1>4 DEF Write
  <2>2. /\ \A q \in Runs : run'[q] = IF q = r THEN next ELSE run[q]
        /\ \A c \in Budgets : budget'[c] = IF c = b THEN row ELSE budget[c]
    BY <1>2, <2>1
  <2>3. run[r].wrote = {} /\ next.wrote = {}
    BY <1>4 DEF FillInv, Runs
  <2>4. PaysWithin
    BY <2>2, FilledSame DEF PaysWithin
  <2>5. \A q \in Tasks : run'[q].wrote = {}
    BY <2>2, <2>3 DEF FillInv, Runs
  <2>6. \A q \in Runs : \A o \in Runs \ {q} : run'[q].wrote \cap run'[o].wrote = {}
    BY <2>2, <2>3 DEF FillInv
  <2>7. \A q \in Runs : run'[q].at \in Processing => run'[q].fresh = {}
    BY <2>2 DEF FillInv, GoesOn
  <2>8. \A c \in Budgets : Plain(c, budget[c])'
    BY <1>1, <2>2 DEF FillInv, Plain
  <2>9. ASSUME NEW q \in Runs, NEW c \in run'[q].wrote
        PROVE  /\ Plain(c, run[q].draft[c])' /\ Filled(c, budget[c], run[q].draft[c])'
               /\ Ahead(c, budget[c], run[q].draft[c], run[q].fresh \union run[q].open)'
    <3>1. q # r /\ run'[q] = run[q] /\ c \in run[q].wrote
      BY <2>2, <2>3, <2>9
    <3>2. c # b /\ c \in Budgets
      BY <1>1, <1>2, <3>1 DEF RunState
    <3>3. budget'[c] = budget[c]
      BY <2>2, <3>2
    <3>4. /\ Plain(c, run[q].draft[c]) /\ Filled(c, budget[c], run[q].draft[c])
          /\ Ahead(c, budget[c], run[q].draft[c], run[q].fresh \union run[q].open)
      BY <3>1 DEF FillInv
    <3> QED BY <1>1, <3>1, <3>3, <3>4 DEF Plain, Filled, Level, Ahead
  <2> QED BY <2>4, <2>5, <2>6, <2>7, <2>8, <2>9 DEF FillInv
<1> QED BY <1>3, <1>4

\* A write that pays nothing.
LEMMA FreeWrite ==
  ASSUME FillInv, FundingInv', NEW r \in Runs, NEW b \in Budgets, NEW row, NEW next \in RunState,
         Write(r, b, row, next), GoesOn(r, next),
         next.wrote = run[r].wrote, next.draft = run[r].draft,
         next.fresh \union next.open \subseteq run[r].fresh \union run[r].open,
         row.paid = Row(r, b).paid, row.balance = Row(r, b).balance,
         row.funded = Row(r, b).funded, row.fill = Row(r, b).fill
  PROVE  FillInv' /\ PaysWithin
<1> DEFINE S == run[r].fresh \union run[r].open
           T == next.fresh \union next.open
           old == Row(r, b)
<1>1. Filled(b, budget[b], old) /\ Plain(b, old) /\ Ahead(b, budget[b], old, S)
  BY RowFilled
<1>2. T \in SUBSET S
  OBVIOUS
<1> HIDE DEF S, T, old
<1>3. Filled(b, budget[b], row) /\ Plain(b, row) /\ Ahead(b, budget[b], row, T)
  BY <1>1, <1>2, NothingPaid DEF old
<1> QED BY <1>3, RowWritten DEF T

LEMMA StatusFields ==
  ASSUME NEW row \in BudgetRow, NEW e, NEW status
  PROVE  /\ WithStatus(row, e, status).paid = row.paid
         /\ WithStatus(row, e, status).balance = row.balance
         /\ WithStatus(row, e, status).funded = row.funded
         /\ WithStatus(row, e, status).fill = row.fill
BY DEF WithStatus, BudgetRow

LEMMA InstantiateFills ==
  ASSUME FillInv, FundingInv', NEW r \in Runs, Instantiate(r)
  PROVE  FillInv' /\ PaysWithin
<1> DEFINE e == First(run[r].fresh)
           row == Row(r, e.budget)
           status == row.occ[e.kind][e.day]
           next == [run[r] EXCEPT !.fresh = @ \ {e},
                                  !.open = IF Unsettled(status) THEN @ \union {e} ELSE @]
<1>1. /\ run[r] \in RunState /\ run[r].at = "list" /\ run[r].fresh \in SUBSET Events
      /\ run[r].fresh # {}
  BY RunType DEF Instantiate, RunState, FillInv
<1>2. e \in run[r].fresh /\ e \in Events /\ e.budget \in Budgets
  BY <1>1, FirstIn, EventParts
<1>3. row \in BudgetRow
  BY <1>2, RowSound DEF FillInv, Sound
<1>4. /\ next \in RunState /\ next.at = "list" /\ next.wrote = run[r].wrote
      /\ next.draft = run[r].draft
      /\ next.fresh \union next.open \subseteq run[r].fresh \union run[r].open
  BY <1>1, <1>2 DEF RunState
<1>5. \/ Write(r, e.budget, WithStatus(row, e, "PENDING"), next)
      \/ run' = [run EXCEPT ![r] = next] /\ UNCHANGED <<plan, budget>>
  BY DEF Instantiate
<1> HIDE DEF next
<1>6. GoesOn(r, next)
  BY <1>4 DEF GoesOn, Processing
<1>7. CASE run' = [run EXCEPT ![r] = next] /\ UNCHANGED <<plan, budget>>
  BY <1>6, <1>7, NothingWritten
<1>8. CASE Write(r, e.budget, WithStatus(row, e, "PENDING"), next)
  BY <1>2, <1>3, <1>4, <1>6, <1>8, StatusFields, FreeWrite
<1> QED BY <1>5, <1>7, <1>8

\* Where a run stands that processes an event.
LEMMA AtEvent ==
  ASSUME FillInv, NEW r \in Runs, run[r].open # {}, run[r].fresh = {}
  PROVE  /\ run[r] \in RunState
         /\ Current(r) \in run[r].open /\ Current(r) \in Events /\ Current(r).budget \in Budgets
         /\ Row(r, Current(r).budget) \in BudgetRow
         /\ \A f \in run[r].fresh \union run[r].open :
              f.budget = Current(r).budget /\ f.kind = Current(r).kind => Current(r).day <= f.day
<1> DEFINE e == Current(r)
<1>1. run[r] \in RunState /\ run[r].open \in SUBSET Events
  BY DEF FillInv, FundingInv, TypeOK, RunState
<1>2. e \in run[r].open /\ \A f \in run[r].open \ {e} : Precedes(e, f)
  BY <1>1, FirstIn DEF Current
<1>3. e \in Events /\ e.budget \in Budgets /\ e.day \in Int
  BY <1>1, <1>2, EventParts
<1>4. Row(r, e.budget) \in BudgetRow
  BY <1>3, RowSound DEF FillInv, Sound
<1>5. ASSUME NEW f \in run[r].open, f.budget = e.budget, f.kind = e.kind
      PROVE  e.day <= f.day
  <2>1. f.day \in Int /\ e.budget \in Int
    BY <1>1, <1>3, <1>5, EventParts
  <2>2. CASE f = e
    BY <1>3, <2>2
  <2>3. CASE f # e
    <3>1. Precedes(e, f)
      BY <1>2, <2>3
    <3> QED BY <1>3, <1>5, <2>1, <3>1 DEF Precedes
  <2> QED BY <2>2, <2>3
<1> QED BY <1>1, <1>2, <1>3, <1>4, <1>5

\* The steps of an event that pay nothing.
LEMMA EventWrites ==
  ASSUME FillInv, FundingInv', NEW r \in Runs, ClosePrior(r) \/ Skip(r) \/ Latch(r) \/ Mark(r) \/ Advance(r)
  PROVE  FillInv' /\ PaysWithin
<1> DEFINE e == Current(r)
           b == e.budget
           row == Row(r, b)
<1>1. run[r].open # {} /\ run[r].fresh = {}
  BY RunType DEF ClosePrior, Skip, Latch, Mark, Advance, FillInv, Processing
<1>2. /\ run[r] \in RunState /\ b \in Budgets /\ row \in BudgetRow
  BY <1>1, AtEvent
<1>3. /\ Dropping(r, e) \in RunState /\ Dropping(r, e).fresh = {} /\ Dropping(r, e).at = "list"
      /\ Dropping(r, e).wrote = run[r].wrote /\ Dropping(r, e).draft = run[r].draft
      /\ Dropping(r, e).open \subseteq run[r].open
  BY <1>1, <1>2 DEF Dropping, RunState
<1>4. GoesOn(r, Dropping(r, e))
  BY <1>1, <1>3 DEF GoesOn, Processing
<1>5. CASE ClosePrior(r)
  <2> DEFINE closed == [d \in Days |-> IF d < e.day /\ row.occ[e.kind][d] = "PENDING" THEN "SKIPPED"
                                       ELSE row.occ[e.kind][d]]
             new == [row EXCEPT !.occ[e.kind] = closed]
             at == IF b \in run[r].paused THEN "skip" ELSE "pay"
             next == [run[r] EXCEPT !.at = at]
  <2>1. Write(r, b, new, next)
    BY <1>5 DEF ClosePrior
  <2>2. /\ new.paid = row.paid /\ new.balance = row.balance /\ new.funded = row.funded
        /\ new.fill = row.fill
    BY <1>2 DEF BudgetRow
  <2>3. at \in Processing
    BY DEF Processing
  <2> HIDE DEF new, at
  <2>4. /\ next \in RunState /\ next.fresh = {} /\ next.wrote = run[r].wrote
        /\ next.draft = run[r].draft /\ next.open = run[r].open
    BY <1>1, <1>2, <2>3 DEF RunState
  <2> HIDE DEF next
  <2>5. GoesOn(r, next)
    BY <1>1, <2>4 DEF GoesOn
  <2> QED BY <1>1, <1>2, <2>1, <2>2, <2>4, <2>5, FreeWrite
<1>6. CASE Skip(r)
  <2>1. Write(r, b, WithStatus(row, e, "SKIPPED"), Dropping(r, e))
    BY <1>6 DEF Skip
  <2> QED BY <1>1, <1>2, <1>3, <1>4, <2>1, StatusFields, FreeWrite
<1>7. CASE Latch(r)
  <2> DEFINE new == [row EXCEPT !.complete = run[r].full]
             next == [run[r] EXCEPT !.at = "mark", !.full = FALSE]
  <2>1. Write(r, b, new, next)
    BY <1>7 DEF Latch
  <2>2. /\ new.paid = row.paid /\ new.balance = row.balance /\ new.funded = row.funded
        /\ new.fill = row.fill
    BY <1>2 DEF BudgetRow
  <2>3. /\ next \in RunState /\ next.fresh = {} /\ next.wrote = run[r].wrote
        /\ next.draft = run[r].draft /\ next.open = run[r].open
    BY <1>1, <1>2 DEF RunState, Processing
  <2> HIDE DEF new, next
  <2>4. GoesOn(r, next)
    BY <1>1, <2>3 DEF GoesOn
  <2> QED BY <1>1, <1>2, <2>1, <2>2, <2>3, <2>4, FreeWrite
<1>8. CASE Mark(r)
  <2> DEFINE seen == IF e.kind = "fund" /\ plan[b].type # "recurring" THEN Refreshed(r, b)
                     ELSE run[r].paused
             next == [run[r] EXCEPT !.at = "advance", !.paused = seen]
  <2>1. Write(r, b, WithStatus(row, e, "COMPLETE"), next)
    BY <1>8 DEF Mark
  <2>2. seen \in SUBSET Budgets
    BY <1>2 DEF Refreshed, RunState
  <2> HIDE DEF seen
  <2>3. /\ next \in RunState /\ next.fresh = {} /\ next.wrote = run[r].wrote
        /\ next.draft = run[r].draft /\ next.open = run[r].open
    BY <1>1, <1>2, <2>2 DEF RunState, Processing
  <2> HIDE DEF next
  <2>4. GoesOn(r, next)
    BY <1>1, <2>3 DEF GoesOn
  <2> QED BY <1>1, <1>2, <2>1, <2>3, <2>4, StatusFields, FreeWrite
<1>9. CASE Advance(r)
  <2> DEFINE new == [row EXCEPT !.last[e.kind] = e.day]
  <2>1. Write(r, b, new, Dropping(r, e))
    BY <1>9 DEF Advance
  <2>2. /\ new.paid = row.paid /\ new.balance = row.balance /\ new.funded = row.funded
        /\ new.fill = row.fill
    BY <1>2 DEF BudgetRow
  <2> HIDE DEF new
  <2> QED BY <1>1, <1>2, <1>3, <1>4, <2>1, <2>2, FreeWrite
<1> QED BY <1>5, <1>6, <1>7, <1>8, <1>9

\* What a payment does to what it fills, and to what it does not.
LEMMA FundedLevels ==
  ASSUME plan \in Plans, NEW b \in Budgets, NEW row \in BudgetRow, NEW e \in Events,
         e.kind = "fund", NEW n \in Nat
  PROVE  LET new == FundedBy(b, row, e, n)
         IN  /\ \A k \in Kinds, x \in Days :
                  new.paid[k][x] = IF k = "fund" /\ x = e.day THEN row.paid[k][x] + n
                                   ELSE row.paid[k][x]
             /\ Level(new, b, "fund") = Level(row, b, "fund") + n
             /\ plan[b].type = "recurring" => new.balance = row.balance
             /\ plan[b].type # "recurring" => new.fill = row.fill
<1> DEFINE paid == [row EXCEPT !.paid.fund[e.day] = @ + n]
           new == FundedBy(b, row, e, n)
<1>1. e.day \in Days /\ row.paid \in [Kinds -> [Days -> Nat]]
  BY EventParts DEF BudgetRow
<1>2. /\ paid.paid = [row.paid EXCEPT !["fund"][e.day] = row.paid["fund"][e.day] + n]
      /\ paid.balance = row.balance /\ paid.fill = row.fill /\ paid.funded = row.funded
      /\ DOMAIN paid = DOMAIN row
  BY DEF BudgetRow
<1>3. \A k \in Kinds, x \in Days :
        paid.paid[k][x] = IF k = "fund" /\ x = e.day THEN row.paid[k][x] + n ELSE row.paid[k][x]
  BY <1>1, <1>2 DEF Kinds
<1>4. paid \in BudgetRow
  <2>1. paid.paid \in [Kinds -> [Days -> Nat]]
    BY <1>1, <1>2 DEF Kinds
  <2> QED BY <2>1 DEF BudgetRow
<1>5. CASE plan[b].type = "recurring"
  <2>1. new = [paid EXCEPT !.fill = @ + n]
    BY <1>5 DEF FundedBy
  <2> HIDE DEF new, paid
  <2>2. new.paid = paid.paid /\ new.balance = paid.balance /\ new.fill = paid.fill + n
    BY <1>4, <2>1 DEF BudgetRow
  <2>3. Level(new, b, "fund") = Level(row, b, "fund") + n
    BY <1>2, <1>5, <2>2 DEF Level
  <2> QED BY <1>2, <1>3, <1>5, <2>2, <2>3 DEF new
<1>6. CASE plan[b].type = "capped"
  <2>1. new = [paid EXCEPT !.balance = @ + n]
    BY <1>6 DEF FundedBy
  <2> HIDE DEF new, paid
  <2>2. new.paid = paid.paid /\ new.balance = paid.balance + n /\ new.fill = paid.fill
    BY <1>4, <2>1 DEF BudgetRow
  <2>3. Level(new, b, "fund") = Level(row, b, "fund") + n
    BY <1>2, <1>6, <2>2 DEF Level
  <2> QED BY <1>2, <1>3, <1>6, <2>2, <2>3 DEF new
<1>7. CASE plan[b].type = "goal"
  <2> DEFINE complete == paid.complete \/ Reached(b, row.funded + n)
  <2>1. new = [paid EXCEPT !.balance = @ + n, !.funded = @ + n, !.complete = complete]
    BY <1>7 DEF FundedBy
  <2> HIDE DEF new, paid, complete
  <2>2. new.paid = paid.paid /\ new.funded = paid.funded + n /\ new.fill = paid.fill
    BY <1>4, <2>1 DEF BudgetRow
  <2>3. Level(new, b, "fund") = Level(row, b, "fund") + n
    BY <1>2, <1>7, <2>2 DEF Level
  <2> QED BY <1>2, <1>3, <1>7, <2>2, <2>3 DEF new
<1> QED BY <1>5, <1>6, <1>7, PlanType DEF Types

\* _process_fund_event
LEMMA PayFundFills ==
  ASSUME FillInv, FundingInv', NEW r \in Runs, PayFund(r)
  PROVE  FillInv' /\ PaysWithin
<1> DEFINE e == Current(r)
           b == e.budget
           row == Row(r, b)
           n == Net(b, row, "fund", e.day)
           new == IF n = 0 THEN Completed(row, e) ELSE FundedBy(b, row, e, n)
           base == IF n = 0 THEN Dropping(r, e) ELSE [run[r] EXCEPT !.at = "mark"]
           drew == r \in Requests
           next == [base EXCEPT !.paused = Refreshed(r, b), !.drew = drew]
           S == run[r].fresh \union run[r].open
<1>1. run[r].open # {} /\ run[r].fresh = {} /\ plan \in Plans
  BY RunType DEF PayFund, FillInv, FundingInv, TypeOK, Processing
<1>2. /\ run[r] \in RunState /\ e \in S /\ e \in Events /\ b \in Budgets /\ row \in BudgetRow
      /\ \A f \in S : f.budget = b /\ f.kind = e.kind => e.day <= f.day
  BY <1>1, AtEvent
<1>3. Write(r, b, new, next) /\ e.kind = "fund"
  BY DEF PayFund
<1>4. Refreshed(r, b) \in SUBSET Budgets /\ drew \in BOOLEAN
  BY <1>2 DEF Refreshed, RunState
<1>5. e.day \in Days /\ n \in Nat
  <2>1. e.day \in Days
    BY <1>2, EventParts
  <2> QED BY <1>1, <1>2, <2>1, NetBounds DEF Kinds
<1>6. /\ base \in RunState /\ base.fresh = {} /\ base.wrote = run[r].wrote
      /\ base.draft = run[r].draft /\ base.open \subseteq run[r].open
  BY <1>1, <1>2 DEF Dropping, RunState, Processing
<1> HIDE DEF base, drew
<1>7. /\ next \in RunState /\ next.fresh = {} /\ next.wrote = run[r].wrote
      /\ next.draft = run[r].draft /\ next.open \subseteq run[r].open
  BY <1>4, <1>6 DEF RunState
<1> HIDE DEF next
<1>8. GoesOn(r, next)
  BY <1>1, <1>7 DEF GoesOn
<1>9. CASE n = 0
  <2>1. new = Completed(row, e)
    BY <1>9
  <2>2. /\ new.paid = row.paid /\ new.balance = row.balance /\ new.funded = row.funded
        /\ new.fill = row.fill
    BY <1>2, <2>1 DEF Completed, WithStatus, BudgetRow
  <2> HIDE DEF new, n
  <2> QED BY <1>1, <1>2, <1>3, <1>7, <1>8, <2>2, FreeWrite
<1>10. CASE n # 0
  <2>1. new = FundedBy(b, row, e, n) /\ n \in Nat \ {0}
    BY <1>5, <1>10
  <2>2. /\ \A k \in Kinds, x \in Days :
             new.paid[k][x] = IF k = e.kind /\ x = e.day THEN row.paid[k][x] + n ELSE row.paid[k][x]
        /\ Level(new, b, e.kind) = Level(row, b, e.kind) + n
        /\ plan[b].type = "recurring" => new.balance = row.balance
        /\ plan[b].type # "recurring" => new.fill = row.fill
    BY <1>1, <1>2, <1>3, <2>1, FundedLevels
  <2>3. plan[b].type = "recurring" =>
          \A k \in Kinds : k # e.kind => Level(new, b, k) <= Level(row, b, k)
    <3>1. row.balance <= row.balance
      BY <1>2 DEF BudgetRow
    <3> QED BY <1>3, <2>2, <3>1 DEF Level, Kinds
  <2>4. new \in BudgetRow
    <3>1. Sound(b, row)
      BY <1>2, RowSound DEF FillInv
    <3>2. plan[b].amount > 0 => row.paid["fund"][e.day] + n <= plan[b].amount
      <4>1. plan[b].amount > 0 => row.paid["fund"][e.day] <= plan[b].amount
        BY <1>5, <3>1 DEF Sound, Within
      <4> HIDE DEF row, e
      <4> QED BY <1>1, <1>2, <1>5, <4>1, NetBounds DEF Kinds
    <3> QED BY <1>1, <1>2, <1>5, <2>1, <3>1, <3>2, FundedBySound DEF Sound
  <2>5. \/ \E x \in Days : x > e.day /\ row.paid[e.kind][x] > 0
        \/ Level(row, b, e.kind) + n <= plan[b].target
    <3>1. Net(b, row, e.kind, e.day) = n /\ Net(b, row, e.kind, e.day) > 0
      BY <1>3, <2>1
    <3>2. e.kind \in Kinds
      BY <1>3 DEF Kinds
    <3> HIDE DEF n, row, e
    <3> QED BY <1>1, <1>2, <1>5, <3>1, <3>2, NetFills
  <2>7. Filled(b, budget[b], row) /\ Plain(b, row) /\ Ahead(b, budget[b], row, S)
    BY <1>2, RowFilled
  <2> DEFINE T == next.fresh \union next.open
  <2>8. T \in SUBSET S
    BY <1>1, <1>7
  <2> HIDE DEF new, n, S, T, row, e
  <2>9. ComesNext(b, S, e)
    BY <1>2 DEF ComesNext
  <2>10. Pays(b, e, n, row, new)
    BY <1>2, <1>3, <2>1, <2>2, <2>3, <2>4, <2>5 DEF Pays
  <2>11. Filled(b, budget[b], new) /\ Plain(b, new) /\ Ahead(b, budget[b], new, T)
    BY <1>1, <1>2, <2>7, <2>8, <2>9, <2>10, Paid
  <2> QED BY <1>2, <1>3, <1>7, <1>8, <2>11, RowWritten DEF T
<1> QED BY <1>9, <1>10

\* _process_recur_event
LEMMA PayRecurFills ==
  ASSUME FillInv, FundingInv', NEW r \in Runs, PayRecur(r)
  PROVE  FillInv' /\ PaysWithin
<1> DEFINE e == Current(r)
           b == e.budget
           row == Row(r, b)
           n == Sweep(b, row, e.day)
           full == row.balance + n >= plan[b].target
           complete == n > 0 /\ Reached(b, row.balance + n)
           new == [row EXCEPT !.paid.recur[e.day] = @ + n, !.balance = @ + n,
                              !.fill = @ - n, !.complete = complete]
           next == [run[r] EXCEPT !.at = "latch", !.full = full, !.paused = Refreshed(r, b)]
           S == run[r].fresh \union run[r].open
<1>1. run[r].open # {} /\ run[r].fresh = {} /\ plan \in Plans
  BY RunType DEF PayRecur, FillInv, FundingInv, TypeOK, Processing
<1>2. /\ run[r] \in RunState /\ e \in S /\ e \in Events /\ b \in Budgets /\ row \in BudgetRow
      /\ \A f \in S : f.budget = b /\ f.kind = e.kind => e.day <= f.day
  BY <1>1, AtEvent
<1>3. Write(r, b, new, next) /\ e.kind = "recur"
  BY DEF PayRecur
<1>4. Refreshed(r, b) \in SUBSET Budgets /\ full \in BOOLEAN /\ complete \in BOOLEAN
  BY <1>2 DEF Refreshed, Reached, RunState
<1>5. e.day \in Days /\ n \in Nat /\ row.fill \in Int /\ row.balance \in Int
      /\ Net(b, row, "recur", e.day) \in Nat
      /\ (n > 0 => n <= row.fill /\ n <= Net(b, row, "recur", e.day))
  <2>1. e.day \in Days
    BY <1>2, EventParts
  <2>2. row.fill \in Int /\ row.balance \in Int
    BY <1>2 DEF BudgetRow
  <2>3. Net(b, row, "recur", e.day) \in Nat
    BY <1>1, <1>2, <2>1, NetBounds DEF Kinds
  <2>4. n = Largest(0, Least(Net(b, row, "recur", e.day), row.fill))
    BY DEF Sweep
  <2> HIDE DEF n, row, e
  <2> QED BY <2>1, <2>2, <2>3, <2>4 DEF Largest, Least
<1> HIDE DEF full, complete, n
<1>6. /\ next \in RunState /\ next.fresh = {} /\ next.wrote = run[r].wrote
      /\ next.draft = run[r].draft /\ next.open = run[r].open
  BY <1>1, <1>2, <1>4 DEF RunState, Processing
<1> HIDE DEF next
<1>7. GoesOn(r, next)
  BY <1>1, <1>6 DEF GoesOn
<1>8. /\ new \in BudgetRow /\ new.balance = row.balance + n /\ new.fill = row.fill - n
      /\ new.funded = row.funded
      /\ \A k \in Kinds, x \in Days :
           new.paid[k][x] = IF k = "recur" /\ x = e.day THEN row.paid[k][x] + n ELSE row.paid[k][x]
  <2> DEFINE paid == [row.paid EXCEPT !["recur"][e.day] = @ + n]
             balance == row.balance + n
             fill == row.fill - n
  <2>1. row.paid \in [Kinds -> [Days -> Nat]]
    BY <1>2 DEF BudgetRow
  <2>2. /\ paid \in [Kinds -> [Days -> Nat]]
        /\ \A k \in Kinds, x \in Days :
             paid[k][x] = IF k = "recur" /\ x = e.day THEN row.paid[k][x] + n ELSE row.paid[k][x]
    BY <1>5, <2>1 DEF Kinds
  <2>3. balance \in Int /\ fill \in Int
    BY <1>5
  <2>4. new = [row EXCEPT !.paid = paid, !.balance = balance, !.fill = fill, !.complete = complete]
    BY <1>2 DEF BudgetRow
  <2>5. \A w, x, y : /\ [row EXCEPT !.paid = w, !.balance = x, !.fill = y, !.complete = complete].paid = w
                     /\ [row EXCEPT !.paid = w, !.balance = x, !.fill = y, !.complete = complete].balance = x
                     /\ [row EXCEPT !.paid = w, !.balance = x, !.fill = y, !.complete = complete].fill = y
                     /\ [row EXCEPT !.paid = w, !.balance = x, !.fill = y, !.complete = complete].funded = row.funded
    BY <1>2 DEF BudgetRow
  <2>6. [row EXCEPT !.paid = paid, !.balance = balance, !.fill = fill, !.complete = complete] \in BudgetRow
    <3> HIDE DEF paid, balance, fill
    <3> QED BY <1>2, <1>4, <2>2, <2>3 DEF BudgetRow
  <2>7. new.paid = paid /\ new.balance = balance /\ new.fill = fill /\ new.funded = row.funded
    BY <2>4, <2>5
  <2> HIDE DEF new
  <2> QED BY <2>2, <2>4, <2>6, <2>7
<1> HIDE DEF new
<1>9. CASE n = 0
  <2>1. new.balance = row.balance /\ new.fill = row.fill
    BY <1>5, <1>8, <1>9
  <2>2. new.paid = row.paid
    <3>1. new.paid \in [Kinds -> [Days -> Nat]] /\ row.paid \in [Kinds -> [Days -> Nat]]
      BY <1>2, <1>8 DEF BudgetRow
    <3>2. \A k \in Kinds, x \in Days : new.paid[k][x] = row.paid[k][x]
      BY <1>8, <1>9, <3>1
    <3>3. \A k \in Kinds : new.paid[k] = row.paid[k]
      BY <3>1, <3>2
    <3> QED BY <3>1, <3>3
  <2> QED BY <1>1, <1>2, <1>3, <1>6, <1>7, <1>8, <2>1, <2>2, FreeWrite
<1>10. CASE n # 0
  <2>1. n \in Nat \ {0} /\ n > 0
    BY <1>5, <1>10
  <2>2. Filled(b, budget[b], row) /\ Plain(b, row) /\ Ahead(b, budget[b], row, S)
    BY <1>2, RowFilled
  <2>3. plan[b].type = "recurring"
    BY <1>5, <2>1, <2>2 DEF Plain
  <2>4. Level(new, b, e.kind) = Level(row, b, e.kind) + n
    BY <1>3, <1>8 DEF Level
  <2>5. \A k \in Kinds : k # e.kind => Level(new, b, k) <= Level(row, b, k)
    <3>1. row.fill - n <= row.fill
      BY <1>5
    <3> QED BY <1>3, <1>8, <2>3, <3>1 DEF Level, Kinds
  <2>6. e.kind \in Kinds /\ Level(row, b, e.kind) = row.balance
    BY <1>3 DEF Kinds, Level
  <2>7. plan[b].target \in Nat
    BY <1>1, <1>2, PlanType
  <2>8. \/ \E x \in Days : x > e.day /\ row.paid[e.kind][x] > 0
        \/ Level(row, b, e.kind) + Net(b, row, e.kind, e.day) <= plan[b].target
    <3>1. Net(b, row, e.kind, e.day) > 0
      BY <1>3, <1>5, <2>1
    <3> HIDE DEF row, e
    <3> QED BY <1>1, <1>2, <1>5, <2>6, <3>1, NetFills
  <2>9. \/ \E x \in Days : x > e.day /\ row.paid[e.kind][x] > 0
        \/ Level(row, b, e.kind) + n <= plan[b].target
    BY <1>3, <1>5, <2>1, <2>6, <2>7, <2>8
  <2> DEFINE T == next.fresh \union next.open
  <2>11. T \in SUBSET S
    BY <1>6
  <2>12. \A k \in Kinds, x \in Days :
           new.paid[k][x] = IF k = e.kind /\ x = e.day THEN row.paid[k][x] + n ELSE row.paid[k][x]
    BY <1>3, <1>8
  <2> HIDE DEF S, T, row, e
  <2>13. ComesNext(b, S, e)
    BY <1>2 DEF ComesNext
  <2>14. Pays(b, e, n, row, new)
    BY <1>2, <1>3, <1>8, <2>1, <2>3, <2>4, <2>5, <2>9, <2>12 DEF Pays
  <2>15. Filled(b, budget[b], new) /\ Plain(b, new) /\ Ahead(b, budget[b], new, T)
    BY <1>1, <1>2, <2>2, <2>11, <2>13, <2>14, Paid
  <2> QED BY <1>2, <1>3, <1>6, <1>7, <2>15, RowWritten DEF T
<1> QED BY <1>9, <1>10

\* The end of a request's transaction: what it committed, nobody else had written.
LEMMA CommitFills ==
  ASSUME FillInv, FundingInv', NEW r \in Runs, Commit(r)
  PROVE  FillInv' /\ PaysWithin
<1>1. /\ run' = [run EXCEPT ![r] = Idle] /\ budget' = [b \in Budgets |-> Row(r, b)] /\ plan' = plan
  BY DEF Commit
<1>2. /\ \A q \in Runs : run'[q] = IF q = r THEN Idle ELSE run[q]
      /\ \A b \in Budgets : budget'[b] = Row(r, b)
      /\ \A q \in Runs : run[q].wrote \in SUBSET Budgets
  BY <1>1 DEF FillInv, FundingInv, TypeOK, RunState
<1>3. Idle.wrote = {} /\ Idle.at = "idle"
  BY DEF Idle
<1>4. PaysWithin
  BY <1>2, RowFilled DEF PaysWithin
<1>5. \A q \in Tasks : run'[q].wrote = {}
  BY <1>2, <1>3 DEF FillInv, Runs
<1>6. \A q \in Runs : \A o \in Runs \ {q} : run'[q].wrote \cap run'[o].wrote = {}
  BY <1>2, <1>3 DEF FillInv
<1>7. \A q \in Runs : run'[q].at \in Processing => run'[q].fresh = {}
  BY <1>2, <1>3 DEF FillInv, Processing
<1>8. \A b \in Budgets : Plain(b, budget[b])'
  BY <1>1, <1>2, RowFilled DEF Plain
<1>9. ASSUME NEW q \in Runs, NEW b \in run'[q].wrote
      PROVE  /\ Plain(b, run[q].draft[b])' /\ Filled(b, budget[b], run[q].draft[b])'
             /\ Ahead(b, budget[b], run[q].draft[b], run[q].fresh \union run[q].open)'
  <2>1. q # r /\ run'[q] = run[q] /\ b \in run[q].wrote /\ b \in Budgets
    BY <1>2, <1>3, <1>9
  <2>2. b \notin run[r].wrote
    BY <2>1 DEF FillInv
  <2>3. budget'[b] = budget[b]
    BY <1>2, <2>1, <2>2 DEF Row
  <2>4. /\ Plain(b, run[q].draft[b]) /\ Filled(b, budget[b], run[q].draft[b])
        /\ Ahead(b, budget[b], run[q].draft[b], run[q].fresh \union run[q].open)
    BY <2>1 DEF FillInv
  <2> QED BY <1>1, <2>1, <2>3, <2>4 DEF Plain, Filled, Level, Ahead
<1> QED BY <1>4, <1>5, <1>6, <1>7, <1>8, <1>9 DEF FillInv

LEMMA BeginFills ==
  ASSUME FillInv, FundingInv', NEW r \in Runs, NEW kinds, NEW day, Begin(r, kinds, day)
  PROVE  FillInv' /\ PaysWithin
<1> DEFINE due == UNION {Due(b, k, day) : b \in Budgets, k \in kinds}
           paused == {b \in Budgets : budget[b].paused}
           next == [Idle EXCEPT !.at = "list", !.fresh = due, !.paused = paused]
<1>1. run' = [run EXCEPT ![r] = next] /\ UNCHANGED <<plan, budget>>
  BY DEF Begin
<1> HIDE DEF due, paused
<1>2. GoesOn(r, next)
  BY DEF GoesOn, Idle, Processing
<1> QED BY <1>1, <1>2, NothingWritten

LEMMA RestFills ==
  ASSUME FillInv, FundingInv', NEW r \in Runs, Finish(r) \/ Crash(r)
  PROVE  FillInv' /\ PaysWithin
<1> DEFINE done == [run[r] EXCEPT !.at = "done", !.paused = {}]
<1>1. run[r] \in RunState
  BY DEF FillInv, FundingInv, TypeOK
<1>2. GoesOn(r, Idle)
  BY DEF GoesOn, Idle, Processing
<1>3. GoesOn(r, done)
  BY <1>1 DEF GoesOn, RunState, Processing
<1>4. (run' = [run EXCEPT ![r] = Idle] \/ run' = [run EXCEPT ![r] = done]) /\ UNCHANGED <<plan, budget>>
  BY DEF Finish, Crash
<1> HIDE DEF done
<1> QED BY <1>2, <1>3, <1>4, NothingWritten

\* A user's write waits for the requests that have written the budget.
LEMMA UserFills ==
  ASSUME FillInv, FundingInv', NEW b \in Budgets, NEW row \in BudgetRow,
         row.paid = budget[b].paid, Plain(b, row), UserWrites(b, row)
  PROVE  FillInv' /\ PaysWithin
<1> DEFINE new == [row EXCEPT !.complete = @ \/ (plan[b].type = "recurring" /\ Reached(b, row.balance))]
<1>1. budget' = [budget EXCEPT ![b] = new] /\ plan' = plan /\ run' = run /\ Free(b)
  BY DEF UserWrites
<1>2. new.paid = budget[b].paid /\ new.fill = row.fill
  BY DEF BudgetRow
<1> HIDE DEF new
<1>3. \A c \in Budgets : budget'[c] = IF c = b THEN new ELSE budget[c]
  BY <1>1 DEF FillInv, FundingInv, TypeOK
<1>4. PaysWithin
  BY <1>2, <1>3 DEF PaysWithin, Filled
<1>5. \A c \in Budgets : Plain(c, budget[c])'
  BY <1>1, <1>2, <1>3 DEF FillInv, Plain
<1>6. ASSUME NEW q \in Runs, NEW c \in run'[q].wrote
      PROVE  /\ Plain(c, run[q].draft[c])' /\ Filled(c, budget[c], run[q].draft[c])'
             /\ Ahead(c, budget[c], run[q].draft[c], run[q].fresh \union run[q].open)'
  <2>1. c \in run[q].wrote /\ c # b /\ c \in Budgets
    BY <1>1, <1>6 DEF Free, FillInv, FundingInv, TypeOK, RunState
  <2>2. budget'[c] = budget[c]
    BY <1>3, <2>1
  <2>3. /\ Plain(c, run[q].draft[c]) /\ Filled(c, budget[c], run[q].draft[c])
        /\ Ahead(c, budget[c], run[q].draft[c], run[q].fresh \union run[q].open)
    BY <2>1 DEF FillInv
  <2> QED BY <1>1, <2>2, <2>3 DEF Plain, Filled, Level, Ahead
<1> QED BY <1>1, <1>4, <1>5, <1>6 DEF FillInv

LEMMA UserActFills ==
  ASSUME FillInv, FundingInv', NEW b \in Budgets, UserAct(b)
  PROVE  FillInv' /\ PaysWithin
<1> DEFINE row == budget[b]
<1>1. row \in BudgetRow /\ today \in Days /\ Plain(b, row)
  BY DEF FillInv, FundingInv, TypeOK
<1>2. row.balance \in Int /\ row.funded \in Int /\ row.fill \in Int /\ row.complete \in BOOLEAN
  BY <1>1 DEF BudgetRow
<1>3. ASSUME NEW n \in {-1, 1}, Allocate(b, n)
      PROVE  FillInv' /\ PaysWithin
  <2> DEFINE new == [row EXCEPT !.balance = @ + n]
  <2>1. UserWrites(b, new)
    BY <1>3 DEF Allocate
  <2>2. new \in BudgetRow /\ new.paid = row.paid /\ new.fill = row.fill
    BY <1>1, <1>2 DEF BudgetRow
  <2> HIDE DEF new
  <2> QED BY <1>1, <2>1, <2>2, UserFills DEF Plain
<1>4. ASSUME NEW n \in {-1, 1}, UserTransfer(b, n)
      PROVE  FillInv' /\ PaysWithin
  <2> DEFINE complete == row.complete \/ (n > 0 /\ Reached(b, row.funded + n))
             balance == row.balance + n
             funded == row.funded + n
             new == [row EXCEPT !.balance = balance, !.funded = funded, !.complete = complete]
  <2>1. UserWrites(b, new)
    BY <1>4 DEF UserTransfer
  <2>2. complete \in BOOLEAN /\ balance \in Int /\ funded \in Int
    BY <1>2
  <2> HIDE DEF complete, balance, funded
  <2>3. new \in BudgetRow /\ new.paid = row.paid /\ new.fill = row.fill
    BY <1>1, <2>2 DEF BudgetRow
  <2> HIDE DEF new
  <2> QED BY <1>1, <2>1, <2>3, UserFills DEF Plain
<1>5. ASSUME NEW n \in {-1, 1}, MoveFill(b, n)
      PROVE  FillInv' /\ PaysWithin
  <2> DEFINE new == [row EXCEPT !.fill = @ + n]
  <2>1. UserWrites(b, new) /\ plan[b].type = "recurring"
    BY <1>5 DEF MoveFill
  <2>2. new \in BudgetRow /\ new.paid = row.paid
    BY <1>1, <1>2 DEF BudgetRow
  <2> HIDE DEF new
  <2> QED BY <2>1, <2>2, UserFills DEF Plain
<1>6. CASE Switch(b)
  <2> DEFINE last == [k \in Kinds |-> today - 1]
             resumed == [row EXCEPT !.paused = FALSE, !.last = last]
             paused == [row EXCEPT !.paused = TRUE]
             new == IF row.paused THEN resumed ELSE paused
  <2>1. UserWrites(b, new)
    BY <1>6 DEF Switch
  <2>2. last \in [Kinds -> 0..LastDay]
    BY <1>1, DaysAssumption DEF Days
  <2> HIDE DEF last
  <2>3. /\ resumed \in BudgetRow /\ resumed.paid = row.paid /\ resumed.fill = row.fill
        /\ paused \in BudgetRow /\ paused.paid = row.paid /\ paused.fill = row.fill
    BY <1>1, <2>2 DEF BudgetRow
  <2> HIDE DEF resumed, paused
  <2> QED BY <1>1, <2>1, <2>3, UserFills DEF Plain
<1>7. CASE Archive(b)
  <2> DEFINE drained == Largest(0, row.balance)
             balance == row.balance - drained
             funded == IF plan[b].type = "goal" THEN row.funded - drained ELSE row.funded
             fill == Least(0, row.fill)
             new == [row EXCEPT !.archived = TRUE, !.balance = balance, !.funded = funded,
                                !.fill = fill]
  <2>1. UserWrites(b, new)
    BY <1>7 DEF Archive
  <2>2. balance \in Int /\ funded \in Int /\ fill \in Int /\ fill <= 0
    BY <1>2 DEF Largest, Least
  <2> HIDE DEF balance, funded, fill
  <2>3. new \in BudgetRow /\ new.paid = row.paid /\ new.fill = fill
    BY <1>1, <2>2 DEF BudgetRow
  <2> HIDE DEF new
  <2> QED BY <2>1, <2>2, <2>3, UserFills DEF Plain
<1> QED BY <1>3, <1>4, <1>5, <1>6, <1>7 DEF UserAct

LEMMA FillInit == Init => FillInv
<1> SUFFICES ASSUME Init PROVE FillInv
    OBVIOUS
<1>1. \A r \in Runs : run[r] = Idle
  BY DEF Init
<1>2. \A b \in Budgets : Plain(b, budget[b])
  BY DEF Init, Plain, Created
<1> QED BY <1>1, <1>2, FundingInit DEF FillInv, Idle, Processing, Runs

LEMMA FillStep == FillInv /\ [Next]_vars => FillInv' /\ PaysWithin
<1> SUFFICES ASSUME FillInv, [Next]_vars PROVE FillInv' /\ PaysWithin
    OBVIOUS
<1>1. FundingInv'
  BY FundingStep DEF FillInv
<1>2. ASSUME NEW r \in Runs, \E a \in Scheduled \union Asked : Begin(r, a[1], a[2])
      PROVE  FillInv' /\ PaysWithin
  BY <1>1, <1>2, BeginFills
<1>3. ASSUME NEW r \in Runs, Step(r)
      PROVE  FillInv' /\ PaysWithin
  BY <1>1, <1>3, InstantiateFills, EventWrites, PayFundFills, PayRecurFills, RestFills, CommitFills
     DEF Step
<1>4. ASSUME NEW r \in Runs, Crash(r)
      PROVE  FillInv' /\ PaysWithin
  BY <1>1, <1>4, RestFills
<1>5. ASSUME NEW b \in Budgets, UserAct(b)
      PROVE  FillInv' /\ PaysWithin
  BY <1>1, <1>5, UserActFills
<1>6. CASE NextDay \/ UNCHANGED vars
  <2>1. UNCHANGED <<plan, budget, run>>
    BY <1>6 DEF NextDay, vars
  <2>2. PaysWithin
    BY <2>1, FilledSame DEF PaysWithin
  <2> QED BY <1>1, <2>1, <2>2 DEF FillInv, Plain, Filled, Level, Ahead
<1> QED BY <1>2, <1>3, <1>4, <1>5, <1>6 DEF Next

\* A transfer does not take what it fills above the target, whatever users and earlier
\* attempts did, in runs and requests that die and run again -- unless a later event of
\* the kind was paid first: state_at_start_of_D and already_moved are measured under the
\* budget's lock, and no strategy intends more than the gap.
THEOREM NoOvershootCorrect == Spec => NoOvershoot
<1>1. FillInv /\ [Next]_vars => [\A b \in Budgets, k \in Kinds, d \in Days :
        \/ budget'[b].paid[k][d] = budget[b].paid[k][d]
        \/ \E x \in Days : x > d /\ budget'[b].paid[k][x] > 0
        \/ Level(budget'[b], b, k) <= plan[b].target]_vars
  BY FillStep DEF PaysWithin, Filled
<1>2. FillInv /\ [Next]_vars => FillInv'
  BY FillStep
<1> QED BY <1>1, <1>2, FillInit, PTL DEF Spec, NoOvershoot
=============================================================================
