------------------------------ MODULE Imports ------------------------------
(***************************************************************************)
(* How one account follows its bank: scrapes of the bank's page, saved and *)
(* posted to sync-scrape late, again or never (service/sync_scrape.py,     *)
(* importers/import_bofa_live.py and import_bofa_saved.py), and statement  *)
(* files that a command-line client posts row by row after it has read     *)
(* what is there (importers/import_transactions.py).                       *)
(*                                                                         *)
(* The bank moves a charge from pending to posted, perhaps at another      *)
(* amount, or drops it.  No id ties what it shows to a stored row: a       *)
(* scrape replaces every pending row and recognises a posted one by date,  *)
(* amount and description, which the bank's page may cut short.            *)
(*                                                                         *)
(* sync_scrape and transaction.create run under the account's lock in one  *)
(* transaction each (RowLocks): here each is one step.                     *)
(***************************************************************************)
EXTENDS Integers, Sequences, FiniteSets, SequencesExt

CONSTANTS
  Listing,     \* the kinds of charges, as the bank lists them: newest first
  Count,       \* how many charges of a kind there can be: of the same date,
               \* amount and description
  Stem,        \* date, amount and what is left of the description if it is cut
  Day,         \* the transaction date
  Authorised,  \* the amount while pending
  Amount,      \* the amount once posted
  Long,        \* the kinds whose description the bank's page may cut
  Opening,     \* the account's opening balance
  MaxRows      \* bound: rows of the account

Kinds == Range(Listing)

ASSUME ListingAssumption ==
  /\ Listing \in Seq(Kinds) /\ Cardinality(Kinds) = Len(Listing)
  /\ Count \in [Kinds -> Nat] /\ Day \in [Kinds -> Nat] /\ Long \subseteq Kinds
ASSUME AmountAssumption ==
  /\ Authorised \in [Kinds -> Int] /\ Amount \in [Kinds -> Int]
  /\ DOMAIN Stem = Kinds
  /\ \A j, k \in Kinds : Stem[j] = Stem[k] => Day[j] = Day[k] /\ Amount[j] = Amount[k]
ASSUME BoundsAssumption == Opening \in Int /\ MaxRows \in Nat

VARIABLES
  waiting,    \* how many charges of a kind the bank shows as pending
  settled,    \* how many as posted
  rows,       \* the account's transactions, as created
  available,  \* the account's available_balance
  posted,     \* its posted_balance
  unalloc,    \* the balance of its Unallocated budget
  report,     \* what a sync has just left: its page, the balance_mismatch it
              \* reports and the balances it stored on the rows
  client,     \* the statement importer: kinds to import, and how many rows of
              \* each it knows of
  raced       \* a scrape inserted rows that the importer did not know of (history)

bank == <<waiting, settled>>
account == <<rows, available, posted, unalloc>>
vars == <<bank, account, report, client, raced>>

NoReport == [mismatch |-> "none"]
Idle == [todo |-> <<>>, have |-> [k \in Kinds |-> 0]]

AmountOf(r) == IF r.pending THEN Authorised[r.kind] ELSE Amount[r.kind]
\* The amounts of s at the places in I.
SumOf(s, I) ==
  LET sum[i \in 0..Len(s)] ==
        IF i = 0 THEN 0 ELSE sum[i - 1] + IF i \in I THEN AmountOf(s[i]) ELSE 0
  IN  sum[Len(s)]
Total(s) == SumOf(s, DOMAIN s)
Settled(s) == {i \in DOMAIN s : ~s[i].pending}

\* What s has at the places in I, in its order.
Kept(s, I) ==
  LET part[i \in 0..Len(s)] ==
        IF i = 0 THEN <<>>
        ELSE IF i \in I THEN Append(part[i - 1], s[i]) ELSE part[i - 1]
  IN  part[Len(s)]

\* What start becomes when the part of each kind is appended, the oldest kind first.
Oldest(i) == Listing[Len(Listing) + 1 - i]
FromOldest(start, part) ==
  LET all[i \in 0..Len(Listing)] ==
        IF i = 0 THEN start ELSE all[i - 1] \o part[Oldest(i)]
  IN  all[Len(Listing)]

-----------------------------------------------------------------------------
(* The bank, and who looks at it.                                          *)

Authorise(k) ==
  /\ waiting[k] + settled[k] < Count[k]
  /\ waiting' = [waiting EXCEPT ![k] = @ + 1]
  /\ UNCHANGED <<settled, account, client, raced, report>>

Settle(k) ==
  /\ waiting[k] > 0
  /\ waiting' = [waiting EXCEPT ![k] = @ - 1]
  /\ settled' = [settled EXCEPT ![k] = @ + 1]
  /\ UNCHANGED <<account, client, raced, report>>

DropCharge(k) ==
  /\ waiting[k] > 0
  /\ waiting' = [waiting EXCEPT ![k] = @ - 1]
  /\ UNCHANGED <<settled, account, client, raced, report>>

\* The page as it is now, the descriptions of the kinds in C cut.
Cuttable == {k \in Long : settled[k] > 0}
Page(C) == [settled |-> settled, waiting |-> waiting, cut |-> C]
Ending(s) ==
  Opening + SumFunctionOnSet(
    [k \in Kinds |-> s.settled[k] * Amount[k] + s.waiting[k] * Authorised[k]], Kinds)

AllOf == SumFunctionOnSet(Count, Kinds)
UpToCount == {f \in [Kinds -> 0..AllOf] : \A k \in Kinds : f[k] <= Count[k]}
PossiblePages == [settled : UpToCount, waiting : UpToCount, cut : SUBSET Long]

\* A page the bank has shown at some time, kept in a file.  Authorisations come
\* and go, what is settled stays: it is any page with no more settled than now.
Earlier(s) ==
  /\ \A k \in Kinds : s.settled[k] <= settled[k] /\ s.settled[k] + s.waiting[k] <= Count[k]
  /\ \A k \in s.cut : s.settled[k] > 0

-----------------------------------------------------------------------------
(* sync_scrape                                                             *)

New(k, isPending, isCut) ==
  [kind |-> k, pending |-> isPending, cut |-> isCut]

\* A posted row is taken for the charge: the same key, or one of the two
\* descriptions is cut and the other begins with it (_matches_truncated).
Exactly(k, isCut, r) == ~isCut /\ ~r.cut /\ k = r.kind
Truncated(k, isCut, r) == (isCut \/ r.cut) /\ Stem[k] = Stem[r.kind]
\* Mutant: it is looked for among the pending rows.
RecognisedPending(k, isCut, r) == r.pending /\ (Exactly(k, isCut, r) \/ Truncated(k, isCut, r))
Recognised(k, isCut, r) == ~r.pending /\ (Exactly(k, isCut, r) \/ Truncated(k, isCut, r))

\* The pending rows a sync deletes.  Mutant: only those the bank lists again.
WipedListed(r, s) == r.pending /\ s.waiting[r.kind] + s.settled[r.kind] > 0
Wiped(r, s) == r.pending

\* What the wipe takes from Unallocated.  Mutant: the ids are mixed up and no
\* allocation is found.
NoAllocations(wiped) == 0
WipedAllocations(wiped) == SumOf(rows, wiped)

\* Posted rows are inserted from the oldest to the newest; one inserted here is
\* recognised in those that follow, so that equal charges become one row.
InsertPosted(s, kept) ==
  LET known[i \in 0..Len(Listing)] ==
        IF i = 0 THEN kept
        ELSE LET k == Oldest(i)
                 before == known[i - 1]
             IN IF s.settled[k] = 0
                   \/ \E j \in DOMAIN before : Recognised(k, k \in s.cut, before[j])
                THEN before ELSE Append(before, New(k, FALSE, k \in s.cut))
  IN  known[Len(Listing)]
InsertPending(s, known) ==
  FromOldest(known, [k \in Kinds |-> [n \in 1..s.waiting[k] |-> New(k, TRUE, FALSE)]])

\* Rows in display order, the newest first: by date, then as created.
\* Mutant: as created.
NewerCreated(s, i, j) == i > j
Newer(s, i, j) ==
  \/ Day[s[i].kind] > Day[s[j].kind]
  \/ Day[s[i].kind] = Day[s[j].kind] /\ i > j

\* recompute_transaction_snapshots: the balances of now, rolled back by every
\* newer row.
RolledBack(s, j, withPending) ==
  SumOf(s, {i \in DOMAIN s : Newer(s, i, j) /\ (withPending \/ ~s[i].pending)})
Snapshots(s, avail, post) ==
  [j \in DOMAIN s |-> [available |-> avail - RolledBack(s, j, TRUE),
                       posted |-> post - RolledBack(s, j, FALSE)]]

\* The balance_mismatch of the report.  Mutant: the balance of before the sync.
StaleMismatch(s) == available - Ending(s)
Mismatch(s) == available' - Ending(s)

Sync(s) ==
  /\ report = NoReport
  /\ UNCHANGED <<bank, client>>
  /\ \E kept \in {Kept(rows, {i \in DOMAIN rows : ~Wiped(rows[i], s)})} :
     \E known \in {InsertPosted(s, kept)} :
      LET wiped == {i \in DOMAIN rows : Wiped(rows[i], s)}
          inserted == SumOf(rows', Len(kept) + 1 .. Len(rows'))
      IN
      /\ rows' = InsertPending(s, known)
      /\ Len(rows') <= MaxRows
      /\ available' = available - SumOf(rows, wiped) + inserted
      /\ posted' = posted + SumOf(known, Len(kept) + 1 .. Len(known))
      /\ unalloc' = unalloc - WipedAllocations(wiped) + inserted
      /\ report' = [page |-> [s EXCEPT !.cut = {}], mismatch |-> Mismatch(s),
                    snapshots |-> Snapshots(rows', available', posted')]
      /\ raced' = (raced \/ (client # Idle /\ Len(known) > Len(kept)))

\* The live importer posts what it has just scraped; a saved file is replayed.
Live(C) == Sync(Page(C))
Replay(s) == Earlier(s) /\ Sync(s)

\* The answer is read, and forgotten.
Read ==
  /\ report # NoReport
  /\ report' = NoReport
  /\ UNCHANGED <<bank, account, client, raced>>

-----------------------------------------------------------------------------
(* The statement importer.                                                 *)

\* A statement lists everything posted, the oldest first.
Statement == FromOldest(<<>>, [k \in Kinds |-> [n \in 1..settled[k] |-> k]])

\* _fetch_existing: the rows with the date, amount and description of a kind,
\* pending ones too.
HasKey(r, k) == ~r.cut /\ r.kind = k /\ AmountOf(r) = Amount[k]
RowsOf(k) == Cardinality({i \in DOMAIN rows : HasKey(rows[i], k)})

\* A run that will be interrupted after n rows, or goes to the end.
Start(n) ==
  /\ client = Idle /\ n \in 1..Len(Statement)
  /\ client' = [todo |-> SubSeq(Statement, 1, n), have |-> [k \in Kinds |-> RowsOf(k)]]
  /\ UNCHANGED <<bank, account, raced, report>>

\* The charge is there: its row is not found a second time.
\* Mutants: it is; or two rows are passed over.
FoundAgain(n) == n
FoundTwice(n) == n - 2
Found(n) == n - 1

NextKind == Head(client.todo)
Skip ==
  /\ client.todo # <<>> /\ client.have[NextKind] > 0
  /\ client' = [todo |-> Tail(client.todo),
                have |-> [client.have EXCEPT ![NextKind] = Found(@)]]
  /\ UNCHANGED <<bank, account, raced, report>>

\* POST /transactions/, that is transaction.create.
Post ==
  /\ client.todo # <<>> /\ client.have[NextKind] = 0 /\ Len(rows) < MaxRows
  /\ available' = available + Amount[NextKind]
  /\ posted' = posted + Amount[NextKind]
  /\ unalloc' = unalloc + Amount[NextKind]
  /\ rows' = Append(rows, New(NextKind, FALSE, FALSE))
  /\ client' = [client EXCEPT !.todo = Tail(@)]
  /\ UNCHANGED <<bank, raced, report>>

\* The server refuses the row: it is logged, and the next one is tried.
Refused ==
  /\ client.todo # <<>> /\ client.have[NextKind] = 0
  /\ client' = [client EXCEPT !.todo = Tail(@)]
  /\ UNCHANGED <<bank, account, raced, report>>

Finish ==
  /\ client # Idle /\ client.todo = <<>>
  /\ client' = Idle
  /\ UNCHANGED <<bank, account, raced, report>>

-----------------------------------------------------------------------------
Init ==
  /\ waiting = [k \in Kinds |-> 0] /\ settled = waiting
  /\ rows = <<>>
  /\ available = Opening /\ posted = Opening /\ unalloc = Opening
  /\ report = NoReport
  /\ client = Idle
  /\ raced = FALSE

\* A sync's report is looked at before anything else happens: no step reads it.
Act ==
  \/ \E k \in Kinds : Authorise(k) \/ Settle(k) \/ DropCharge(k)
  \/ \E s \in PossiblePages : Replay(s)   \* Live(C) among them
  \/ \E n \in 1..Len(Statement) : Start(n)
  \/ Skip \/ Post \/ Refused \/ Finish

Next == Read \/ (report = NoReport /\ Act)

Spec == Init /\ [][Next]_vars

\* The live importer runs again and again, and so does the statement importer:
\* every run of it ends, not all are interrupted and not all rows are refused.
Fairness ==
  /\ WF_vars(Read) /\ SF_vars(\E C \in SUBSET Cuttable : Live(C))
  /\ SF_vars(Start(Len(Statement)))
  /\ WF_vars(Skip) /\ SF_vars(Post) /\ WF_vars(Finish)

FairSpec == Spec /\ Fairness

-----------------------------------------------------------------------------
Counts == [Kinds -> Nat]
Pages == [settled : Counts, waiting : Counts, cut : SUBSET Long]

TypeOK ==
  /\ waiting \in Counts /\ settled \in Counts
  /\ rows \in Seq([kind : Kinds, pending : BOOLEAN, cut : BOOLEAN])
  /\ Len(rows) <= MaxRows
  /\ available \in Int /\ posted \in Int /\ unalloc \in Int
  /\ (report = NoReport \/ (report.page \in Pages /\ report.mismatch \in Int))
  /\ client \in [todo : Seq(Kinds), have : Counts]
  /\ raced \in BOOLEAN

\* The deltas a sync accumulates over wiped and inserted rows, and those of
\* each posted row, keep both balances and Unallocated explained by the rows
\* that are there.
BalancesExplained ==
  /\ available = Opening + Total(rows)
  /\ posted = Opening + SumOf(rows, Settled(rows))
  /\ unalloc = available

Stored(k, isPending) ==
  Cardinality({i \in DOMAIN rows : rows[i].kind = k /\ rows[i].pending = isPending})
SomeCut == \E i \in DOMAIN rows : rows[i].cut

\* A posted charge is stored once, however often and late scrapes of it are
\* replayed and statements imported again after any interruption: unless a
\* scrape inserted rows in the middle of an import, or the stored description
\* is one the bank's page had cut, which an import does not recognise.
StoredOnce == ~raced /\ ~SomeCut => \A k \in Kinds : Stored(k, FALSE) <= settled[k]

\* A sync of the page as it is now leaves no trace of what was pending before,
\* and something of everything that is posted.
CurrentScrapeWins ==
  report # NoReport /\ report.page = Page({}) =>
    \A k \in Kinds :
      /\ Stored(k, TRUE) = waiting[k]
      /\ settled[k] > 0 =>
           \E i \in DOMAIN rows : ~rows[i].pending /\ Stem[rows[i].kind] = Stem[k]

\* The balance_mismatch that a sync reports is, to the cent, what the account has too
\* much and too little of each kind, compared with what the page listed: it is zero
\* only if that is nothing, or rows too many and rows too few cancel.
TooMuch(s, k) ==
    (Stored(k, FALSE) - s.settled[k]) * Amount[k]
  + (Stored(k, TRUE) - s.waiting[k]) * Authorised[k]
MismatchExplained ==
  report # NoReport =>
    report.mismatch = SumFunctionOnSet([k \in Kinds |-> TooMuch(report.page, k)], Kinds)

\* After a sync every row's stored balances are the opening balance plus the
\* rows up to it in the order the user sees, wherever late rows came in between.
UpTo(i, j) == \/ i = j \/ Day[rows[i].kind] < Day[rows[j].kind]
              \/ Day[rows[i].kind] = Day[rows[j].kind] /\ i < j
SumUpTo(j, withPending) ==
  Opening + SumOf(rows, {i \in DOMAIN rows : UpTo(i, j) /\ (withPending \/ ~rows[i].pending)})
SnapshotsExplained ==
  report # NoReport =>
    \A j \in DOMAIN rows : /\ report.snapshots[j].available = SumUpTo(j, TRUE)
                           /\ report.snapshots[j].posted = SumUpTo(j, FALSE)

\* Again and again the account shows just what the bank shows: pending rows
\* come and go with it, and equal charges that a scrape takes for one are told
\* apart by the next statement.
Agrees == \A k \in Kinds : Stored(k, FALSE) = settled[k] /\ Stored(k, TRUE) = waiting[k]
FollowsBank == []<>(Agrees \/ raced \/ SomeCut)
=============================================================================
