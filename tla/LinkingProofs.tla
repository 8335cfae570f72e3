---------------------------- MODULE LinkingProofs ----------------------------
(* Proofs about Linking: type correctness, LinksMutual and LinkForGood, for *)
(* any lines, accounts, copies, workers and requests.                       *)
EXTENDS Linking, FiniteSetTheorems, SequenceTheorems, TLAPS

\* A statement of p has run: its row is there and locked, and so is the index entry of
\* the link it writes, which no other row has.
Ran(p, u) ==
  /\ lock[Row(u.row)] = p /\ lock[Target(u.to)] = p
  /\ Present(u.row)
  /\ \A x \in Rows \ {u.row} : row[x].link # u.to

\* What each kind of process has read and has still to do.
Searching(p) ==
  proc[p].does = "search" =>
    /\ p \in Workers /\ proc[p].tx \in Rows /\ proc[p].todo = <<>>
PairOf(p) == BothSides(proc[p].tx, proc[p].other)
Pairing(p) ==
  proc[p].does = "link" =>
    /\ p \in Workers
    /\ proc[p].tx \in Rows /\ proc[p].other \in Rows /\ proc[p].tx # proc[p].other
    /\ proc[p].todo \in {PairOf(p), Tail(PairOf(p)), <<>>}
    /\ proc[p].todo # PairOf(p) => Ran(p, PairOf(p)[1])
    /\ proc[p].todo = <<>> => Ran(p, PairOf(p)[2])
Wiping(p) ==
  proc[p].does \in {"scrape", "delete"} =>
    /\ p \in Accounts
    /\ \A i \in DOMAIN proc[p].todo : proc[p].todo[i].to = None
    /\ \A r \in proc[p].wipes \union proc[p].nulls :
         lock[Row(r)] = p \/ \E i \in DOMAIN proc[p].todo : proc[p].todo[i].row = r
Saving(p) ==
  proc[p].does = "details" =>
    /\ p \in Enrichers /\ proc[p].tx \in Rows
    /\ proc[p].todo \in {<<Update(proc[p].tx, proc[p].other)>>, <<>>}
    /\ proc[p].todo = <<>> =>
         /\ lock[Row(proc[p].tx)] = p
         /\ proc[p].other # None => lock[Target(proc[p].other)] = p

ProcInv(p) ==
  /\ proc[p].does = "nothing" => proc[p] = Idle
  /\ Searching(p) /\ Pairing(p) /\ Wiping(p) /\ Saving(p)

LinkingInv == TypeOK /\ LinksMutual /\ \A p \in Procs : ProcInv(p)

-----------------------------------------------------------------------------
(* Rows, resources and statements.                                         *)

Statement == [row : Rows, to : RowOrNone]
ProcType == [does : Tasks, tx : RowOrNone, other : RowOrNone, names : SUBSET Accounts,
             wipes : SUBSET Rows, nulls : SUBSET Rows, todo : Seq(Statement)]
RowType == [st : States, link : RowOrNone, details : BOOLEAN, text : {"bank", "rewritten"}]
MissedTyped == missed \in SUBSET (SUBSET Rows)

LEMMA Disjoint ==
  /\ None \notin Procs /\ None \notin Rows
  /\ Workers \subseteq Procs /\ Accounts \subseteq Procs /\ Enrichers \subseteq Procs
  /\ \A p \in Workers : p \notin Accounts /\ p \notin Enrichers
  /\ \A p \in Accounts : p \notin Enrichers
BY ProcsAssumption DEF Procs

\* Finitely many lines, and copies of each.
LEMMA RowsFinite == IsFiniteSet(Rows)
<1> DEFINE OfLine(l) == {l} \X (1..Copies[l])
           Parts == {OfLine(l) : l \in Lines}
<1>1. IsFiniteSet(Lines)
  BY HomeAssumption
<1>2. IsFiniteSet(Parts)
  <2> DEFINE f == [l \in Lines |-> OfLine(l)]
  <2>1. f \in Surjection(Lines, Parts)
    <3> HIDE DEF OfLine
    <3> QED BY DEF Surjection
  <2> HIDE DEF f, Parts
  <2>2. QED
    BY <1>1, <2>1, FS_Surjection
<1>3. \A l \in Lines : IsFiniteSet(OfLine(l))
  <2>1. TAKE l \in Lines
  <2>2. Copies[l] \in Nat
    BY BoundsAssumption
  <2>3. IsFiniteSet(1..Copies[l])
    BY <2>2, FS_Interval
  <2>4. IsFiniteSet({l})
    BY FS_Singleton
  <2>5. QED
    BY <2>3, <2>4, FS_Product
<1>4. \A T \in Parts : IsFiniteSet(T)
  BY <1>3
<1>5. Rows = UNION Parts
  BY DEF Rows
<1>6. QED
  <2> HIDE DEF Parts
  <2> QED BY <1>2, <1>4, <1>5, FS_UNION

\* A row and its index entry are different resources, and so are those of two rows.
LEMMA ResourceFacts ==
  ASSUME NEW r \in Rows, NEW s \in Rows
  PROVE  /\ Row(r) \in Resources /\ Target(r) \in Resources
         /\ Row(r) = Row(s) <=> r = s
         /\ Target(r) = Target(s) <=> r = s
         /\ Row(r) # Target(s)
BY DEF Row, Target, Resources

LEMMA UpdateFacts ==
  ASSUME NEW r \in Rows, NEW t \in RowOrNone
  PROVE  /\ Update(r, t) \in Statement
         /\ Update(r, t).row = r /\ Update(r, t).to = t
BY DEF Update, Statement

\* The elements of a finite set in a sequence: each of them is there.
LEMMA SetToSeqOnto ==
  ASSUME NEW S, IsFiniteSet(S)
  PROVE  /\ SetToSeq(S) \in [1..Cardinality(S) -> S]
         /\ \A x \in S : \E i \in 1..Cardinality(S) : SetToSeq(S)[i] = x
<1> DEFINE n == Cardinality(S)
           f == SetToSeq(S)
<1>1. n \in Nat /\ ExistsBijection(1..n, S)
  BY FS_CardinalityType
<1>2. PICK g : g \in [1..n -> S] /\ \A a, b \in 1..n : g[a] = g[b] => a = b
  BY <1>1 DEF ExistsBijection, Bijection, Injection, IsInjective
<1>3. g \in [1..n -> S] /\ IsInjective(g)
  BY <1>2 DEF IsInjective
<1>4. f \in [1..n -> S] /\ IsInjective(f)
  BY <1>3 DEF SetToSeq
<1>5. f \in Injection(1..n, S)
  BY <1>4 DEF Injection
<1>6. Cardinality(1..n) = n
  BY <1>1, FS_Interval
<1>7. f \in Surjection(1..n, S)
  BY <1>5, <1>6, FS_Injection
<1>8. QED
  BY <1>4, <1>7 DEF Surjection

\* The statements of a deletion write no link and name each of its rows.
LEMMA StatementsCover ==
  ASSUME NEW D \in SUBSET Rows, NEW N \in SUBSET Rows
  PROVE  /\ Statements(D, N) \in Seq(Statement)
         /\ \A i \in DOMAIN Statements(D, N) : Statements(D, N)[i].to = None
         /\ \A r \in D \union N : \E i \in DOMAIN Statements(D, N) : Statements(D, N)[i].row = r
<1> DEFINE M == N \ D
           a == SetToSeq(M)
           b == SetToSeq(D)
           m == Cardinality(M)
           d == Cardinality(D)
           n == Cardinality(D \union N)
           s == a \o b
<1>1. IsFiniteSet(D) /\ IsFiniteSet(M)
  BY RowsFinite, FS_Subset
<1>2. m \in Nat /\ d \in Nat /\ n = m + d
  <2>1. D \union N = M \union D /\ M \cap D = {}
    OBVIOUS
  <2>2. Cardinality(M \cap D) = 0
    BY <2>1, FS_EmptySet
  <2> HIDE DEF M, m, d, n
  <2>3. Cardinality(M \union D) = Cardinality(M) + Cardinality(D) - Cardinality(M \cap D)
    BY <1>1, FS_Union
  <2>4. m \in Nat /\ d \in Nat
    BY <1>1, FS_CardinalityType DEF m, d
  <2>5. QED
    BY <2>1, <2>2, <2>3, <2>4 DEF n, m, d
<1>3. /\ a \in [1..m -> M] /\ \A x \in M : \E i \in 1..m : a[i] = x
      /\ b \in [1..d -> D] /\ \A x \in D : \E i \in 1..d : b[i] = x
  BY <1>1, SetToSeqOnto
<1> HIDE DEF a, b, m, d, n
<1>4. a \in Seq(Rows) /\ Len(a) = m /\ b \in Seq(Rows) /\ Len(b) = d
  BY <1>2, <1>3
<1>5. /\ Len(s) = n
      /\ \A i \in 1..n : s[i] = IF i <= m THEN a[i] ELSE b[i - m]
  BY <1>2, <1>4, ConcatProperties
<1>6. \A i \in 1..n : s[i] \in Rows
  <2>1. s \in Seq(Rows)
    BY <1>4, ConcatProperties
  <2>2. QED
    BY <1>5, <2>1, ElementOfSeq
<1>7. \A r \in D \union N : \E i \in 1..n : s[i] = r
  <2>1. TAKE r \in D \union N
  <2>2. CASE r \in D
    <3>1. PICK i \in 1..d : b[i] = r
      BY <1>3, <2>2
    <3>2. m + i \in 1..n /\ s[m + i] = r
      BY <1>2, <1>5, <3>1
    <3>3. QED
      BY <3>2
  <2>3. CASE r \in M
    <3>1. PICK i \in 1..m : a[i] = r
      BY <1>3, <2>3
    <3>2. i \in 1..n /\ s[i] = r
      BY <1>2, <1>5, <3>1
    <3>3. QED
      BY <3>2
  <2>4. QED
    BY <2>2, <2>3
<1>8. Statements(D, N) = [i \in 1..n |-> Update(s[i], None)]
  BY DEF Statements, n, s, a, b
<1> HIDE DEF s, M
<1>9. \A i \in 1..n : /\ Update(s[i], None) \in Statement
                      /\ Update(s[i], None).to = None /\ Update(s[i], None).row = s[i]
  BY <1>6 DEF Update, Statement, RowOrNone
<1>10. n \in Nat
  BY <1>2
<1>11. QED
  BY <1>7, <1>8, <1>9, <1>10

-----------------------------------------------------------------------------
(* What a step leaves alone.                                               *)

LEMMA TypeFacts ==
  ASSUME TypeOK
  PROVE  /\ row \in [Rows -> RowType]
         /\ \A r \in Rows : /\ row[r] \in RowType /\ row[r].link \in RowOrNone
                            /\ row[r].link # None => Present(r)
         /\ proc \in [Procs -> ProcType]
         /\ \A p \in Procs : /\ proc[p] \in ProcType /\ proc[p].todo \in Seq(Statement)
                             /\ proc[p].tx \in RowOrNone /\ proc[p].other \in RowOrNone
                             /\ proc[p].wipes \in SUBSET Rows /\ proc[p].nulls \in SUBSET Rows
         /\ lock \in [Resources -> Procs \union {None}]
BY DEF TypeOK, RowType, ProcType, Statement

LEMMA PairFacts ==
  ASSUME NEW r \in Rows, NEW s \in Rows
  PROVE  LET b == BothSides(r, s) IN
         /\ b \in Seq(Statement) /\ b # <<>> /\ Tail(b) # <<>> /\ b # Tail(b)
         /\ Head(b) = b[1] /\ Head(Tail(b)) = b[2] /\ Tail(Tail(b)) = <<>>
         /\ b[1] = Update(r, s) /\ b[2] = Update(s, r)
<1> DEFINE u == Update(r, s)
           v == Update(s, r)
<1>1. u \in Statement /\ v \in Statement
  BY UpdateFacts DEF RowOrNone
<1>2. BothSides(r, s) = <<u, v>>
  BY DEF BothSides
<1> HIDE DEF u, v
<1>3. <<u, v>> \in Seq(Statement) /\ Tail(<<u, v>>) = <<v>> /\ Len(<<u, v>>) = 2
  BY <1>1
<1>4. <<v>> # <<>> /\ Head(<<v>>) = v /\ Tail(<<v>>) = <<>> /\ Len(<<v>>) = 1
  OBVIOUS
<1>5. QED
  BY <1>2, <1>3, <1>4 DEF u, v

\* A process that does not move keeps what it has, if no other takes its locks away or
\* writes what its statements looked for.
LEMMA Frame ==
  ASSUME NEW q \in Procs, ProcInv(q), TypeOK, proc'[q] = proc[q],
         \A x \in Resources : lock[x] = q => lock'[x] = q,
         \A u \in Statement : u.to # None /\ Ran(q, u) =>
            Present(u.row)' /\ \A x \in Rows \ {u.row} : row'[x].link # u.to
  PROVE  ProcInv(q)'
<1>1. \A u \in Statement : u.to # None /\ Ran(q, u) => Ran(q, u)'
  <2> TAKE u \in Statement
  <2> HAVE u.to # None /\ Ran(q, u)
  <2>1. u.row \in Rows /\ u.to \in Rows
    BY DEF Statement, RowOrNone
  <2>2. QED
    BY <2>1, ResourceFacts DEF Ran
<1>2. Searching(q)'
  BY DEF ProcInv, Searching
<1>3. Pairing(q)'
  <2> SUFFICES ASSUME proc[q].does = "link" PROVE Pairing(q)'
    BY DEF Pairing
  <2> DEFINE b == PairOf(q)
  <2>1. Pairing(q) /\ proc[q].tx \in Rows /\ proc[q].other \in Rows
    BY DEF ProcInv, Pairing
  <2>2. /\ b[1] = Update(proc[q].tx, proc[q].other) /\ b[2] = Update(proc[q].other, proc[q].tx)
    BY <2>1, PairFacts DEF PairOf
  <2>3. b[1] \in Statement /\ b[2] \in Statement /\ b[1].to # None /\ b[2].to # None
    BY <2>1, <2>2, UpdateFacts, Disjoint DEF RowOrNone
  <2>4. b' = b
    BY DEF PairOf
  <2> HIDE DEF b
  <2>5. Ran(q, b[1]) => Ran(q, b[1])'
    BY <1>1, <2>3, <2>4 DEF Ran, Present
  <2>6. Ran(q, b[2]) => Ran(q, b[2])'
    BY <1>1, <2>3, <2>4 DEF Ran, Present
  <2>7. QED
    BY <2>1, <2>4, <2>5, <2>6 DEF Pairing, b
<1>4. Wiping(q)'
  BY TypeFacts, ResourceFacts DEF ProcInv, Wiping
<1>5. Saving(q)'
  BY TypeFacts, ResourceFacts DEF ProcInv, Saving, RowOrNone
<1>6. QED
  BY <1>2, <1>3, <1>4, <1>5 DEF ProcInv

\* An idle process has nothing to keep.
LEMMA IdleInv ==
  ASSUME NEW q, proc'[q] = Idle
  PROVE  ProcInv(q)'
BY DEF ProcInv, Searching, Pairing, Wiping, Saving, Idle

LEMMA IdleType == Idle \in ProcType
BY DEF Idle, ProcType, Tasks, RowOrNone

-----------------------------------------------------------------------------
(* The steps of transactions: what each does to proc, lock and row.        *)

\* The end of p's transaction moves no other process.
LEMMA EndsFrame ==
  ASSUME TypeOK, NEW p \in Procs, Ends(p)
  PROVE  /\ proc' \in [Procs -> ProcType] /\ proc'[p] = Idle
         /\ lock' \in [Resources -> Procs \union {None}]
         /\ \A q \in Procs \ {p} : /\ proc'[q] = proc[q]
                                   /\ \A x \in Resources : lock[x] = q => lock'[x] = q
BY TypeFacts, IdleType DEF Ends, Released

\* A transaction that ends without a write to rows.
LEMMA EndStep ==
  ASSUME LinkingInv, NEW p \in Procs, Ends(p), UNCHANGED <<row, crushed, missed>>,
         queue' = queue, lost' \in Nat
  PROVE  LinkingInv'
<1>1. TypeOK
  BY DEF LinkingInv
<1>2. TypeOK'
  BY <1>1, EndsFrame DEF TypeOK, ProcType, Statement, Present
<1>3. LinksMutual'
  BY DEF LinkingInv, LinksMutual, Present
<1>4. ASSUME NEW q \in Procs PROVE ProcInv(q)'
  <2>1. CASE q = p
    BY <1>1, <2>1, EndsFrame, IdleInv
  <2>2. CASE q # p
    BY <1>1, <2>2, EndsFrame, Frame DEF LinkingInv, Ran, Present
  <2>3. QED
    BY <2>1, <2>2
<1>5. QED
  BY <1>2, <1>3, <1>4 DEF LinkingInv

\* p begins to work on something, and takes locks that nobody has.
LEMMA BeginStep ==
  ASSUME LinkingInv, NEW p \in Procs, NEW s \in ProcType, NEW R \in SUBSET Resources,
         proc' = [proc EXCEPT ![p] = s],
         lock' = [x \in Resources |-> IF x \in R THEN p ELSE lock[x]],
         \A x \in R : lock[x] \in {None, p},
         UNCHANGED <<row, crushed, lost>>, queue' \subseteq queue, MissedTyped',
         ProcInv(p)'
  PROVE  LinkingInv'
<1>1. TypeOK
  BY DEF LinkingInv
<1>2. TypeOK'
  BY <1>1, TypeFacts DEF TypeOK, ProcType, Statement, Present, MissedTyped
<1>3. LinksMutual'
  BY DEF LinkingInv, LinksMutual, Present
<1>4. ASSUME NEW q \in Procs PROVE ProcInv(q)'
  <2>1. CASE q = p
    BY <2>1
  <2>2. CASE q # p
    <3>1. proc'[q] = proc[q] /\ \A x \in Resources : lock[x] = q => lock'[x] = q
      BY <1>1, <2>2, TypeFacts, Disjoint
    <3>2. QED
      BY <1>1, <3>1, Frame DEF LinkingInv, Ran, Present
  <2>3. QED
    BY <2>1, <2>2
<1>5. QED
  BY <1>2, <1>3, <1>4 DEF LinkingInv

\* Only a row or a target that p has, or nobody, lets p's statement run.
LEMMA Unblocked ==
  ASSUME LinkingInv, NEW p \in Procs, proc[p].todo # <<>>, BlockedBy(p) = {},
         NEW u, u = Head(proc[p].todo), ~Fails(p, u)
  PROVE  /\ u \in Statement /\ Takes(u) \subseteq Resources
         /\ \A x \in Takes(u) : lock[x] \in {None, p}
<1>1. u \in Statement
  BY TypeFacts, HeadTailProperties DEF LinkingInv
<1>2. u.row \in Rows /\ (u.to # None => u.to \in Rows)
  BY <1>1 DEF Statement, RowOrNone
<1>3. Takes(u) \subseteq Resources
  BY <1>2, ResourceFacts DEF Takes
<1>4. lock[Row(u.row)] \in {None, p}
  BY DEF BlockedBy
<1>5. ASSUME u.to # None PROVE lock[Target(u.to)] \in {None, p}
  <2>1. proc[p].does \in {"link", "details"}
    <3>1. ProcInv(p) /\ proc[p].does \in Tasks
      BY TypeFacts DEF LinkingInv, ProcType
    <3>2. proc[p].does # "nothing"
      BY <3>1 DEF ProcInv, Idle
    <3>3. proc[p].does # "search"
      BY <3>1 DEF ProcInv, Searching
    <3>4. proc[p].todo \in Seq(Statement)
      BY TypeFacts DEF LinkingInv
    <3>5. 1 \in DOMAIN proc[p].todo /\ proc[p].todo[1] = u
      BY <3>4
    <3>6. proc[p].does \notin {"scrape", "delete"}
      BY <3>1, <3>5, <1>5 DEF ProcInv, Wiping
    <3>7. QED
      BY <3>1, <3>2, <3>3, <3>6 DEF Tasks
  <2>2. Writes(p, u)
    BY <2>1 DEF Writes, Fails
  <2>3. lock[Target(u.to)] \in {None, p} \/ lock[Target(u.to)] \in BlockedBy(p)
    BY <2>2, <1>4, <1>5 DEF BlockedBy
  <2>4. QED
    BY <2>3
<1>6. QED
  BY <1>1, <1>3, <1>4, <1>5 DEF Takes

\* A statement that runs does what its process counts on.
LEMMA StatementRuns ==
  ASSUME LinkingInv, NEW p \in Procs, proc[p].todo # <<>>, BlockedBy(p) = {},
         NEW u, u = Head(proc[p].todo), ~Fails(p, u),
         lock' = [x \in Resources |-> IF x \in Takes(u) THEN p ELSE lock[x]],
         proc' = [proc EXCEPT ![p].todo = Tail(@)],
         UNCHANGED <<row, queue, lost, crushed, missed>>
  PROVE  LinkingInv'
<1>1. TypeOK /\ ProcInv(p)
  BY DEF LinkingInv
<1>2. /\ u \in Statement /\ Takes(u) \subseteq Resources
      /\ \A x \in Takes(u) : lock[x] \in {None, p}
  BY Unblocked
<1>3. u.row \in Rows /\ (u.to # None => u.to \in Rows)
  BY <1>2 DEF Statement, RowOrNone
<1>4. /\ lock'[Row(u.row)] = p
      /\ u.to # None => lock'[Target(u.to)] = p
      /\ \A x \in Resources : lock[x] = p => lock'[x] = p
  BY <1>3, ResourceFacts DEF Takes
<1> DEFINE s == [proc[p] EXCEPT !.todo = Tail(@)]
<1>5. /\ proc[p].todo \in Seq(Statement) /\ Tail(proc[p].todo) \in Seq(Statement)
      /\ proc[p] \in ProcType
  BY <1>1, TypeFacts, HeadTailProperties
<1>6. s \in ProcType /\ s.todo = Tail(proc[p].todo)
      /\ s.does = proc[p].does /\ s.tx = proc[p].tx /\ s.other = proc[p].other
      /\ s.wipes = proc[p].wipes /\ s.nulls = proc[p].nulls
  BY <1>5 DEF ProcType
<1>7. proc' = [proc EXCEPT ![p] = s] /\ proc'[p] = s
  BY <1>1, TypeFacts
<1> HIDE DEF s
<1>8. Searching(p)'
  BY <1>1, <1>6, <1>7 DEF ProcInv, Searching
<1>9. Pairing(p)'
  <2> SUFFICES ASSUME proc[p].does = "link" PROVE Pairing(p)'
    BY <1>6, <1>7 DEF Pairing
  <2> DEFINE b == PairOf(p)
             x == proc[p].tx
             y == proc[p].other
  <2>1. Pairing(p) /\ x \in Rows /\ y \in Rows
    BY <1>1 DEF ProcInv, Pairing
  <2>2. b' = b
    BY <1>6, <1>7 DEF PairOf
  <2>3. /\ Head(b) = b[1] /\ Head(Tail(b)) = b[2] /\ Tail(Tail(b)) = <<>>
        /\ b # Tail(b) /\ Tail(b) # <<>> /\ b # <<>>
        /\ b[1] = Update(x, y) /\ b[2] = Update(y, x)
    BY <2>1, PairFacts DEF PairOf
  <2>4. /\ b[1].row = x /\ b[1].to = y /\ b[2].row = y /\ b[2].to = x
        /\ x # None /\ y # None
    BY <2>1, <2>3, UpdateFacts, Disjoint DEF RowOrNone
  <2>5. Present(u.row) /\ Rivals(u) = {}
    BY DEF Fails
  <2>6. u.to # None => \A z \in Rows \ {u.row} : row[z].link # u.to
    BY <1>1, <2>5, TypeFacts DEF Rivals
  <2>7. u.to # None => Ran(p, u)'
    BY <1>4, <2>5, <2>6 DEF Ran, Present
  <2>8. Ran(p, b[1]) => Ran(p, b[1])'
    BY <2>1, <2>2, <2>4, <1>4, ResourceFacts DEF Ran, Present
  <2> HIDE DEF b, x, y
  <2>9. CASE proc[p].todo = b
    <3>1. u = b[1] /\ s.todo = Tail(b)
      BY <2>3, <2>9, <1>6
    <3>2. Ran(p, b[1])'
      BY <3>1, <2>2, <2>4, <2>7 DEF Ran, Present
    <3>3. QED
      BY <3>1, <3>2, <2>1, <2>2, <2>3, <1>6, <1>7 DEF Pairing, b, x, y
  <2>10. CASE proc[p].todo = Tail(b)
    <3>1. u = b[2] /\ s.todo = <<>>
      BY <2>3, <2>10, <1>6
    <3>2. Ran(p, b[2])'
      <4>1. u.to # None /\ b'[2] = u
        BY <3>1, <2>2, <2>4
      <4>2. QED
        BY <4>1, <2>7 DEF Ran, Present
    <3>3. Ran(p, b[1])'
      BY <2>1, <2>3, <2>8, <2>10 DEF Pairing, b
    <3>4. QED
      BY <3>1, <3>2, <3>3, <2>1, <2>2, <2>3, <1>6, <1>7 DEF Pairing, b, x, y
  <2>11. QED
    BY <2>1, <2>9, <2>10 DEF Pairing, b
<1>10. Wiping(p)'
  <2> SUFFICES ASSUME proc[p].does \in {"scrape", "delete"} PROVE Wiping(p)'
    BY <1>6, <1>7 DEF Wiping
  <2> DEFINE todo == proc[p].todo
  <2>1. Wiping(p)
    BY <1>1 DEF ProcInv
  <2>2. /\ DOMAIN todo = 1..Len(todo) /\ Len(todo) \in Nat \ {0}
        /\ DOMAIN s.todo = 1..(Len(todo) - 1)
        /\ \A i \in 1..(Len(todo) - 1) : s.todo[i] = todo[i + 1]
        /\ todo[1] = u
    <3>1. todo \in Seq(Statement) /\ todo # <<>> /\ s.todo = Tail(todo) /\ u = Head(todo)
      BY <1>5, <1>6
    <3> HIDE DEF todo
    <3>2. Len(todo) \in Nat \ {0} /\ DOMAIN todo = 1..Len(todo)
      BY <3>1, EmptySeq, LenProperties
    <3>3. /\ Tail(todo) \in Seq(Statement) /\ Len(Tail(todo)) = Len(todo) - 1
          /\ \A i \in 1..(Len(todo) - 1) : Tail(todo)[i] = todo[i + 1]
      BY <3>1, HeadTailProperties
    <3>4. DOMAIN s.todo = 1..(Len(todo) - 1)
      BY <3>1, <3>3, LenProperties
    <3>5. todo[1] = u
      BY <3>1
    <3>6. \A i \in 1..(Len(todo) - 1) : s.todo[i] = todo[i + 1]
      BY <3>1, <3>3, Zenon
    <3>7. QED
      BY <3>2, <3>4, <3>5, <3>6
  <2> HIDE DEF todo
  <2>3. \A i \in DOMAIN s.todo : s.todo[i].to = None
    <3>1. \A i \in DOMAIN todo : todo[i].to = None
      BY <2>1 DEF Wiping, todo
    <3>2. QED
      BY <2>2, <3>1
  <2>4. ASSUME NEW r \in s.wipes \union s.nulls
        PROVE  lock'[Row(r)] = p \/ \E i \in DOMAIN s.todo : s.todo[i].row = r
    <3>1. r \in Rows
      BY <1>6 DEF ProcType
    <3>2. CASE lock[Row(r)] = p
      BY <1>4, <3>1, <3>2, ResourceFacts
    <3>3. ASSUME NEW i \in DOMAIN todo, todo[i].row = r
          PROVE  lock'[Row(r)] = p \/ \E j \in DOMAIN s.todo : s.todo[j].row = r
      <4>1. CASE i = 1
        BY <1>4, <2>2, <3>3, <4>1
      <4>2. CASE i # 1
        <5>1. i - 1 \in DOMAIN s.todo /\ s.todo[i - 1] = todo[i]
          BY <2>2, <4>2
        <5>2. QED
          BY <3>3, <5>1
      <4>3. QED
        BY <4>1, <4>2
    <3>4. QED
      BY <1>6, <2>1, <3>2, <3>3 DEF Wiping, todo
  <2>5. QED
    BY <1>6, <1>7, <2>1, <2>3, <2>4 DEF Wiping
<1>11. Saving(p)'
  <2> SUFFICES ASSUME proc[p].does = "details" PROVE Saving(p)'
    BY <1>6, <1>7 DEF Saving
  <2> DEFINE v == Update(proc[p].tx, proc[p].other)
  <2>1. Saving(p) /\ proc[p].tx \in Rows /\ proc[p].other \in RowOrNone
    BY <1>1, TypeFacts DEF ProcInv, Saving
  <2>2. v \in Statement /\ v.row = proc[p].tx /\ v.to = proc[p].other
    BY <2>1, UpdateFacts
  <2> HIDE DEF v
  <2>3. proc[p].todo = <<v>>
    BY <2>1 DEF Saving, v
  <2>4. u = v /\ Tail(proc[p].todo) = <<>>
    BY <2>3
  <2>5. QED
    BY <1>4, <1>6, <1>7, <2>1, <2>2, <2>4 DEF Saving
<1>12. ProcInv(p)'
  <2>1. proc[p].does # "nothing"
    BY <1>1 DEF ProcInv, Idle
  <2>2. QED
    BY <1>6, <1>7, <1>8, <1>9, <1>10, <1>11, <2>1 DEF ProcInv
<1>13. QED
  <2>1. queue' \subseteq queue
    OBVIOUS
  <2>2. QED
    BY <1>1, <1>2, <1>6, <1>7, <1>12, <2>1, BeginStep DEF TypeOK, MissedTyped

LEMMA RunStep ==
  ASSUME LinkingInv, NEW p \in Procs, Run(p)
  PROVE  LinkingInv'
<1> DEFINE u == Head(proc[p].todo)
<1>1. proc[p].todo # <<>>
  BY DEF Run
<1>2. CASE BlockedBy(p) = {} /\ Fails(p, u) /\ Rollback(p)
  BY <1>2, EndStep DEF Rollback, LinkingInv, TypeOK
<1>3. CASE /\ BlockedBy(p) = {} /\ ~Fails(p, u)
           /\ lock' = [x \in Resources |-> IF x \in Takes(u) THEN p ELSE lock[x]]
           /\ proc' = [proc EXCEPT ![p].todo = Tail(@)]
           /\ UNCHANGED <<row, queue, lost, crushed, missed>>
  BY <1>1, <1>3, StatementRuns
<1>4. CASE /\ BlockedBy(p) # {} /\ lock[Row(u.row)] = None
           /\ lock' = [lock EXCEPT ![Row(u.row)] = p]
           /\ UNCHANGED <<row, queue, proc, lost, crushed, missed>>
  <2>1. u \in Statement
    BY <1>1, TypeFacts, HeadTailProperties DEF LinkingInv
  <2>2. Row(u.row) \in Resources
    BY <2>1, ResourceFacts DEF Statement
  <2>3. lock' = [x \in Resources |-> IF x \in {Row(u.row)} THEN p ELSE lock[x]]
    BY <1>4, <2>2, TypeFacts DEF LinkingInv
  <2>4. \A x \in Resources : lock[x] = p => lock'[x] = p
    BY <2>3
  <2>5. ProcInv(p)'
    BY <1>4, <2>4, Frame DEF LinkingInv, Ran, Present
  <2>6. proc[p] \in ProcType /\ proc' = [proc EXCEPT ![p] = proc[p]]
    BY <1>4, TypeFacts DEF LinkingInv
  <2> DEFINE R == {Row(u.row)}
  <2>7. R \in SUBSET Resources /\ \A x \in R : lock[x] \in {None, p}
    BY <1>4, <2>2
  <2>8. UNCHANGED <<row, crushed, lost>> /\ queue' \subseteq queue /\ MissedTyped'
    BY <1>4 DEF LinkingInv, TypeOK, MissedTyped
  <2>9. QED
    BY <2>3, <2>5, <2>6, <2>7, <2>8, BeginStep
<1>5. QED
  BY <1>2, <1>3, <1>4 DEF Run

\* p's locks let go without a write: the deadlock's victim and the worker that dies.
LEMMA VictimStep ==
  ASSUME LinkingInv, NEW p \in Procs, Victim(p)
  PROVE  LinkingInv'
BY EndStep DEF Victim, Rollback, LinkingInv, TypeOK

LEMMA DieStep ==
  ASSUME LinkingInv, NEW w \in Workers, Die(w)
  PROVE  LinkingInv'
<1>1. lost' \in Nat
  BY DEF Die, LinkingInv, TypeOK
<1>2. w \in Procs /\ Ends(w) /\ UNCHANGED <<row, crushed, missed>> /\ queue' = queue
  BY Disjoint DEF Die
<1>3. QED
  BY <1>1, <1>2, EndStep

-----------------------------------------------------------------------------
(* What begins: a process reads and notes what it will write.              *)

\* p begins to work on something without a lock.
LEMMA BeginUnlocked ==
  ASSUME LinkingInv, NEW p \in Procs, NEW s \in ProcType,
         proc' = [proc EXCEPT ![p] = s],
         UNCHANGED <<row, lock, crushed, lost>>, queue' \subseteq queue, MissedTyped',
         ProcInv(p)'
  PROVE  LinkingInv'
<1> DEFINE R == {}
<1>1. R \in SUBSET Resources /\ \A x \in R : lock[x] \in {None, p}
  OBVIOUS
<1>2. lock' = [x \in Resources |-> IF x \in R THEN p ELSE lock[x]]
  BY TypeFacts DEF LinkingInv
<1>3. QED
  BY <1>1, <1>2, BeginStep

LEMMA TakeTaskStep ==
  ASSUME LinkingInv, NEW w \in Workers, NEW r \in Rows, TakeTask(w, r)
  PROVE  LinkingInv'
<1>1. w \in Procs
  BY Disjoint
<1>2. UNCHANGED <<row, lock, crushed, lost>> /\ queue' \subseteq queue
  BY DEF TakeTask
<1>3. MissedTyped
  BY DEF LinkingInv, TypeOK, MissedTyped
<1>4. CASE UNCHANGED <<proc, missed>>
  <2>1. proc[w] \in ProcType /\ proc' = [proc EXCEPT ![w] = proc[w]] /\ proc'[w] = Idle
    BY <1>1, <1>4, TypeFacts DEF LinkingInv, TakeTask
  <2>2. ProcInv(w)' /\ MissedTyped'
    BY <1>3, <1>4, <2>1, IdleInv DEF MissedTyped
  <2>3. QED
    BY <1>1, <1>2, <2>1, <2>2, BeginUnlocked
<1>5. ASSUME NEW names \in Naming(r),
             proc' = [proc EXCEPT ![w] = [Idle EXCEPT !.does = "search", !.tx = r,
                                                       !.names = names]],
             missed' = missed \union Unnamed(r, names)
      PROVE  LinkingInv'
  <2> DEFINE s == [Idle EXCEPT !.does = "search", !.tx = r, !.names = names]
  <2>1. names \in SUBSET Accounts
    <3>1. r[1] \in Lines
      BY DEF Rows
    <3>2. QED
      BY <3>1, NamesAssumption DEF Naming
  <2>2. s \in ProcType /\ s.does = "search" /\ s.tx = r /\ s.todo = <<>>
    <3>1. r \in RowOrNone /\ "search" \in Tasks
      BY DEF RowOrNone, Tasks
    <3>2. s \in ProcType
      BY <2>1, <3>1, IdleType DEF ProcType
    <3>3. QED
      BY <3>2 DEF Idle
  <2>3. proc' = [proc EXCEPT ![w] = s] /\ proc'[w] = s
    BY <1>1, <1>5, TypeFacts DEF LinkingInv
  <2> HIDE DEF s
  <2>4. ProcInv(w)'
    BY <2>2, <2>3 DEF ProcInv, Searching, Pairing, Wiping, Saving
  <2>5. MissedTyped'
    <3>1. Unnamed(r, names) \subseteq SUBSET Rows
      BY DEF Unnamed
    <3>2. QED
      BY <1>3, <1>5, <3>1 DEF MissedTyped
  <2>6. QED
    BY <1>1, <1>2, <2>2, <2>3, <2>4, <2>5, BeginUnlocked
<1>6. QED
  BY <1>4, <1>5 DEF TakeTask

LEMMA SearchStep ==
  ASSUME LinkingInv, NEW w \in Workers, Search(w)
  PROVE  LinkingInv'
<1>1. /\ w \in Procs /\ UNCHANGED <<row, lock, crushed, lost>> /\ queue' \subseteq queue
      /\ MissedTyped'
  BY Disjoint DEF Search, LinkingInv, TypeOK, MissedTyped
<1> DEFINE r == proc[w].tx
<1>2. r \in Rows /\ proc[w] \in ProcType
  BY <1>1, TypeFacts DEF LinkingInv, ProcInv, Searching, Search
<1>3. CASE proc' = [proc EXCEPT ![w] = Idle]
  <2>1. proc'[w] = Idle
    BY <1>1, <1>3, TypeFacts DEF LinkingInv
  <2>2. QED
    BY <1>1, <1>3, <2>1, IdleType, IdleInv, BeginUnlocked
<1>4. ASSUME NEW s \in Counterparts(r, proc[w].names),
             proc' = [proc EXCEPT ![w] = [Idle EXCEPT !.does = "link", !.tx = r, !.other = s,
                                                      !.todo = BothSides(r, s)]]
      PROVE  LinkingInv'
  <2> DEFINE n == [Idle EXCEPT !.does = "link", !.tx = r, !.other = s,
                               !.todo = BothSides(r, s)]
  <2>1. s \in Rows /\ r # s
    BY DEF Counterparts, Matches
  <2>2. BothSides(r, s) \in Seq(Statement) /\ BothSides(r, s) # <<>>
    BY <1>2, <2>1, PairFacts
  <2>3. /\ n \in ProcType
        /\ n.does = "link" /\ n.tx = r /\ n.other = s /\ n.todo = BothSides(r, s)
    BY <1>2, <2>1, <2>2, IdleType DEF ProcType, Tasks, RowOrNone, Idle
  <2>4. proc' = [proc EXCEPT ![w] = n] /\ proc'[w] = n
    BY <1>1, <1>4, TypeFacts DEF LinkingInv
  <2> HIDE DEF n, r
  <2>5. ProcInv(w)'
    BY <1>2, <2>1, <2>2, <2>3, <2>4
    DEF ProcInv, Searching, Pairing, PairOf, Wiping, Saving
  <2>6. QED
    BY <1>1, <2>3, <2>4, <2>5, BeginUnlocked
<1>5. QED
  BY <1>3, <1>4 DEF Search

LEMMA StartScrapeStep ==
  ASSUME LinkingInv, NEW a \in Accounts, StartScrape(a)
  PROVE  LinkingInv'
<1> DEFINE D == Pending(a)
           N == LinkedTo(D)
           s == [Idle EXCEPT !.does = "scrape", !.wipes = D, !.nulls = N,
                             !.todo = Statements(D, N)]
<1>1. D \in SUBSET Rows /\ N \in SUBSET Rows
  BY DEF Pending, LinkedTo
<1> HIDE DEF D, N
<1>2. /\ Statements(D, N) \in Seq(Statement)
      /\ \A i \in DOMAIN Statements(D, N) : Statements(D, N)[i].to = None
      /\ \A r \in D \union N : \E i \in DOMAIN Statements(D, N) : Statements(D, N)[i].row = r
  BY <1>1, StatementsCover
<1>3. /\ s \in ProcType /\ s.does = "scrape" /\ s.todo = Statements(D, N)
      /\ s.wipes = D /\ s.nulls = N
  BY <1>1, <1>2 DEF Idle, ProcType, Tasks, RowOrNone
<1>4. /\ a \in Procs /\ proc' = [proc EXCEPT ![a] = s] /\ proc'[a] = s
      /\ UNCHANGED <<row, lock, crushed, lost>> /\ queue' \subseteq queue /\ MissedTyped'
  BY Disjoint, TypeFacts DEF LinkingInv, StartScrape, D, N, TypeOK, MissedTyped
<1> HIDE DEF s
<1>5. ProcInv(a)'
  BY <1>2, <1>3, <1>4 DEF ProcInv, Searching, Pairing, Wiping, Saving
<1>6. QED
  BY <1>3, <1>4, <1>5, BeginUnlocked

LEMMA StartDeleteStep ==
  ASSUME LinkingInv, NEW a \in Accounts, NEW r \in Rows, StartDelete(a, r)
  PROVE  LinkingInv'
<1> DEFINE D == {r}
           N == LinkedTo(D)
           s == [Idle EXCEPT !.does = "delete", !.wipes = D, !.nulls = N,
                             !.todo = Statements(D, N)]
           R == {Row(r)}
<1>1. D \in SUBSET Rows /\ N \in SUBSET Rows
  BY DEF LinkedTo
<1> HIDE DEF D, N
<1>2. /\ Statements(D, N) \in Seq(Statement)
      /\ \A i \in DOMAIN Statements(D, N) : Statements(D, N)[i].to = None
      /\ \A x \in D \union N : \E i \in DOMAIN Statements(D, N) : Statements(D, N)[i].row = x
  BY <1>1, StatementsCover
<1>3. /\ s \in ProcType /\ s.does = "delete" /\ s.todo = Statements(D, N)
      /\ s.wipes = D /\ s.nulls = N
  BY <1>1, <1>2 DEF Idle, ProcType, Tasks, RowOrNone
<1>4. /\ a \in Procs /\ proc' = [proc EXCEPT ![a] = s] /\ proc'[a] = s
      /\ UNCHANGED <<row, crushed, lost>> /\ queue' \subseteq queue /\ MissedTyped'
  BY Disjoint, TypeFacts DEF LinkingInv, StartDelete, D, N, TypeOK, MissedTyped
<1> HIDE DEF s
<1>5. ProcInv(a)'
  BY <1>2, <1>3, <1>4 DEF ProcInv, Searching, Pairing, Wiping, Saving
<1>6. R \in SUBSET Resources /\ \A x \in R : lock[x] \in {None, a}
  BY ResourceFacts DEF StartDelete
<1>7. lock' = [x \in Resources |-> IF x \in R THEN a ELSE lock[x]]
  BY <1>6, TypeFacts DEF LinkingInv, StartDelete
<1> HIDE DEF R
<1>8. QED
  BY <1>3, <1>4, <1>5, <1>6, <1>7, BeginStep

LEMMA ReadDetailsStep ==
  ASSUME LinkingInv, NEW e \in Enrichers, NEW r \in Rows, ReadDetails(e, r)
  PROVE  LinkingInv'
<1> DEFINE t == row[r].link
           s == [Idle EXCEPT !.does = "details", !.tx = r, !.other = t,
                             !.todo = <<Update(r, t)>>]
<1>1. t \in RowOrNone
  BY TypeFacts DEF LinkingInv
<1>2. Update(r, t) \in Statement
  BY <1>1, UpdateFacts
<1>3. <<Update(r, t)>> \in Seq(Statement) /\ <<Update(r, t)>> # <<>>
  BY <1>2
<1> HIDE DEF t
<1>4. /\ s \in ProcType /\ s.does = "details" /\ s.tx = r /\ s.other = t
      /\ s.todo = <<Update(r, t)>>
  BY <1>1, <1>3 DEF Idle, ProcType, Tasks, RowOrNone
<1>5. /\ e \in Procs /\ proc' = [proc EXCEPT ![e] = s] /\ proc'[e] = s
      /\ UNCHANGED <<row, lock, crushed, lost>> /\ queue' \subseteq queue /\ MissedTyped'
  BY Disjoint, TypeFacts DEF LinkingInv, ReadDetails, t, TypeOK, MissedTyped
<1> HIDE DEF s
<1>6. ProcInv(e)'
  BY <1>3, <1>4, <1>5 DEF ProcInv, Searching, Pairing, Wiping, Saving
<1>7. QED
  BY <1>4, <1>5, <1>6, BeginUnlocked

-----------------------------------------------------------------------------
(* What commits.                                                           *)

\* A transaction that commits what its locks allow it: links to the targets it holds,
\* and the removal of rows it holds.
LEMMA CommitStep ==
  ASSUME LinkingInv, NEW p \in Procs, Ends(p), row' \in [Rows -> RowType],
         \A x \in Rows : \/ row'[x].link \in {row[x].link, None}
                         \/ row'[x].link \in Rows /\ lock[Target(row'[x].link)] = p,
         \A x \in Rows : Present(x) /\ ~Present(x)' => lock[Row(x)] = p,
         \A x \in Rows : row'[x].link # None => Present(x)',
         queue' \subseteq {r \in Rows : row'[r].st # "unborn"},
         lost' = lost, crushed' \subseteq Rows, MissedTyped', LinksMutual'
  PROVE  LinkingInv'
<1>1. TypeOK
  BY DEF LinkingInv
<1>2. TypeOK'
  BY <1>1, EndsFrame DEF TypeOK, ProcType, RowType, Statement, MissedTyped
<1>3. ASSUME NEW q \in Procs PROVE ProcInv(q)'
  <2>1. CASE q = p
    BY <1>1, <2>1, EndsFrame, IdleInv
  <2>2. CASE q # p
    <3>1. proc'[q] = proc[q] /\ \A x \in Resources : lock[x] = q => lock'[x] = q
      BY <1>1, <2>2, EndsFrame
    <3>2. ASSUME NEW u \in Statement, u.to # None, Ran(q, u)
          PROVE  Present(u.row)' /\ \A x \in Rows \ {u.row} : row'[x].link # u.to
      <4>1. u.row \in Rows /\ u.to \in Rows
        BY <3>2 DEF Statement, RowOrNone
      <4>2. Present(u.row)'
        BY <2>2, <3>2, <4>1 DEF Ran
      <4>3. QED
        BY <2>2, <3>2, <4>1, <4>2 DEF Ran
    <3>3. QED
      BY <1>1, <3>1, <3>2, Frame DEF LinkingInv
  <2>3. QED
    BY <2>1, <2>2
<1>4. QED
  BY <1>2, <1>3 DEF LinkingInv

\* LinksMutual of the next state, one row at a time.
LEMMA MutualNext ==
  ASSUME \A x \in Rows : row'[x].link # None =>
           \E y \in Rows : /\ row'[x].link = y /\ Present(y)'
                          /\ (row'[y].link = x \/ {x, y} \intersect crushed' # {})
  PROVE  LinksMutual'
<1>1. ASSUME NEW x \in Rows, row'[x].link # None
      PROVE  /\ row'[row'[x].link].st \in {"pending", "posted"}
             /\ \/ row'[row'[x].link].link = x
                \/ {x, row'[x].link} \intersect crushed' # {}
  BY <1>1 DEF Present
<1>2. QED
  BY <1>1 DEF LinksMutual, Present

\* What LinkForGood asks of a step.
LinkKept ==
  \A x \in Rows :
    row[x].link # None /\ Present(row[x].link) /\ row[row[x].link].st = row'[row[x].link].st
    /\ row'[x].st \in {"pending", "posted"}
      => row'[x].link = row[x].link \/ {x, row[x].link} \intersect crushed' # {}

\* Both statements of a pair have run: no other row leads to either of the two.
LEMMA LinkStep ==
  ASSUME LinkingInv, NEW w \in Workers, Link(w)
  PROVE  LinkingInv' /\ LinkKept
<1> DEFINE r == proc[w].tx
           s == proc[w].other
<1>1. w \in Procs /\ TypeOK /\ LinksMutual /\ Pairing(w)
  BY Disjoint DEF LinkingInv, ProcInv
<1>2. /\ proc[w].does = "link" /\ proc[w].todo = <<>> /\ Ends(w)
      /\ UNCHANGED <<queue, lost, crushed, missed>>
  BY DEF Link
<1>3. r \in Rows /\ s \in Rows /\ r # s
  BY <1>1, <1>2 DEF Pairing
<1>4. Ran(w, Update(r, s)) /\ Ran(w, Update(s, r))
  <2>1. PairOf(w) # <<>> /\ PairOf(w)[1] = Update(r, s) /\ PairOf(w)[2] = Update(s, r)
    BY <1>3, PairFacts DEF PairOf
  <2> HIDE DEF r, s
  <2>2. QED
    BY <1>1, <1>2, <2>1 DEF Pairing
<1>5. /\ lock[Row(r)] = w /\ lock[Row(s)] = w /\ lock[Target(r)] = w /\ lock[Target(s)] = w
      /\ Present(r) /\ Present(s)
      /\ \A x \in Rows \ {r} : row[x].link # s
      /\ \A x \in Rows \ {s} : row[x].link # r
  BY <1>3, <1>4, UpdateFacts DEF Ran, RowOrNone
<1>6. row' = [row EXCEPT ![r].link = s, ![s].link = r]
  BY <1>5 DEF Link
<1> HIDE DEF r, s
<1>7. /\ row' \in [Rows -> RowType]
      /\ row'[r].link = s /\ row'[s].link = r
      /\ \A x \in Rows : row'[x].st = row[x].st
      /\ \A x \in Rows \ {r, s} : row'[x] = row[x]
  <2>1. r \in RowOrNone /\ s \in RowOrNone
    BY <1>3 DEF RowOrNone
  <2>2. QED
    BY <1>1, <1>3, <1>6, <2>1, TypeFacts DEF RowType
<1>8. \A x \in Rows : Present(x)' <=> Present(x)
  BY <1>7 DEF Present
<1>9. ASSUME NEW x \in Rows, row'[x].link # None
      PROVE  \E y \in Rows : /\ row'[x].link = y /\ Present(y)'
                            /\ (row'[y].link = x \/ {x, y} \intersect crushed' # {})
  <2>1. CASE x = r
    BY <2>1, <1>3, <1>5, <1>7, <1>8
  <2>2. CASE x = s
    BY <2>2, <1>3, <1>5, <1>7, <1>8
  <2>3. CASE x \notin {r, s}
    <3>1. PICK y \in Rows : y = row[x].link
      BY <2>3, <1>1, <1>7, <1>9, TypeFacts DEF RowOrNone
    <3>2. y \notin {r, s} /\ row'[x].link = y /\ row'[y] = row[y]
      BY <2>3, <3>1, <1>5, <1>7
    <3>3. Present(y) /\ (row[y].link = x \/ {x, y} \intersect crushed # {})
      BY <3>1, <3>2, <1>1, <1>9 DEF LinksMutual
    <3>4. Present(y)'
      BY <3>3, <1>8
    <3>5. QED
      BY <3>2, <3>3, <3>4, <1>2
  <2>4. QED
    BY <2>1, <2>2, <2>3
<1>10. LinksMutual'
  BY <1>9, MutualNext
<1>11. \A x \in Rows : row'[x].link # None => Present(x)'
  BY <1>1, <1>3, <1>5, <1>7, <1>8, TypeFacts
<1>12. \A x \in Rows : \/ row'[x].link \in {row[x].link, None}
                       \/ row'[x].link \in Rows /\ lock[Target(row'[x].link)] = w
  BY <1>3, <1>5, <1>7
<1>13. /\ queue' \subseteq {x \in Rows : row'[x].st # "unborn"} /\ crushed' \subseteq Rows
       /\ MissedTyped'
  BY <1>1, <1>2, <1>7 DEF TypeOK, MissedTyped
<1>14. LinkingInv'
  BY <1>1, <1>2, <1>7, <1>8, <1>10, <1>11, <1>12, <1>13, CommitStep
<1>15. LinkKept
  <2> SUFFICES ASSUME NEW x \in Rows, row[x].link # None
               PROVE  row'[x].link = row[x].link \/ {x, row[x].link} \intersect crushed' # {}
    BY DEF LinkKept
  <2>1. CASE x \notin {r, s}
    BY <2>1, <1>7
  <2>2. CASE x = r
    <3>1. \/ row[row[x].link].link = x /\ row[x].link \in Rows
          \/ {x, row[x].link} \intersect crushed' # {}
      BY <1>1, <1>2, TypeFacts DEF LinksMutual, RowOrNone
    <3>2. QED
      BY <2>2, <3>1, <1>5, <1>7
  <2>3. CASE x = s
    <3>1. \/ row[row[x].link].link = x /\ row[x].link \in Rows
          \/ {x, row[x].link} \intersect crushed' # {}
      BY <1>1, <1>2, TypeFacts DEF LinksMutual, RowOrNone
    <3>2. QED
      BY <2>3, <3>1, <1>5, <1>7
  <2>4. QED
    BY <2>1, <2>2, <2>3
<1>16. QED
  BY <1>14, <1>15

\* The rows left, with new ones among them (CommitScrape's row').
Inserted(left, new, st) ==
  [r \in Rows |-> IF r \in new THEN [Unborn EXCEPT !.st = st[r]] ELSE left[r]]

\* A transaction that holds D and N removes D; the keys show that no link is left that
\* leads to it, and the new rows have none.
LEMMA WipeStep ==
  ASSUME LinkingInv, NEW a \in Accounts, Ends(a),
         NEW D \in SUBSET Rows, NEW N \in SUBSET Rows,
         \A x \in D \union N : lock[Row(x)] = a, KeysHold(D, N),
         NEW new \in SUBSET {x \in Rows : Removed(D, N)[x].st = "unborn"},
         NEW st \in [new -> {"pending", "posted"}],
         row' = Inserted(Removed(D, N), new, st),
         queue' \subseteq queue \union new, UNCHANGED <<lost, crushed>>, MissedTyped'
  PROVE  LinkingInv' /\ LinkKept
<1>0. row' = [x \in Rows |-> IF x \in new THEN [Unborn EXCEPT !.st = st[x]]
                             ELSE Removed(D, N)[x]]
  BY DEF Inserted
<1>1. a \in Procs /\ TypeOK /\ LinksMutual
  BY Disjoint DEF LinkingInv
<1>2. ASSUME NEW x \in new
      PROVE  /\ x \in Rows \ D /\ row[x].st = "unborn"
             /\ row[x].link = None /\ row'[x].link = None
             /\ row'[x].st \in {"pending", "posted"} /\ row'[x] \in RowType
  <2>1. x \in Rows \ D /\ row[x].st = "unborn"
    <3>1. x \in Rows /\ Removed(D, N)[x].st = "unborn"
      OBVIOUS
    <3>2. row[x] \in RowType
      BY <1>1, <3>1, TypeFacts
    <3>3. CASE x \in D
      <4>1. Removed(D, N)[x] = Gone
        BY <3>1, <3>3 DEF Removed
      <4>2. QED
        BY <3>1, <4>1 DEF Gone, Unborn
    <3>4. CASE x \notin D
      <4>1. Removed(D, N)[x] = IF x \in N /\ row[x].link \in D
                               THEN [row[x] EXCEPT !.link = None] ELSE row[x]
        BY <3>1, <3>4 DEF Removed
      <4>2. Removed(D, N)[x].st = row[x].st
        BY <3>2, <4>1 DEF RowType
      <4>3. QED
        BY <3>1, <3>4, <4>2
    <3>5. QED
      BY <3>3, <3>4
  <2>2. row[x].link = None
    BY <1>1, <2>1, TypeFacts DEF Present
  <2>3. row'[x] = [Unborn EXCEPT !.st = st[x]] /\ st[x] \in {"pending", "posted"}
    BY <1>0, <2>1
  <2>4. QED
    BY <2>1, <2>2, <2>3 DEF Unborn, RowType, States, RowOrNone
<1>3. \A x \in D : row'[x] = Gone /\ Gone \in RowType /\ Gone.link = None
                   /\ Gone.st = "gone"
  BY <1>0, <1>2 DEF Removed, Gone, Unborn, RowType, States, RowOrNone
<1>4. ASSUME NEW x \in Rows \ (D \union new)
      PROVE  /\ row'[x] \in RowType /\ row'[x].st = row[x].st
             /\ IF x \in N /\ row[x].link \in D THEN row'[x].link = None
                                                ELSE row'[x].link = row[x].link
  <2>1. row'[x] = IF x \in N /\ row[x].link \in D THEN [row[x] EXCEPT !.link = None] ELSE row[x]
    BY <1>0 DEF Removed
  <2>2. row[x] \in RowType
    BY <1>1, TypeFacts
  <2>3. QED
    BY <2>1, <2>2 DEF RowType, RowOrNone
<1>5. row' \in [Rows -> RowType]
  BY <1>0, <1>2, <1>3, <1>4
<1>6. ASSUME NEW x \in Rows, row'[x].link # None
      PROVE  /\ x \in Rows \ (D \union new) /\ row'[x].link = row[x].link
             /\ row[x].link \in Rows \ (D \union new) /\ Present(x)
  <2>1. x \in Rows \ (D \union new)
    BY <1>2, <1>3, <1>6
  <2>2. row'[x].link = row[x].link /\ ~(x \in N /\ row[x].link \in D)
    BY <1>4, <1>6, <2>1
  <2>3. row[x].link \in Rows /\ Present(x) /\ Present(row[x].link)
    BY <1>1, <1>6, <2>2, TypeFacts DEF LinksMutual, RowOrNone
  <2>4. row[x].link \notin D
    BY <2>1, <2>2, <2>3 DEF KeysHold, LinkedTo
  <2>5. row[x].link \notin new
    BY <1>2, <2>3 DEF Present
  <2>6. QED
    BY <2>1, <2>2, <2>3, <2>4, <2>5
<1>7. ASSUME NEW x \in Rows, row'[x].link # None
      PROVE  \E y \in Rows : /\ row'[x].link = y /\ Present(y)'
                            /\ (row'[y].link = x \/ {x, y} \intersect crushed' # {})
  <2>1. PICK y \in Rows \ (D \union new) : row[x].link = y
    BY <1>6, <1>7
  <2>2. x \in Rows \ (D \union new) /\ row'[x].link = y /\ row[x].link # None
    BY <1>6, <1>7, <2>1
  <2>3. Present(y) /\ (row[y].link = x \/ {x, y} \intersect crushed # {})
    BY <1>1, <2>1, <2>2 DEF LinksMutual
  <2>4. row'[y].st = row[y].st /\ (row[y].link = x => row'[y].link = x)
    <3>1. \/ row'[y].link = row[y].link
          \/ row[y].link \in D /\ row'[y].link = None
      BY <1>4, <2>1
    <3>2. x \notin D /\ row'[y].st = row[y].st
      BY <1>4, <2>1, <2>2
    <3>3. QED
      BY <3>1, <3>2
  <2>5. Present(y)'
    BY <2>3, <2>4 DEF Present
  <2>6. row'[y].link = x \/ {x, y} \intersect crushed' # {}
    BY <2>3, <2>4
  <2>7. QED
    BY <2>1, <2>2, <2>5, <2>6
<1>8. LinksMutual'
  BY <1>7, MutualNext
<1>9. \A x \in Rows : row'[x].link # None => Present(x)'
  BY <1>4, <1>6 DEF Present
<1>10. \A x \in Rows : row'[x].link \in {row[x].link, None}
  BY <1>6
<1>11. \A x \in Rows : Present(x) /\ ~Present(x)' => lock[Row(x)] = a
  <2> TAKE x \in Rows
  <2>1. CASE x \in D
    BY <2>1
  <2>2. CASE x \in new
    BY <1>2, <2>2 DEF Present
  <2>3. CASE x \notin D \union new
    BY <1>4, <2>3 DEF Present
  <2>4. QED
    BY <2>1, <2>2, <2>3
<1>12. queue' \subseteq {x \in Rows : row'[x].st # "unborn"}
  <2>1. ASSUME NEW x \in queue' PROVE x \in Rows /\ row'[x].st # "unborn"
    <3>1. x \in new \/ (x \in Rows /\ row[x].st # "unborn")
      BY <1>1, <2>1 DEF TypeOK
    <3>2. CASE x \in new
      BY <1>2, <3>2
    <3>3. CASE x \in D
      BY <1>3, <3>3
    <3>4. CASE x \notin D \union new
      BY <1>4, <3>1, <3>4
    <3>5. QED
      BY <3>2, <3>3, <3>4
  <2>2. QED
    BY <2>1
<1>13. crushed' \subseteq Rows
  BY <1>1 DEF TypeOK
<1>14. LinkingInv'
  BY <1>1, <1>5, <1>8, <1>9, <1>10, <1>11, <1>12, <1>13, CommitStep
<1>15. LinkKept
  <2> SUFFICES ASSUME NEW x \in Rows, row[x].link # None,
                      row[row[x].link].st = row'[row[x].link].st, Present(row[x].link),
                      row'[x].st \in {"pending", "posted"}
               PROVE  row'[x].link = row[x].link
    BY DEF LinkKept
  <2>1. x \notin D
    BY <1>3
  <2>2. x \notin new
    BY <1>2
  <2>3. row[x].link \notin D
    BY <1>3 DEF Present
  <2>4. QED
    BY <1>4, <2>1, <2>2, <2>3
<1>16. QED
  BY <1>14, <1>15

LEMMA RowsKept ==
  ASSUME row' = row PROVE LinkKept
BY DEF LinkKept

\* A transaction that has run its statements holds each row it is to write.
LEMMA CommitScrapeStep ==
  ASSUME LinkingInv, NEW a \in Accounts, CommitScrape(a)
  PROVE  LinkingInv' /\ LinkKept
<1>1. a \in Procs /\ TypeOK /\ Wiping(a)
  BY Disjoint DEF LinkingInv, ProcInv
<1>2. PICK D \in SUBSET Rows : D = proc[a].wipes
  BY <1>1, TypeFacts
<1>3. PICK N \in SUBSET Rows : N = proc[a].nulls
  BY <1>1, TypeFacts
<1> DEFINE left == Removed(D, N)
<1>4. \A x \in D \union N : lock[Row(x)] = a
  <2>1. CASE proc[a].does = "scrape" /\ proc[a].todo = <<>>
    BY <1>1, <1>2, <1>3, <2>1 DEF Wiping
  <2>2. CASE proc[a] = Idle
    BY <1>2, <1>3, <2>2 DEF Idle
  <2>3. QED
    BY <2>1, <2>2 DEF CommitScrape
<1>5. CASE ~KeysHold(D, N)
  <2>1. Rollback(a)
    BY <1>2, <1>3, <1>5 DEF CommitScrape
  <2>2. QED
    BY <1>1, <2>1, EndStep, RowsKept DEF Rollback, TypeOK
<1>6. CASE KeysHold(D, N)
  <2>1. PICK new \in SUBSET Insertable(a, left) :
          \E st \in [new -> {"pending", "posted"}] :
             row' = Inserted(left, new, st) /\ queue' = queue \union LinkTasks(new, st)
    BY <1>2, <1>3, <1>6 DEF CommitScrape, Inserted
  <2>2. Ends(a) /\ UNCHANGED <<lost, crushed>> /\ MissedTyped'
    BY <1>1, <1>2, <1>3, <1>6 DEF CommitScrape, TypeOK, MissedTyped, Forgotten
  <2>3. new \in SUBSET {x \in Rows : left[x].st = "unborn"}
    BY DEF Insertable
  <2>4. PICK st \in [new -> {"pending", "posted"}] :
             row' = Inserted(left, new, st) /\ queue' \subseteq queue \union new
    BY <2>1 DEF LinkTasks
  <2>5. QED
    BY <1>4, <1>6, <2>2, <2>3, <2>4, WipeStep
<1>7. QED
  BY <1>5, <1>6

LEMMA CommitDeleteStep ==
  ASSUME LinkingInv, NEW a \in Accounts, CommitDelete(a)
  PROVE  LinkingInv' /\ LinkKept
<1>1. a \in Procs /\ TypeOK /\ Wiping(a)
  BY Disjoint DEF LinkingInv, ProcInv
<1>2. PICK D \in SUBSET Rows : D = proc[a].wipes
  BY <1>1, TypeFacts
<1>3. PICK N \in SUBSET Rows : N = proc[a].nulls
  BY <1>1, TypeFacts
<1> DEFINE left == Removed(D, N)
           none == [x \in {} |-> "pending"]
<1>4. \A x \in D \union N : lock[Row(x)] = a
  BY <1>1, <1>2, <1>3 DEF Wiping, CommitDelete
<1>5. CASE ~KeysHold(D, N)
  <2>1. Rollback(a)
    BY <1>2, <1>3, <1>5 DEF CommitDelete
  <2>2. QED
    BY <1>1, <2>1, EndStep, RowsKept DEF Rollback, TypeOK
<1>6. CASE KeysHold(D, N)
  <2>1. row' = left /\ Ends(a) /\ UNCHANGED <<queue, lost, crushed>> /\ MissedTyped'
    BY <1>1, <1>2, <1>3, <1>6 DEF CommitDelete, TypeOK, MissedTyped, Forgotten
  <2>2. row' = Inserted(left, {}, none)
    BY <2>1 DEF Removed, Inserted
  <2>3. none \in [{} -> {"pending", "posted"}]
    OBVIOUS
  <2> HIDE DEF none
  <2>4. QED
    BY <1>4, <1>6, <2>1, <2>2, <2>3, WipeStep
<1>7. QED
  BY <1>5, <1>6

\* A save replaces a link by the one that was read; the row counts as crushed then.
LEMMA SaveDetailsStep ==
  ASSUME LinkingInv, NEW e \in Enrichers, SaveDetails(e)
  PROVE  LinkingInv' /\ LinkKept
<1>1. e \in Procs /\ TypeOK /\ LinksMutual /\ Saving(e)
  BY Disjoint DEF LinkingInv, ProcInv
<1>2. proc[e].does = "details" /\ proc[e].todo = <<>>
  BY DEF SaveDetails
<1>3. PICK r \in Rows : r = proc[e].tx /\ lock[Row(r)] = e
  BY <1>1, <1>2 DEF Saving
<1>4. PICK t \in RowOrNone : t = proc[e].other /\ (t # None => t \in Rows /\ lock[Target(t)] = e)
  BY <1>1, <1>2, TypeFacts DEF Saving, RowOrNone
<1>5. CASE t # None /\ ~Present(t)
  <2>1. Rollback(e)
    BY <1>4, <1>5 DEF SaveDetails
  <2>2. QED
    BY <1>1, <2>1, EndStep, RowsKept DEF Rollback, TypeOK
<1>6. CASE t = None \/ Present(t)
  <2> DEFINE same == Present(r) /\ row[r].link = t
  <2>1. /\ row' = [row EXCEPT ![r] = Saved(e)] /\ Ends(e) /\ UNCHANGED <<queue, lost, missed>>
        /\ crushed' = IF same THEN crushed ELSE crushed \union {r}
    BY <1>3, <1>4, <1>6 DEF SaveDetails
  <2>2. Saved(e) \in RowType /\ Saved(e).link = t /\ Saved(e).st = "posted"
    BY <1>3, <1>4 DEF Saved, RowType, States
  <2>3. /\ row' \in [Rows -> RowType] /\ row'[r].link = t /\ row'[r].st = "posted"
        /\ \A x \in Rows \ {r} : row'[x] = row[x]
    BY <1>1, <1>3, <1>4, <2>1, <2>2, TypeFacts
  <2>4. Present(r)' /\ \A x \in Rows : Present(x) => Present(x)'
    BY <1>3, <1>4, <2>3 DEF Present
  <2>5. /\ crushed \subseteq crushed' /\ crushed' \subseteq Rows /\ (same \/ r \in crushed')
        /\ MissedTyped'
    BY <1>1, <1>3, <1>4, <2>1 DEF TypeOK, MissedTyped
  <2>6. ASSUME NEW x \in Rows, row'[x].link # None
        PROVE  \E y \in Rows : /\ row'[x].link = y /\ Present(y)'
                              /\ (row'[y].link = x \/ {x, y} \intersect crushed' # {})
    <3>1. CASE x = r
      <4>1. row'[x].link = t /\ t # None /\ t \in Rows /\ Present(t)'
        BY <1>3, <1>4, <1>6, <2>3, <2>4, <2>6, <3>1
      <4>2. CASE r \in crushed'
        BY <3>1, <4>1, <4>2
      <4>3. CASE same
        <5>1. row[t].link = r \/ {r, t} \intersect crushed # {}
          BY <1>1, <1>3, <1>4, <4>1, <4>3 DEF LinksMutual
        <5>2. row'[t].link = row[t].link
          BY <2>3, <4>1, <4>3
        <5>3. QED
          BY <2>5, <3>1, <4>1, <5>1, <5>2
      <4>4. QED
        BY <2>5, <4>2, <4>3
    <3>2. CASE x # r
      <4>1. PICK y \in Rows : y = row[x].link /\ y = row'[x].link /\ y # None
        BY <1>1, <2>3, <2>6, <3>2, TypeFacts DEF RowOrNone
      <4>2. Present(y) /\ (row[y].link = x \/ {x, y} \intersect crushed # {})
        BY <1>1, <4>1 DEF LinksMutual
      <4>3. row'[y].link = row[y].link \/ y \in crushed'
        BY <2>3, <2>5, <4>1
      <4>4. Present(y)'
        BY <2>4, <4>2
      <4>5. QED
        BY <2>5, <4>1, <4>2, <4>3, <4>4
    <3>3. QED
      BY <3>1, <3>2
  <2>7. LinksMutual'
    BY <2>6, MutualNext
  <2>8. \A x \in Rows : \/ row'[x].link \in {row[x].link, None}
                        \/ row'[x].link \in Rows /\ lock[Target(row'[x].link)] = e
    BY <1>3, <1>4, <2>3
  <2>9. \A x \in Rows : row'[x].link # None => Present(x)'
    BY <1>1, <2>3, <2>4, TypeFacts
  <2>10. queue' \subseteq {x \in Rows : row'[x].st # "unborn"}
    BY <1>1, <2>1, <2>3 DEF TypeOK
  <2>11. \A x \in Rows : Present(x) /\ ~Present(x)' => lock[Row(x)] = e
    BY <2>4
  <2>12. LinkingInv'
    BY <1>1, <2>1, <2>3, <2>5, <2>7, <2>8, <2>9, <2>10, <2>11, CommitStep
  <2>13. LinkKept
    <3>1. ASSUME NEW x \in Rows, row[x].link # None
          PROVE  row'[x].link = row[x].link \/ x \in crushed'
      BY <2>3, <2>5
    <3>2. QED
      BY <3>1 DEF LinkKept
  <2>14. QED
    BY <2>12, <2>13
<1>7. QED
  BY <1>5, <1>6

\* A new description touches no link, no state and no lock.
LEMMA EditTextStep ==
  ASSUME LinkingInv, NEW a \in Accounts, NEW r \in Rows, EditText(a, r)
  PROVE  LinkingInv' /\ LinkKept
<1>1. TypeOK /\ LinksMutual /\ row \in [Rows -> RowType]
  BY TypeFacts DEF LinkingInv
<1>2. row' = [row EXCEPT ![r].text = "rewritten"]
  BY DEF EditText
<1>3. UNCHANGED <<queue, proc, lock, lost, crushed, missed>>
  BY DEF EditText
<1>4. ASSUME NEW x \in Rows
      PROVE  row'[x] \in RowType /\ row'[x].st = row[x].st /\ row'[x].link = row[x].link
  BY <1>1, <1>2 DEF RowType
<1>5. row' \in [Rows -> RowType]
  BY <1>1, <1>2, <1>4
<1>6. \A x \in Rows : Present(x)' <=> Present(x)
  BY <1>4 DEF Present
<1>7. TypeOK'
  BY <1>1, <1>3, <1>4, <1>5, <1>6 DEF TypeOK, RowType
<1>8. ASSUME NEW x \in Rows, row'[x].link # None
      PROVE  \E y \in Rows : /\ row'[x].link = y /\ Present(y)'
                            /\ (row'[y].link = x \/ {x, y} \intersect crushed' # {})
  <2>1. PICK y \in Rows : y = row[x].link
    BY <1>1, <1>4, <1>8 DEF RowType, RowOrNone
  <2>2. Present(y) /\ (row[y].link = x \/ {x, y} \intersect crushed # {})
    BY <1>1, <1>4, <1>8, <2>1 DEF LinksMutual
  <2>3. QED
    BY <1>3, <1>4, <1>6, <2>1, <2>2
<1>9. LinksMutual'
  BY <1>8, MutualNext
<1>10. ASSUME NEW q \in Procs PROVE ProcInv(q)'
  <2>1. proc'[q] = proc[q] /\ \A x \in Resources : lock[x] = q => lock'[x] = q
    BY <1>3
  <2>2. ASSUME NEW u \in Statement, u.to # None, Ran(q, u)
        PROVE  Present(u.row)' /\ \A x \in Rows \ {u.row} : row'[x].link # u.to
    BY <1>4, <1>6, <2>2 DEF Ran, Statement
  <2>3. QED
    BY <1>1, <2>1, <2>2, Frame DEF LinkingInv
<1>11. LinkKept
  BY <1>4 DEF LinkKept
<1>12. QED
  BY <1>7, <1>9, <1>10, <1>11 DEF LinkingInv

-----------------------------------------------------------------------------
(* The specification.                                                      *)

LEMMA InitInv == Init => LinkingInv
<1> SUFFICES ASSUME Init PROVE LinkingInv
  OBVIOUS
<1>1. row \in [Rows -> RowType] /\ \A r \in Rows : row[r].link = None
  BY DEF Init, Unborn, RowType, States, RowOrNone
<1>2. proc \in [Procs -> ProcType] /\ \A p \in Procs : proc[p] = Idle
  BY IdleType DEF Init
<1>3. TypeOK
  BY <1>1, <1>2 DEF Init, TypeOK, RowType, ProcType, Statement
<1>4. LinksMutual
  BY <1>1 DEF LinksMutual
<1>5. \A p \in Procs : ProcInv(p)
  BY <1>2 DEF ProcInv, Searching, Pairing, Wiping, Saving, Idle
<1>6. QED
  BY <1>3, <1>4, <1>5 DEF LinkingInv

LEMMA InvStep ==
  ASSUME LinkingInv, [Next]_vars
  PROVE  LinkingInv' /\ LinkKept
<1>1. CASE UNCHANGED vars
  <2>1. UNCHANGED <<row, queue, proc, lock, lost, crushed, missed>>
    BY <1>1 DEF vars
  <2>2. TypeOK' /\ LinksMutual'
    BY <2>1 DEF LinkingInv, TypeOK, LinksMutual, Present
  <2>3. \A q \in Procs : ProcInv(q)'
    BY <2>1, Frame DEF LinkingInv, Ran, Present
  <2>4. QED
    BY <2>1, <2>2, <2>3, RowsKept DEF LinkingInv
<1>2. ASSUME NEW p \in Procs, Run(p) PROVE LinkingInv' /\ LinkKept
  <2>1. row' = row
    BY <1>2 DEF Run, Rollback
  <2>2. QED
    BY <1>2, <2>1, RunStep, RowsKept
<1>3. ASSUME NEW p \in Procs, Victim(p) PROVE LinkingInv' /\ LinkKept
  BY <1>3, VictimStep, RowsKept DEF Victim, Rollback
<1>4. ASSUME NEW w \in Workers, Die(w) PROVE LinkingInv' /\ LinkKept
  BY <1>4, DieStep, RowsKept DEF Die
<1>5. ASSUME NEW w \in Workers, NEW r \in Rows, TakeTask(w, r) PROVE LinkingInv' /\ LinkKept
  BY <1>5, TakeTaskStep, RowsKept DEF TakeTask
<1>6. ASSUME NEW w \in Workers, Search(w) PROVE LinkingInv' /\ LinkKept
  BY <1>6, SearchStep, RowsKept DEF Search
<1>7. ASSUME NEW a \in Accounts, StartScrape(a) PROVE LinkingInv' /\ LinkKept
  BY <1>7, StartScrapeStep, RowsKept DEF StartScrape
<1>8. ASSUME NEW a \in Accounts, NEW r \in Rows, StartDelete(a, r)
      PROVE  LinkingInv' /\ LinkKept
  BY <1>8, StartDeleteStep, RowsKept DEF StartDelete
<1>9. ASSUME NEW e \in Enrichers, NEW r \in Rows, ReadDetails(e, r)
      PROVE  LinkingInv' /\ LinkKept
  BY <1>9, ReadDetailsStep, RowsKept DEF ReadDetails
<1>10. QED
  BY <1>1, <1>2, <1>3, <1>4, <1>5, <1>6, <1>7, <1>8, <1>9, LinkStep, CommitScrapeStep,
     CommitDeleteStep, SaveDetailsStep, EditTextStep
  DEF Next, WorkerStep, AccountStep, AccountStarts, DetailsStarts

LEMMA InvAlways == Spec => []LinkingInv
<1>1. LinkingInv /\ [Next]_vars => LinkingInv'
  BY InvStep
<1>2. QED
  BY <1>1, InitInv, PTL DEF Spec

\* Rows, tasks and processes keep their types, and a row that is gone leads nowhere.
THEOREM TypeCorrect == Spec => []TypeOK
<1>1. LinkingInv => TypeOK
  BY DEF LinkingInv
<1>2. QED
  BY <1>1, InvAlways, PTL

\* Every link leads to a row that is there and leads back, whatever link tasks, wipes,
\* deletions, saves, deadlock victims and deaths of workers interleave, but for rows that
\* a stale save of details overwrote (attempt_link, sync_scrape's wipe, transaction.delete).
THEOREM LinksMutualCorrect == Spec => []LinksMutual
<1>1. LinkingInv => LinksMutual
  BY DEF LinkingInv
<1>2. QED
  BY <1>1, InvAlways, PTL

\* No task replaces a link that another wrote after its search: the save of a link meets
\* the lock of its row and the unique index first (attempt_link).
THEOREM LinkForGoodCorrect == Spec => LinkForGood
<1>1. LinkingInv /\ [Next]_vars => LinkKept
  BY InvStep
<1>2. LinkingInv /\ [Next]_vars => [LinkKept]_vars
  BY <1>1
<1>3. LinkForGood <=> [][LinkKept]_vars
  BY DEF LinkForGood, LinkKept
<1>4. QED
  BY <1>2, <1>3, InvAlways, PTL DEF Spec
=============================================================================
