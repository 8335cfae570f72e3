---------------------------- MODULE RowLocksProofs ----------------------------
(***************************************************************************)
(* Proofs about RowLocks: calls that lock the rows they save are           *)
(* serializable, on either engine, for any budgets and processes, and      *)
(* those that take their locks in order never wait for each other.         *)
(*                                                                         *)
(* What a process knows at a point of its program is a label: the rows it  *)
(* has locked and read, those it has saved, and what it has found in them. *)
(* A program is sound if labels can be given to its points such that each  *)
(* instruction leads from one label to the next.  The invariant says that  *)
(* the rest of each process's call is sound, from a label that holds.      *)
(*                                                                         *)
(* The Redis locks have a count instead of a label: the rest of a program  *)
(* leaves exactly the blocks that are open before it.                      *)
(*                                                                         *)
(* The order of the locks has a holding: what the process may hold at most *)
(* before each instruction, from which the next lock comes later.          *)
(***************************************************************************)
EXTENDS RowLocks, Sums, SequenceTheorems

-----------------------------------------------------------------------------
(* Labels and the instructions that lead from one to the next.             *)

Stages == {"work", "drained", "reloaded", "ready", "done"}
Facts == {"none", "checked", "from", "positive", "loaded", "saves"}

\* stage: a call works until all it saves is saved ("ready") and committed ("done");
\* deep: its open transactions; fresh: the rows it has read and that no other process can
\* change; saved: the rows it has saved; fact, arg: what it has found in the rows.
Label == [stage : Stages, deep : 0..3, fresh : SUBSET Row, saved : SUBSET Row,
          fact : Facts, arg : Budget \union {Nobody} \union SUBSET Row]

L(stage, deep, fresh, saved, fact, arg) ==
  [stage |-> stage, deep |-> deep, fresh |-> fresh, saved |-> saved,
   fact |-> fact, arg |-> arg]

At0(stage, deep) == L(stage, deep, {}, {}, "none", Nobody)
Work(deep, fresh, saved, fact, arg) == L("work", deep, fresh, saved, fact, arg)
Working(deep) == Work(deep, {}, {}, "none", Nobody)
Ready(deep) == At0("ready", deep)
Done == At0("done", 0)
\* The end of a transaction inside deep others.
After(deep) == IF deep = 0 THEN Done ELSE Ready(deep)

Deepened(a, deep) == L(a.stage, deep, a.fresh, a.saved, a.fact, a.arg)
Reads(a, S) == L(a.stage, a.deep, a.fresh \union S, a.saved, a.fact, a.arg)
Saves(a, S) == L(a.stage, a.deep, a.fresh, a.saved \union S, a.fact, a.arg)
Finds(a, fact, arg) == L(a.stage, a.deep, a.fresh, a.saved, fact, arg)

Open(a) == a.stage = "work" /\ a.deep > 0
Untouched(a) == Open(a) /\ a.saved = {}

\* After its first save a call locks only rows that do not matter to what it saved.
MayLock(c, a, r) ==
  /\ Open(a) /\ r \in Row \ a.saved
  /\ \/ a.saved = {} /\ (c.op = "drop" => a.fact = "none")
     \/ r \in a.fresh
     \/ c.op = "create" /\ a.saved = {Account}
     \/ c.op = "resolve" /\ a.saved = {Account, Tx}
     \/ c.op = "split" /\ a.fact = "from" /\ a.saved = {c.dst} /\ c.dst # a.arg
        /\ Allocation \in a.fresh

LoadsTo(c, a, S, b) ==
  \/ /\ c.op \in {"split", "delete"} /\ Untouched(a) /\ S = {Allocation}
     /\ Tx \in a.fresh /\ b = Reads(a, S)
  \/ /\ c.op = "drop" /\ Untouched(a) /\ S = Transfers \union {Allocation}
     /\ a.fact = "none" /\ c.src \in a.fresh /\ b = Finds(a, "loaded", Nobody)
  \/ /\ c.op = "archive" /\ a.stage = "drained" /\ a.deep > 0 /\ S = {c.src}
     /\ b = At0("reloaded", a.deep)

ChecksTo(c, a, b) ==
  /\ Untouched(a) /\ b = Finds(a, "checked", Nobody)
  /\ \/ c.op \in {"resolve", "split"} /\ Tx \in a.fresh /\ a.fact = "none"
     \/ c.op = "drop" /\ a.fact = "loaded"

\* The first of two saves.
FirstSave(c, a, S) ==
  /\ Untouched(a) /\ S \subseteq a.fresh
  /\ \/ c.op = "create" /\ S = {Account}
     \/ c.op = "resolve" /\ S = {Account, Tx} /\ a.fact = "checked"
     \/ /\ c.op = "split" /\ S = {c.dst} /\ a.fact = "from" /\ c.dst # a.arg
        /\ {Tx, Allocation} \subseteq a.fresh
     \/ /\ c.op = "delete" /\ S = {a.arg, Allocation} /\ a.fact = "from"
        /\ {Tx, Account} \subseteq a.fresh

\* The one that completes what the call does; m is the transfer that may be reversed.
LastSave(c, p, m, a, S) ==
  /\ Open(a)
  /\ \/ c.op = "transfer" /\ a.saved = {} /\ S = {c.src, c.dst, p}
        /\ {c.src, c.dst} \subseteq a.fresh
     \/ c.op = "reverse" /\ a.saved = {} /\ S = Ends(m) \union {Earlier} /\ S \subseteq a.fresh
     \/ /\ c.op = "create" /\ a.saved = {Account} /\ S = {Unallocated}
        /\ {Account, Unallocated} \subseteq a.fresh
     \/ c.op = "post" /\ a.saved = {} /\ S = {Account, Tx} /\ S \subseteq a.fresh
     \/ /\ c.op = "resolve" /\ a.saved = {Account, Tx} /\ S = {Unallocated, Allocation}
        /\ {Account, Tx, Unallocated, Allocation} \subseteq a.fresh /\ a.fact = "checked"
     \/ /\ c.op = "split" /\ a.saved = {c.dst} /\ S = {a.arg, Allocation}
        /\ {Tx, Allocation, c.dst, a.arg} \subseteq a.fresh
        /\ a.fact = "from" /\ c.dst # a.arg
     \/ /\ c.op = "delete" /\ a.saved = {a.arg, Allocation} /\ S = {Account, Tx}
        /\ {Account, Tx, Allocation, a.arg} \subseteq a.fresh /\ a.fact = "from"
     \/ c.op = "edit" /\ a.saved = {} /\ S = {c.src} /\ S \subseteq a.fresh
     \/ c.op = "drop" /\ a.saved = {} /\ a.fact = "saves" /\ S = a.arg

SavesTo(c, p, m, a, S, b) ==
  \/ S = {} /\ b = a
  \/ FirstSave(c, a, S) /\ b = Saves(a, S)
  \/ LastSave(c, p, m, a, S) /\ b = Ready(a.deep)
  \/ /\ c.op = "archive" /\ Untouched(a) /\ a.fact = "positive"
     /\ S = {c.src, Unallocated, p} /\ {c.src, Unallocated} \subseteq a.fresh
     /\ b = At0("drained", a.deep)
  \/ /\ c.op = "archive" /\ a.stage = "reloaded" /\ a.deep > 0 /\ S = {c.src}
     /\ b = Ready(a.deep)

\* Where the call goes on with what the rows it reads call for.
DecidesTo(c, a, i, b) ==
  \/ /\ i.do \in {"split", "delete", "drop"} /\ i.do = c.op
     /\ a = Working(a.deep) /\ a.deep < 2 /\ b = After(a.deep)
  \/ /\ i.do = "recheck" /\ c.op = "drop" /\ i.rows \in SUBSET Budget
     /\ a = Working(a.deep) /\ a.deep < 2 /\ b = After(a.deep)
  \/ /\ i.do = "reallocate" /\ c.op = "split" /\ Untouched(a) /\ a.deep < 3
     /\ a.fact = "checked" /\ {Tx, Allocation, c.dst} \subseteq a.fresh
     /\ b = Ready(a.deep)
  \/ /\ i.do = "unallocate" /\ c.op = "delete" /\ Untouched(a) /\ a.deep < 3
     /\ {Account, Tx, Allocation} \subseteq a.fresh /\ a.fact = "none"
     /\ b = Ready(a.deep)
  \/ /\ i.do = "drain" /\ c.op = "archive" /\ Untouched(a) /\ a.deep < 3
     /\ {c.src, Unallocated} \subseteq a.fresh /\ a.fact = "none"
     /\ b = At0("drained", a.deep)
  \/ /\ i.do = "expect" /\ c.op = "drop" /\ Untouched(a) /\ a.fact = "checked"
     /\ i.rows \in SUBSET Budget /\ i.rows \union {c.src, Unallocated} \subseteq a.fresh
     /\ b = Ready(a.deep)

\* Instruction i of call c, made by process p, leads from label a to label b.
Leads(c, p, m, a, i, b) ==
  \/ i.do = "acquire" /\ i.row \in Lockable /\ b = a
  \/ i.do = "release" /\ b = a
  \/ i.do = "begin" /\ a.stage = "work" /\ a.deep < 3 /\ b = Deepened(a, a.deep + 1)
  \/ i.do = "end" /\ a.deep > 1 /\ b = Deepened(a, a.deep - 1)
  \/ i.do = "end" /\ a.deep = 1 /\ a.stage = "ready" /\ b = Done
  \/ i.do = "lock" /\ MayLock(c, a, i.row) /\ b = Reads(a, {i.row})
  \/ i.do = "load" /\ LoadsTo(c, a, i.rows, b)
  \/ i.do = "check" /\ ChecksTo(c, a, b)
  \/ i.do = "save" /\ i.rows \in SUBSET Row /\ SavesTo(c, p, m, a, i.rows, b)
  \/ i.do \in Plans \union {"expect"} /\ DecidesTo(c, a, i, b)

Opcodes == {"acquire", "release", "begin", "end", "lock", "load", "check", "save", "expect"}
             \union Plans
Instruction == [do : Opcodes, row : Row \union {Nobody}, rows : SUBSET Row]

\* Program s leads from label a to label b, by the labels f of its points.
Labels(c, p, m, s, f) ==
  /\ f \in [0..Len(s) -> Label]
  /\ \A k \in 1..Len(s) : Leads(c, p, m, f[k - 1], s[k], f[k])
Sound(c, p, m, a, s, b) ==
  /\ s \in Seq(Instruction)
  /\ \E f : Labels(c, p, m, s, f) /\ f[0] = a /\ f[Len(s)] = b

-----------------------------------------------------------------------------
(* The rows, and budgets in the order of their locks.                      *)

LEMMA RowsApart ==
  /\ Account # Tx /\ Account # Allocation /\ Account # Earlier
  /\ Tx # Allocation /\ Tx # Earlier /\ Allocation # Earlier
  /\ \A r \in {Account, Tx, Allocation, Earlier} : r \notin Budget /\ r \notin Process
  /\ Budget \intersect Process = {} /\ Unallocated \in Budget /\ Budget \subseteq Nat
  /\ IsFiniteSet(Budget) /\ IsFiniteSet(Process)
BY RowsAssumption, FourRows

LEMMA SortedRanks ==
  ASSUME NEW S \in SUBSET Budget
  PROVE  /\ Sorted(S) \in Seq(S) /\ Len(Sorted(S)) = Cardinality(S)
         /\ ToSet(Sorted(S)) = S
         /\ \A i, j \in 1..Len(Sorted(S)) : i < j => Sorted(S)[i] < Sorted(S)[j]
<1>1. PICK n : n = Cardinality(S)
  OBVIOUS
<1>2. PICK rank : rank = [b \in S |-> Cardinality({x \in S : x < b}) + 1]
  OBVIOUS
<1>3. S \in SUBSET Nat /\ IsFiniteSet(S)
  BY RowsApart, FS_Subset
<1>4. /\ n \in Nat /\ rank \in [S -> 1..n]
      /\ \A b \in S : Cardinality({x \in S : x < b}) \in Nat
      /\ \A a, b \in S : (a < b => rank[a] < rank[b]) /\ (rank[a] = rank[b] => a = b)
      /\ \A k \in 1..n : \E b \in S : rank[b] = k
  BY <1>1, <1>2, <1>3, Ranks
<1>5. \A b \in S : rank[b] = Cardinality({x \in S : x < b}) + 1
  BY <1>2
<1>6. ASSUME NEW k \in 1..n PROVE Sorted(S)[k] \in S /\ rank[Sorted(S)[k]] = k
  <2>1. PICK b \in S : rank[b] = k
    BY <1>4
  <2>2. Cardinality({x \in S : x < b}) = k - 1
    BY <1>4, <1>5, <2>1
  <2>3. Sorted(S)[k] = CHOOSE y \in S : Cardinality({x \in S : x < y}) = k - 1
    BY <1>1 DEF Sorted
  <2>4. Sorted(S)[k] \in S /\ Cardinality({x \in S : x < Sorted(S)[k]}) = k - 1
    BY <2>2, <2>3, Zenon
  <2> QED BY <1>4, <1>5, <2>4
<1>7. DOMAIN Sorted(S) = 1..n /\ Sorted(S) = [k \in DOMAIN Sorted(S) |-> Sorted(S)[k]]
  <2> DEFINE ranked(k) == CHOOSE b \in S : Cardinality({x \in S : x < b}) = k - 1
  <2>1. Sorted(S) = [k \in 1..n |-> ranked(k)]
    BY <1>1, Zenon DEF Sorted
  <2> HIDE DEF ranked
  <2> QED BY <2>1
<1>8. Sorted(S) \in [1..n -> S]
  BY <1>6, <1>7
<1>9. Sorted(S) \in Seq(S) /\ Len(Sorted(S)) = n
  BY <1>4, <1>8
<1>10. ASSUME NEW b \in S PROVE \E k \in 1..n : Sorted(S)[k] = b
  <2>1. rank[b] \in 1..n
    BY <1>4
  <2>2. Sorted(S)[rank[b]] \in S /\ rank[Sorted(S)[rank[b]]] = rank[b]
    BY <1>6, <2>1
  <2> QED BY <1>4, <2>1, <2>2
<1>11. DOMAIN Sorted(S) = 1..n
  BY <1>8
<1>12. ASSUME NEW i \in 1..n, NEW j \in 1..n, i < j PROVE Sorted(S)[i] < Sorted(S)[j]
  <2>1. PICK x \in S : x = Sorted(S)[i] /\ rank[x] = i
    BY <1>6
  <2>2. PICK y \in S : y = Sorted(S)[j] /\ rank[y] = j
    BY <1>6
  <2>3. i \in Nat /\ j \in Nat /\ x \in Nat /\ y \in Nat
    BY <1>3, <1>4
  <2>4. x # y /\ ~(y < x)
    BY <1>4, <1>12, <2>1, <2>2, <2>3
  <2> QED BY <2>1, <2>2, <2>3, <2>4
<1> QED BY <1>1, <1>6, <1>9, <1>10, <1>11, <1>12 DEF ToSet

-----------------------------------------------------------------------------
(* Sound programs.                                                         *)

LEMMA SoundEnds ==
  ASSUME NEW c, NEW p, NEW m, NEW a, NEW b, NEW s, Sound(c, p, m, a, s, b)
  PROVE  /\ a \in Label /\ b \in Label /\ s \in Seq(Instruction)
         /\ s = <<>> => a = b
<1>1. s \in Seq(Instruction) /\ Len(s) \in Nat
  BY LenProperties DEF Sound
<1>2. PICK f : Labels(c, p, m, s, f) /\ f[0] = a /\ f[Len(s)] = b
  BY DEF Sound
<1>3. f \in [0..Len(s) -> Label] /\ 0 \in 0..Len(s) /\ Len(s) \in 0..Len(s)
  BY <1>1, <1>2 DEF Labels
<1>4. s = <<>> => Len(s) = 0
  BY <1>1
<1> QED BY <1>1, <1>2, <1>3, <1>4

LEMMA SoundEmpty ==
  ASSUME NEW c, NEW p, NEW m, NEW a \in Label
  PROVE  Sound(c, p, m, a, <<>>, a)
<1>1. <<>> \in Seq(Instruction) /\ Len(<<>>) = 0
  BY EmptySeq
<1> DEFINE f == [k \in 0..0 |-> a]
<1>2. f \in [0..Len(<<>>) -> Label] /\ f[0] = a /\ f[Len(<<>>)] = a
  BY <1>1
<1>3. 1..Len(<<>>) = {}
  BY <1>1
<1>4. Labels(c, p, m, <<>>, f)
  BY <1>2, <1>3 DEF Labels
<1> QED BY <1>1, <1>2, <1>4 DEF Sound

LEMMA SoundOne ==
  ASSUME NEW c, NEW p, NEW m, NEW a \in Label, NEW b \in Label, NEW i \in Instruction,
         Leads(c, p, m, a, i, b)
  PROVE  Sound(c, p, m, a, <<i>>, b)
<1>1. <<i>> \in Seq(Instruction) /\ Len(<<i>>) = 1 /\ <<i>>[1] = i
  OBVIOUS
<1> DEFINE f == [k \in 0..1 |-> IF k = 0 THEN a ELSE b]
<1>2. f \in [0..Len(<<i>>) -> Label] /\ f[0] = a /\ f[1] = b /\ f[Len(<<i>>)] = b
  BY <1>1
<1>3. ASSUME NEW k \in 1..Len(<<i>>) PROVE k = 1 /\ k - 1 = 0
  BY <1>1
<1> HIDE DEF f
<1>4. Labels(c, p, m, <<i>>, f)
  <2>1. ASSUME NEW k \in 1..Len(<<i>>) PROVE Leads(c, p, m, f[k - 1], <<i>>[k], f[k])
    <3>1. f[k - 1] = a /\ f[k] = b /\ <<i>>[k] = i
      BY <1>1, <1>2, <1>3
    <3> QED BY <3>1
  <2> QED BY <1>2, <2>1 DEF Labels
<1> QED BY <1>1, <1>2, <1>4 DEF Sound

LEMMA SoundConcat ==
  ASSUME NEW c, NEW p, NEW m, NEW a, NEW b, NEW e, NEW s, NEW t,
         Sound(c, p, m, a, s, b), Sound(c, p, m, b, t, e)
  PROVE  Sound(c, p, m, a, s \o t, e)
<1>1. /\ s \in Seq(Instruction) /\ t \in Seq(Instruction)
      /\ Len(s) \in Nat /\ Len(t) \in Nat
  BY LenProperties DEF Sound
<1>2. /\ s \o t \in Seq(Instruction) /\ Len(s \o t) = Len(s) + Len(t)
      /\ \A k \in 1..Len(s) + Len(t) :
           (s \o t)[k] = IF k <= Len(s) THEN s[k] ELSE t[k - Len(s)]
  BY <1>1, ConcatProperties
<1>3. PICK f : Labels(c, p, m, s, f) /\ f[0] = a /\ f[Len(s)] = b
  BY DEF Sound
<1>4. PICK g : Labels(c, p, m, t, g) /\ g[0] = b /\ g[Len(t)] = e
  BY DEF Sound
<1>5. /\ f \in [0..Len(s) -> Label] /\ g \in [0..Len(t) -> Label]
      /\ \A k \in 1..Len(s) : Leads(c, p, m, f[k - 1], s[k], f[k])
      /\ \A k \in 1..Len(t) : Leads(c, p, m, g[k - 1], t[k], g[k])
  BY <1>3, <1>4 DEF Labels
<1> DEFINE h == [k \in 0..Len(s) + Len(t) |-> IF k <= Len(s) THEN f[k] ELSE g[k - Len(s)]]
<1>6. h \in [0..Len(s) + Len(t) -> Label]
  <2>1. ASSUME NEW k \in 0..Len(s) + Len(t)
        PROVE (IF k <= Len(s) THEN f[k] ELSE g[k - Len(s)]) \in Label
    <3>1. CASE k <= Len(s)
      BY <1>1, <1>5, <3>1
    <3>2. CASE ~(k <= Len(s))
      <4>1. k - Len(s) \in 0..Len(t)
        BY <1>1, <3>2
      <4> QED BY <1>5, <3>2, <4>1
    <3> QED BY <3>1, <3>2
  <2> QED BY <2>1
<1>7. ASSUME NEW k \in 1..Len(s) + Len(t)
      PROVE  Leads(c, p, m, h[k - 1], (s \o t)[k], h[k])
  <2>1. CASE k <= Len(s)
    <3>1. k \in 1..Len(s) /\ k - 1 <= Len(s) /\ k - 1 \in 0..Len(s) + Len(t)
      BY <1>1, <2>1
    <3>2. h[k - 1] = f[k - 1] /\ h[k] = f[k] /\ (s \o t)[k] = s[k]
      BY <1>1, <1>2, <2>1, <3>1
    <3> QED BY <1>5, <3>1, <3>2
  <2>2. CASE k = Len(s) + 1
    <3>1. 1 \in 1..Len(t) /\ ~(k <= Len(s)) /\ k - Len(s) = 1 /\ k - 1 = Len(s)
      BY <1>1, <2>2
    <3>2. h[k - 1] = g[0] /\ h[k] = g[1] /\ (s \o t)[k] = t[1]
      BY <1>1, <1>2, <1>3, <1>4, <3>1
    <3>3. Leads(c, p, m, g[1 - 1], t[1], g[1])
      BY <1>5, <3>1
    <3> QED BY <3>2, <3>3
  <2>3. CASE k > Len(s) + 1
    <3> DEFINE j == k - Len(s)
    <3>1. /\ j \in 1..Len(t) /\ ~(k <= Len(s)) /\ ~(k - 1 <= Len(s))
          /\ k - 1 - Len(s) = j - 1 /\ k - 1 \in 0..Len(s) + Len(t)
      BY <1>1, <2>3
    <3>2. h[k - 1] = g[j - 1] /\ h[k] = g[j] /\ (s \o t)[k] = t[j]
      BY <1>1, <1>2, <3>1
    <3>3. Leads(c, p, m, g[j - 1], t[j], g[j])
      BY <1>5, <3>1
    <3> QED BY <3>2, <3>3
  <2> QED BY <1>1, <2>1, <2>2, <2>3
<1>8. h[0] = a /\ h[Len(s) + Len(t)] = e
  <2>1. h[0] = f[0]
    BY <1>1
  <2>2. CASE Len(t) = 0
    BY <1>1, <1>3, <1>4, <2>2
  <2>3. CASE Len(t) # 0
    <3>1. ~(Len(s) + Len(t) <= Len(s)) /\ Len(s) + Len(t) - Len(s) = Len(t)
          /\ Len(s) + Len(t) \in 0..Len(s) + Len(t)
      BY <1>1, <2>3
    <3>2. h[Len(s) + Len(t)] = g[Len(t)]
      BY <3>1
    <3> QED BY <1>3, <1>4, <2>1, <3>2
  <2> QED BY <1>3, <2>1, <2>2, <2>3
<1> HIDE DEF h
<1>9. Labels(c, p, m, s \o t, h)
  BY <1>2, <1>6, <1>7 DEF Labels
<1> QED BY <1>2, <1>8, <1>9 DEF Sound

LEMMA SoundStep ==
  ASSUME NEW c, NEW p, NEW m, NEW a, NEW b, NEW s, s # <<>>, Sound(c, p, m, a, s, b)
  PROVE  /\ Head(s) \in Instruction
         /\ \E e \in Label : Leads(c, p, m, a, Head(s), e) /\ Sound(c, p, m, e, Tail(s), b)
<1>1. s \in Seq(Instruction)
  BY DEF Sound
<1>2. /\ Head(s) \in Instruction /\ Tail(s) \in Seq(Instruction)
      /\ Len(Tail(s)) = Len(s) - 1 /\ Len(s) \in Nat \ {0} /\ Head(s) = s[1]
      /\ \A k \in 1..Len(Tail(s)) : Tail(s)[k] = s[k + 1]
  BY <1>1, HeadTailProperties, EmptySeq
<1>3. PICK f : Labels(c, p, m, s, f) /\ f[0] = a /\ f[Len(s)] = b
  BY DEF Sound
<1>4. /\ f \in [0..Len(s) -> Label]
      /\ \A k \in 1..Len(s) : Leads(c, p, m, f[k - 1], s[k], f[k])
  BY <1>3 DEF Labels
<1>5. f[1] \in Label /\ Leads(c, p, m, a, Head(s), f[1])
  <2>1. 1 \in 1..Len(s) /\ 1 \in 0..Len(s)
    BY <1>2
  <2>2. Leads(c, p, m, f[1 - 1], s[1], f[1])
    BY <1>4, <2>1
  <2> QED BY <1>2, <1>3, <1>4, <2>1, <2>2
<1> DEFINE g == [k \in 0..Len(Tail(s)) |-> f[k + 1]]
<1>6. g \in [0..Len(Tail(s)) -> Label] /\ g[0] = f[1] /\ g[Len(Tail(s))] = b
  BY <1>2, <1>3, <1>4
<1>7. ASSUME NEW k \in 1..Len(Tail(s)) PROVE Leads(c, p, m, g[k - 1], Tail(s)[k], g[k])
  <2>1. k + 1 \in 1..Len(s) /\ k + 1 - 1 = k /\ k - 1 + 1 = k
    BY <1>2
  <2>2. Leads(c, p, m, f[k], s[k + 1], f[k + 1])
    BY <1>4, <2>1
  <2>3. g[k - 1] = f[k] /\ g[k] = f[k + 1] /\ Tail(s)[k] = s[k + 1]
    BY <1>2, <2>1
  <2> QED BY <2>2, <2>3
<1> HIDE DEF g
<1>8. Labels(c, p, m, Tail(s), g)
  BY <1>6, <1>7 DEF Labels
<1> QED BY <1>2, <1>5, <1>6, <1>8 DEF Sound

LEMMA EachInstruction ==
  ASSUME NEW what \in Opcodes, NEW s \in Seq(Row)
  PROVE  /\ Each(what, s) \in Seq(Instruction) /\ Len(Each(what, s)) = Len(s)
         /\ \A k \in 1..Len(s) : Each(what, s)[k] = Do(what, s[k]) /\ s[k] \in Row
<1>1. Len(s) \in Nat /\ DOMAIN s = 1..Len(s) /\ \A k \in 1..Len(s) : s[k] \in Row
  BY LenProperties
<1>2. Each(what, s) = [k \in 1..Len(s) |-> Do(what, s[k])]
  BY <1>1 DEF Each
<1>3. \A k \in 1..Len(s) : Do(what, s[k]) \in Instruction
  BY <1>1 DEF Do, Instruction
<1>4. Each(what, s) \in [1..Len(s) -> Instruction]
  BY <1>2, <1>3
<1>5. Each(what, s) \in Seq(Instruction) /\ Len(Each(what, s)) = Len(s)
  <2>1. ASSUME NEW n \in Nat, NEW e \in [1..n -> Instruction]
        PROVE  e \in Seq(Instruction) /\ Len(e) = n
    OBVIOUS
  <2> QED BY <1>1, <1>4, <2>1
<1>6. \A k \in 1..Len(s) : Each(what, s)[k] = Do(what, s[k])
  BY <1>2
<1> QED BY <1>1, <1>5, <1>6

\* Redis locks change nothing that a call knows of the rows.
LEMMA EachRedis ==
  ASSUME NEW c, NEW p, NEW m, NEW a \in Label, NEW what \in {"acquire", "release"},
         NEW s \in Seq(Row), \A k \in 1..Len(s) : s[k] \in Lockable
  PROVE  Sound(c, p, m, a, Each(what, s), a)
<1>1. /\ Each(what, s) \in Seq(Instruction) /\ Len(Each(what, s)) = Len(s)
      /\ \A k \in 1..Len(s) : Each(what, s)[k] = Do(what, s[k]) /\ s[k] \in Row
  <2>1. what \in Opcodes
    BY DEF Opcodes
  <2> QED BY <2>1, EachInstruction
<1>2. Len(s) \in Nat
  BY LenProperties
<1> DEFINE f == [k \in 0..Len(s) |-> a]
<1>3. f \in [0..Len(s) -> Label] /\ f[0] = a /\ f[Len(s)] = a
  BY <1>2
<1>4. ASSUME NEW k \in 1..Len(s) PROVE Leads(c, p, m, f[k - 1], Each(what, s)[k], f[k])
  <2>1. f[k - 1] = a /\ f[k] = a
    BY <1>2
  <2>2. Leads(c, p, m, a, Do(what, s[k]), a)
    BY DEF Leads, Do
  <2> QED BY <1>1, <2>1, <2>2
<1> HIDE DEF f
<1>5. Labels(c, p, m, Each(what, s), f)
  BY <1>1, <1>3, <1>4 DEF Labels
<1> QED BY <1>1, <1>3, <1>5 DEF Sound

LEMMA EachLock ==
  ASSUME NEW c, NEW p, NEW m, NEW a \in Label, NEW s \in Seq(Row),
         \A k \in 1..Len(s), T \in SUBSET Row : MayLock(c, Reads(a, T), s[k])
  PROVE  Sound(c, p, m, a, Each("lock", s), Reads(a, ToSet(s)))
<1>1. /\ Each("lock", s) \in Seq(Instruction) /\ Len(Each("lock", s)) = Len(s)
      /\ \A k \in 1..Len(s) : Each("lock", s)[k] = Do("lock", s[k]) /\ s[k] \in Row
  <2>1. "lock" \in Opcodes
    BY DEF Opcodes
  <2> QED BY <2>1, EachInstruction
<1>2. Len(s) \in Nat /\ DOMAIN s = 1..Len(s)
  BY LenProperties
<1> DEFINE T(k) == {s[j] : j \in 1..k}
<1> DEFINE f == [k \in 0..Len(s) |-> Reads(a, T(k))]
<1>3. \A k \in 0..Len(s) : T(k) \in SUBSET Row
  BY <1>1, <1>2
<1>4. T(0) = {} /\ T(Len(s)) = ToSet(s)
  BY <1>2 DEF ToSet
<1>5. \A k \in 1..Len(s) : T(k) = T(k - 1) \union {s[k]}
  BY <1>2
<1> HIDE DEF T
<1>6. ASSUME NEW S \in SUBSET Row PROVE Reads(a, S) \in Label
  BY DEF Reads, L, Label
<1>7. Reads(a, {}) = a
  BY DEF Reads, L, Label
<1>8. f \in [0..Len(s) -> Label] /\ f[0] = a /\ f[Len(s)] = Reads(a, ToSet(s))
  <2>1. f \in [0..Len(s) -> Label]
    BY <1>3, <1>6
  <2>2. f[0] = Reads(a, T(0)) /\ f[Len(s)] = Reads(a, T(Len(s)))
    BY <1>2
  <2> QED BY <1>4, <1>7, <2>1, <2>2
<1>9. ASSUME NEW k \in 1..Len(s) PROVE Leads(c, p, m, f[k - 1], Each("lock", s)[k], f[k])
  <2>1. k - 1 \in 0..Len(s) /\ k \in 0..Len(s)
    BY <1>2
  <2>2. f[k - 1] = Reads(a, T(k - 1)) /\ f[k] = Reads(a, T(k))
    BY <2>1
  <2>3. MayLock(c, Reads(a, T(k - 1)), s[k])
    BY <1>3, <2>1
  <2>4. Reads(a, T(k)) = Reads(Reads(a, T(k - 1)), {s[k]})
    <3>1. a.fresh \union T(k) = (a.fresh \union T(k - 1)) \union {s[k]}
      BY <1>5
    <3> QED BY <3>1 DEF Reads, L
  <2>5. Leads(c, p, m, Reads(a, T(k - 1)), Do("lock", s[k]), Reads(a, T(k)))
    BY <2>3, <2>4 DEF Leads, Do
  <2> QED BY <1>1, <2>2, <2>5
<1> HIDE DEF f
<1>10. Labels(c, p, m, Each("lock", s), f)
  BY <1>1, <1>8, <1>9 DEF Labels
<1> QED BY <1>1, <1>8, <1>10 DEF Sound

LEMMA LabelIs ==
  /\ \A t \in Stages, d \in 0..3, F \in SUBSET Row, W \in SUBSET Row, f \in Facts,
        g \in Budget \union {Nobody} \union SUBSET Row : L(t, d, F, W, f, g) \in Label
  /\ \A a \in Label : /\ a.stage \in Stages /\ a.deep \in 0..3 /\ a.fresh \in SUBSET Row
                      /\ a.saved \in SUBSET Row /\ a.fact \in Facts
                      /\ a.arg \in Budget \union {Nobody} \union SUBSET Row
                      /\ a = L(a.stage, a.deep, a.fresh, a.saved, a.fact, a.arg)
<1>1. ASSUME NEW t \in Stages, NEW d \in 0..3, NEW F \in SUBSET Row, NEW W \in SUBSET Row,
             NEW f \in Facts, NEW g \in Budget \union {Nobody} \union SUBSET Row
      PROVE  L(t, d, F, W, f, g) \in Label
  BY DEF L, Label
<1>2. ASSUME NEW a \in Label
      PROVE  /\ a.stage \in Stages /\ a.deep \in 0..3 /\ a.fresh \in SUBSET Row
             /\ a.saved \in SUBSET Row /\ a.fact \in Facts
             /\ a.arg \in Budget \union {Nobody} \union SUBSET Row
             /\ a = L(a.stage, a.deep, a.fresh, a.saved, a.fact, a.arg)
  BY DEF L, Label
<1> QED BY <1>1, <1>2

LEMMA PlainLabels ==
  /\ \A t \in Stages, d \in 0..3 : At0(t, d) \in Label
  /\ Done \in Label /\ \A d \in 0..3 : Working(d) \in Label /\ Ready(d) \in Label
  /\ \A d \in 0..2 : After(d) \in Label
<1>1. \A t \in Stages, d \in 0..3 : At0(t, d) \in Label
  <2>1. {} \in SUBSET Row /\ "none" \in Facts
    BY DEF Facts
  <2> QED BY <2>1, LabelIs DEF At0
<1>2. "work" \in Stages /\ "ready" \in Stages /\ "done" \in Stages /\ 0 \in 0..3
  BY DEF Stages
<1>3. \A d \in 0..3 : Working(d) = At0("work", d)
  BY DEF Working, Work, At0
<1> QED BY <1>1, <1>2, <1>3 DEF Ready, Done, After

LEMMA SoundSave ==
  ASSUME NEW c, NEW p, NEW m, NEW a \in Label, NEW b \in Label, NEW S \in SUBSET Row,
         SavesTo(c, p, m, a, S, b)
  PROVE  Sound(c, p, m, a, Save(S), b)
<1>1. DoAll("save", S) \in Instruction
  BY DEF DoAll, Instruction, Opcodes
<1>2. Leads(c, p, m, a, DoAll("save", S), b)
  BY DEF Leads, DoAll
<1> QED BY <1>1, <1>2, SoundOne DEF Save

LEMMA SoundLoad ==
  ASSUME NEW c, NEW p, NEW m, NEW a \in Label, NEW b \in Label, NEW S \in SUBSET Row,
         LoadsTo(c, a, S, b)
  PROVE  Sound(c, p, m, a, Load(S), b)
<1>1. DoAll("load", S) \in Instruction
  BY DEF DoAll, Instruction, Opcodes
<1>2. Leads(c, p, m, a, DoAll("load", S), b)
  BY DEF Leads, DoAll
<1> QED BY <1>1, <1>2, SoundOne DEF Load

LEMMA SoundCheck ==
  ASSUME NEW c, NEW p, NEW m, NEW a \in Label, NEW b \in Label, ChecksTo(c, a, b)
  PROVE  Sound(c, p, m, a, Check, b)
<1>1. DoAll("check", {}) \in Instruction
  BY DEF DoAll, Instruction, Opcodes
<1>2. Leads(c, p, m, a, DoAll("check", {}), b)
  BY DEF Leads, DoAll
<1> QED BY <1>1, <1>2, SoundOne DEF Check

LEMMA SoundPlan ==
  ASSUME NEW c, NEW p, NEW m, NEW a \in Label, NEW b \in Label, NEW what \in Plans \union {"expect"},
         NEW S \in SUBSET Row, DecidesTo(c, a, DoAll(what, S), b)
  PROVE  Sound(c, p, m, a, <<DoAll(what, S)>>, b)
<1>1. DoAll(what, S) \in Instruction
  BY DEF DoAll, Instruction, Opcodes
<1>2. Leads(c, p, m, a, DoAll(what, S), b)
  BY DEF Leads, DoAll
<1> QED BY <1>1, <1>2, SoundOne

LEMMA ReversedKeys ==
  ASSUME NEW s \in Seq(Lockable)
  PROVE  /\ Reverse(s) \in Seq(Row) /\ Len(Reverse(s)) = Len(s)
         /\ \A k \in 1..Len(Reverse(s)) : Reverse(s)[k] \in Lockable
<1>1. Len(s) \in Nat /\ \A k \in 1..Len(s) : s[k] \in Lockable
  BY LenProperties
<1>2. Reverse(s) \in [1..Len(s) -> Lockable]
  <2>1. \A k \in 1..Len(s) : (Len(s) - k) + 1 \in 1..Len(s)
    BY <1>1
  <2> QED BY <1>1, <2>1 DEF Reverse
<1>3. ASSUME NEW n \in Nat, NEW e \in [1..n -> Lockable]
      PROVE  e \in Seq(Lockable) /\ Len(e) = n /\ \A k \in 1..n : e[k] \in Lockable
  OBVIOUS
<1>4. /\ Reverse(s) \in Seq(Lockable) /\ Len(Reverse(s)) = Len(s)
      /\ \A k \in 1..Len(s) : Reverse(s)[k] \in Lockable
  BY <1>1, <1>2, <1>3
<1>5. Lockable \subseteq Row
  BY DEF Lockable, Row
<1> QED BY <1>4, <1>5, SeqMonotonic

LEMMA SoundScope ==
  ASSUME NEW c, NEW p, NEW m, NEW a, NEW b, NEW s, NEW keys \in Seq(Lockable),
         Sound(c, p, m, a, s, b)
  PROVE  Sound(c, p, m, a, Scope(keys, s), b)
<1>1. keys \in Seq(Row) /\ Len(keys) \in Nat /\ \A k \in 1..Len(keys) : keys[k] \in Lockable
  <2>1. Lockable \subseteq Row
    BY DEF Lockable, Row
  <2> QED BY <2>1, SeqMonotonic, LenProperties
<1>2. /\ Reverse(keys) \in Seq(Row) /\ Len(Reverse(keys)) \in Nat
      /\ \A k \in 1..Len(Reverse(keys)) : Reverse(keys)[k] \in Lockable
  BY ReversedKeys, LenProperties
<1>3. a \in Label /\ b \in Label
  BY SoundEnds
<1>4. Sound(c, p, m, a, Each("acquire", keys), a)
  BY <1>1, <1>3, EachRedis
<1>5. Sound(c, p, m, b, Each("release", Reverse(keys)), b)
  BY <1>2, <1>3, EachRedis
<1>6. Sound(c, p, m, a, Each("acquire", keys) \o s, b)
  BY <1>4, SoundConcat
<1> QED BY <1>5, <1>6, SoundConcat DEF Scope

\* What the end of a transaction leads to.
EndsTo(b, e) ==
  \/ b.deep > 1 /\ e = Deepened(b, b.deep - 1)
  \/ b.deep = 1 /\ b.stage = "ready" /\ e = Done

LEMMA SoundAtomic ==
  ASSUME NEW c, NEW p, NEW m, NEW a \in Label, NEW b, NEW e \in Label, NEW s,
         a.stage = "work", a.deep < 3, EndsTo(b, e),
         Sound(c, p, m, Deepened(a, a.deep + 1), s, b)
  PROVE  Sound(c, p, m, a, Atomic(s), e)
<1>1. Deepened(a, a.deep + 1) \in Label /\ b \in Label
  BY SoundEnds
<1>2. DoAll("begin", {}) \in Instruction /\ DoAll("end", {}) \in Instruction
  BY DEF DoAll, Instruction, Opcodes
<1>3. Leads(c, p, m, a, DoAll("begin", {}), Deepened(a, a.deep + 1))
  BY DEF Leads, DoAll
<1>4. Leads(c, p, m, b, DoAll("end", {}), e)
  BY DEF Leads, DoAll, EndsTo
<1>5. Sound(c, p, m, a, <<DoAll("begin", {})>>, Deepened(a, a.deep + 1))
  BY <1>1, <1>2, <1>3, SoundOne
<1>6. Sound(c, p, m, b, <<DoAll("end", {})>>, e)
  BY <1>1, <1>2, <1>4, SoundOne
<1>7. Sound(c, p, m, a, <<DoAll("begin", {})>> \o s, b)
  BY <1>5, SoundConcat
<1> QED BY <1>6, <1>7, SoundConcat DEF Atomic

-----------------------------------------------------------------------------
(* The programs of the calls are sound.                                    *)

LEMMA PlainEnds ==
  ASSUME NEW d \in 0..2
  PROVE  EndsTo(Ready(d + 1), After(d))
<1>1. CASE d = 0
  BY <1>1 DEF EndsTo, Ready, After, At0, L
<1>2. CASE d # 0
  BY <1>2 DEF EndsTo, Ready, After, At0, L, Deepened
<1> QED BY <1>1, <1>2

LEMMA KeyLists ==
  /\ \A r : ToSet(<<r>>) = {r}
  /\ \A r, x : ToSet(<<r, x>>) = {r, x}
  /\ \A r \in Lockable : <<r>> \in Seq(Lockable)
  /\ \A r, x \in Lockable : <<r, x>> \in Seq(Lockable)
  /\ \A s, t \in Seq(Row) : s \o t \in Seq(Row) /\ ToSet(s \o t) = ToSet(s) \union ToSet(t)
  /\ \A s, t \in Seq(Lockable) : s \o t \in Seq(Lockable)
  /\ Seq(Lockable) \subseteq Seq(Row)
<1>1. ASSUME NEW r PROVE ToSet(<<r>>) = {r}
  BY DEF ToSet
<1>2. ASSUME NEW r, NEW x PROVE ToSet(<<r, x>>) = {r, x}
  BY DEF ToSet
<1>3. ASSUME NEW s \in Seq(Row), NEW t \in Seq(Row)
      PROVE  s \o t \in Seq(Row) /\ ToSet(s \o t) = ToSet(s) \union ToSet(t)
  <2>1. /\ s \o t \in Seq(Row) /\ Len(s \o t) = Len(s) + Len(t)
        /\ \A k \in 1..Len(s) + Len(t) :
             (s \o t)[k] = IF k <= Len(s) THEN s[k] ELSE t[k - Len(s)]
    BY ConcatProperties
  <2>2. /\ Len(s) \in Nat /\ DOMAIN s = 1..Len(s) /\ Len(t) \in Nat /\ DOMAIN t = 1..Len(t)
        /\ DOMAIN (s \o t) = 1..Len(s) + Len(t)
    BY <2>1, LenProperties
  <2>3. ASSUME NEW k \in 1..Len(s) + Len(t) PROVE (s \o t)[k] \in ToSet(s) \union ToSet(t)
    BY <2>1, <2>2 DEF ToSet
  <2>4. ASSUME NEW k \in 1..Len(s) PROVE s[k] \in ToSet(s \o t)
    <3>1. (s \o t)[k] = s[k] /\ k \in 1..Len(s) + Len(t)
      BY <2>1, <2>2
    <3> QED BY <2>2, <3>1 DEF ToSet
  <2>5. ASSUME NEW k \in 1..Len(t) PROVE t[k] \in ToSet(s \o t)
    <3>1. k + Len(s) \in 1..Len(s) + Len(t) /\ ~(k + Len(s) <= Len(s)) /\ k + Len(s) - Len(s) = k
      BY <2>2
    <3>2. (s \o t)[k + Len(s)] = t[k]
      BY <2>1, <3>1
    <3> QED BY <2>2, <3>1, <3>2 DEF ToSet
  <2>6. ToSet(s \o t) \subseteq ToSet(s) \union ToSet(t)
    BY <2>2, <2>3 DEF ToSet
  <2>7. ToSet(s) \subseteq ToSet(s \o t) /\ ToSet(t) \subseteq ToSet(s \o t)
    <3>1. ToSet(s) = {s[k] : k \in 1..Len(s)} /\ ToSet(t) = {t[k] : k \in 1..Len(t)}
      BY <2>2 DEF ToSet
    <3> QED BY <2>4, <2>5, <3>1
  <2> QED BY <2>1, <2>6, <2>7
<1>4. \A s, t \in Seq(Lockable) : s \o t \in Seq(Lockable)
  BY ConcatProperties
<1>5. Seq(Lockable) \subseteq Seq(Row)
  BY SeqMonotonic DEF Lockable, Row
<1> QED BY <1>1, <1>2, <1>3, <1>4, <1>5

LEMMA SortedLocks ==
  ASSUME NEW S \in SUBSET Budget
  PROVE  Sorted(S) \in Seq(Lockable) /\ Sorted(S) \in Seq(Row) /\ ToSet(Sorted(S)) = S
<1>1. Sorted(S) \in Seq(S) /\ ToSet(Sorted(S)) = S
  BY SortedRanks
<1>2. S \subseteq Lockable /\ S \subseteq Row
  BY DEF Lockable, Row
<1> QED BY <1>1, <1>2, SeqMonotonic

LEMMA WorkLabel ==
  ASSUME NEW d \in 0..3, NEW F \in SUBSET Row, NEW W \in SUBSET Row, NEW f \in Facts,
         NEW g \in Budget \union {Nobody} \union SUBSET Row
  PROVE  Work(d, F, W, f, g) \in Label
<1>1. "work" \in Stages
  BY DEF Stages
<1> QED BY <1>1, LabelIs DEF Work

LEMMA WorkAtomic ==
  ASSUME NEW c, NEW p, NEW m, NEW b, NEW e \in Label, NEW s,
         NEW d \in 0..2, NEW F \in SUBSET Row, NEW W \in SUBSET Row, NEW f \in Facts,
         NEW g \in Budget \union {Nobody} \union SUBSET Row, EndsTo(b, e),
         Sound(c, p, m, Work(d + 1, F, W, f, g), s, b)
  PROVE  Sound(c, p, m, Work(d, F, W, f, g), Atomic(s), e)
<1>1. PICK a : a = Work(d, F, W, f, g)
  OBVIOUS
<1>2. a \in Label /\ a.stage = "work" /\ a.deep = d /\ a.deep < 3
  <2>1. a \in Label
    BY <1>1, WorkLabel
  <2> QED BY <1>1, <2>1 DEF Work, L
<1>3. Deepened(a, a.deep + 1) = Work(d + 1, F, W, f, g)
  BY <1>1 DEF Deepened, Work, L
<1>4. Sound(c, p, m, Deepened(a, a.deep + 1), s, b)
  BY <1>3
<1> QED BY <1>1, <1>2, <1>4, SoundAtomic

LEMMA WorkLocks ==
  ASSUME NEW c, NEW p, NEW m, NEW keys \in Seq(Row),
         NEW d \in 1..3, NEW F \in SUBSET Row, NEW W \in SUBSET Row, NEW f \in Facts,
         NEW g \in Budget \union {Nobody} \union SUBSET Row,
         \A r \in ToSet(keys), T \in SUBSET Row : MayLock(c, Work(d, F \union T, W, f, g), r)
  PROVE  Sound(c, p, m, Work(d, F, W, f, g), Each("lock", keys),
               Work(d, F \union ToSet(keys), W, f, g))
<1>1. PICK a : a = Work(d, F, W, f, g)
  OBVIOUS
<1>2. a \in Label
  BY <1>1, WorkLabel
<1>3. ASSUME NEW T PROVE Reads(a, T) = Work(d, F \union T, W, f, g)
  BY <1>1 DEF Reads, Work, L
<1>4. DOMAIN keys = 1..Len(keys)
  BY LenProperties
<1>5. \A k \in 1..Len(keys), T \in SUBSET Row : MayLock(c, Reads(a, T), keys[k])
  BY <1>3, <1>4 DEF ToSet
<1>6. Sound(c, p, m, a, Each("lock", keys), Reads(a, ToSet(keys)))
  BY <1>2, <1>5, EachLock
<1> QED BY <1>1, <1>3, <1>6

\* The usual shape of a service, by the labels of a call that is at work.
LEMMA SoundWork ==
  ASSUME NEW c, NEW p, NEW m, NEW b, NEW e \in Label, NEW s, NEW keys \in Seq(Lockable),
         NEW d \in 0..2, NEW F \in SUBSET Row, NEW W \in SUBSET Row, NEW f \in Facts,
         NEW g \in Budget \union {Nobody} \union SUBSET Row, EndsTo(b, e),
         \A r \in ToSet(keys), T \in SUBSET Row : MayLock(c, Work(d + 1, F \union T, W, f, g), r),
         Sound(c, p, m, Work(d + 1, F \union ToSet(keys), W, f, g), s, b)
  PROVE  Sound(c, p, m, Work(d, F, W, f, g), Locked(keys, s), e)
<1>1. keys \in Seq(Row) /\ d + 1 \in 1..3
  BY KeyLists
<1>2. Sound(c, p, m, Work(d + 1, F, W, f, g), Each("lock", keys),
            Work(d + 1, F \union ToSet(keys), W, f, g))
  BY <1>1, WorkLocks
<1>3. Sound(c, p, m, Work(d + 1, F, W, f, g), Each("lock", keys) \o s, b)
  BY <1>2, SoundConcat
<1>4. Sound(c, p, m, Work(d, F, W, f, g), Atomic(Each("lock", keys) \o s), e)
  BY <1>3, WorkAtomic
<1> QED BY <1>4, SoundScope DEF Locked

LEMMA ListedRows ==
  ASSUME NEW keys \in Seq(Lockable)
  PROVE  ToSet(keys) \in SUBSET Lockable /\ ToSet(keys) \in SUBSET Row
<1>1. DOMAIN keys = 1..Len(keys) /\ \A k \in 1..Len(keys) : keys[k] \in Lockable
  BY LenProperties
<1> QED BY <1>1 DEF ToSet, Lockable, Row

\* A call may lock any row before its first save; budget.delete, before it reads its
\* transfers.
LEMMA LockFirst ==
  ASSUME NEW c, NEW d \in 1..3, NEW F \in SUBSET Row, NEW f \in Facts, NEW r \in Row,
         NEW g \in Budget \union {Nobody} \union SUBSET Row, c.op = "drop" => f = "none"
  PROVE  MayLock(c, Work(d, F, {}, f, g), r)
<1>1. PICK x : x = Work(d, F, {}, f, g)
  OBVIOUS
<1>2. Open(x) /\ x.saved = {} /\ x.fact = f
  BY <1>1 DEF Open, Work, L
<1> QED BY <1>1, <1>2 DEF MayLock

\* One save of rows that are locked or inserted.
LEMMA SoundLockedSave ==
  ASSUME NEW c, NEW p, NEW m, NEW b \in Label, NEW e \in Label, NEW d \in 0..2,
         NEW F \in SUBSET Row, NEW f \in Facts, NEW g \in Budget \union {Nobody} \union SUBSET Row,
         NEW keys \in Seq(Lockable), NEW S \in SUBSET Row, c.op # "drop",
         SavesTo(c, p, m, Work(d + 1, F \union ToSet(keys), {}, f, g), S, b), EndsTo(b, e)
  PROVE  Sound(c, p, m, Work(d, F, {}, f, g), Locked(keys, Save(S)), e)
<1>1. ToSet(keys) \in SUBSET Row /\ d + 1 \in 1..3 /\ d + 1 \in 0..3 /\ {} \in SUBSET Row
  BY ListedRows
<1>2. \A r \in ToSet(keys), T \in SUBSET Row : MayLock(c, Work(d + 1, F \union T, {}, f, g), r)
  BY <1>1, LockFirst
<1>3. Work(d + 1, F \union ToSet(keys), {}, f, g) \in Label
  BY <1>1, WorkLabel
<1>4. Sound(c, p, m, Work(d + 1, F \union ToSet(keys), {}, f, g), Save(S), b)
  BY <1>3, SoundSave
<1> QED BY <1>2, <1>4, SoundWork

LEMMA SoundTransfer ==
  ASSUME NEW c \in Call, NEW p \in Process, NEW m, NEW d \in 0..1, c.op = "transfer"
  PROVE  Sound(c, p, m, Working(d), Transferring(p, c.src, c.dst), After(d))
<1> DEFINE K == {c.src, c.dst}
<1> DEFINE S == {c.src, c.dst, p}
<1>1. c.src \in Budget /\ c.dst \in Budget /\ S \in SUBSET Row /\ K \in SUBSET Row
  BY DEF Call, Row, Transfers
<1>2. /\ Ready(d + 1) \in Label /\ After(d) \in Label /\ EndsTo(Ready(d + 1), After(d))
      /\ "none" \in Facts /\ d + 1 \in 0..3
  BY PlainLabels, PlainEnds DEF Facts
<1>3. Sorted(K) \in Seq(Lockable) /\ ToSet(Sorted(K)) = K
  BY <1>1, SortedLocks
<1>4. PICK x : x = Work(d + 1, {} \union K, {}, "none", Nobody)
  OBVIOUS
<1>5. Open(x) /\ x.saved = {} /\ x.fresh = K /\ x.deep = d + 1
  BY <1>4 DEF Open, Work, L
<1>6. LastSave(c, p, m, x, S)
  BY <1>5 DEF LastSave
<1>7. SavesTo(c, p, m, x, S, Ready(d + 1))
  BY <1>5, <1>6 DEF SavesTo
<1> HIDE DEF K, S
<1>8. Sound(c, p, m, Work(d, {}, {}, "none", Nobody), Locked(Sorted(K), Save(S)), After(d))
  <2>1. {} \in SUBSET Row /\ Nobody \in Budget \union {Nobody} \union SUBSET Row /\ d \in 0..2
    OBVIOUS
  <2>2. SavesTo(c, p, m, Work(d + 1, {} \union ToSet(Sorted(K)), {}, "none", Nobody), S,
                Ready(d + 1))
    BY <1>3, <1>4, <1>7
  <2> QED BY <1>1, <1>2, <1>3, <2>1, <2>2, SoundLockedSave
<1> QED BY <1>8 DEF K, S, Transferring, Working

LEMMA SoundEdit ==
  ASSUME NEW c \in Call, NEW p \in Process, NEW m, NEW d \in 0..1, c.op = "edit"
  PROVE  Sound(c, p, m, Working(d), Locked(<<c.src>>, Save({c.src})), After(d))
<1> DEFINE S == {c.src}
<1>1. c.src \in Lockable /\ S \in SUBSET Row
  BY DEF Call, Row, Lockable
<1>2. /\ Ready(d + 1) \in Label /\ After(d) \in Label /\ EndsTo(Ready(d + 1), After(d))
      /\ "none" \in Facts /\ d \in 0..2 /\ {} \in SUBSET Row
      /\ Nobody \in Budget \union {Nobody} \union SUBSET Row
  BY PlainLabels, PlainEnds DEF Facts
<1>3. <<c.src>> \in Seq(Lockable) /\ ToSet(<<c.src>>) = S
  BY <1>1, KeyLists
<1>4. PICK x : x = Work(d + 1, {} \union S, {}, "none", Nobody)
  OBVIOUS
<1>5. Open(x) /\ x.saved = {} /\ x.fresh = S /\ x.deep = d + 1
  BY <1>4 DEF Open, Work, L
<1>6. LastSave(c, p, m, x, S)
  BY <1>5 DEF LastSave
<1>7. SavesTo(c, p, m, x, S, Ready(d + 1))
  BY <1>5, <1>6 DEF SavesTo
<1>8. SavesTo(c, p, m, Work(d + 1, {} \union ToSet(<<c.src>>), {}, "none", Nobody), S,
              Ready(d + 1))
  BY <1>3, <1>4, <1>7
<1> HIDE DEF S
<1>9. Sound(c, p, m, Work(d, {}, {}, "none", Nobody), Locked(<<c.src>>, Save(S)), After(d))
  BY <1>1, <1>2, <1>3, <1>8, SoundLockedSave
<1> QED BY <1>9 DEF S, Working

LEMMA SoundCreate ==
  ASSUME NEW c \in Call, NEW p \in Process, NEW m, NEW d \in 0..1, c.op = "create"
  PROVE  Sound(c, p, m, Working(d), Creating, After(d))
<1> DEFINE A == {Account}
<1> DEFINE U == {Unallocated}
<1>1. /\ <<Account>> \in Seq(Lockable) /\ ToSet(<<Account>>) = A /\ A \in SUBSET Row
      /\ <<Unallocated>> \in Seq(Lockable) /\ ToSet(<<Unallocated>>) = U /\ U \in SUBSET Row
      /\ Unallocated \in Row \ A
  BY KeyLists, RowsApart DEF Lockable, Row
<1>2. /\ EndsTo(Ready(d + 1), After(d)) /\ EndsTo(Ready(d + 2), Ready(d + 1))
      /\ "none" \in Facts /\ d \in 0..2 /\ d + 1 \in 0..3 /\ d + 2 \in 0..3 /\ {} \in SUBSET Row
      /\ Nobody \in Budget \union {Nobody} \union SUBSET Row
      /\ d + 1 + 1 = d + 2 /\ d + 1 \in 0..2 /\ d + 1 \in 1..3
  <2>1. EndsTo(Ready(d + 1 + 1), After(d + 1)) /\ d + 1 # 0
    BY PlainEnds
  <2> QED BY <2>1, PlainEnds DEF After, Facts
<1>3. Ready(d + 1) \in Label /\ Ready(d + 2) \in Label /\ After(d) \in Label
  BY <1>2, PlainLabels
\* The account's save.
<1>4. Sound(c, p, m, Work(d + 1, A, {}, "none", Nobody), Save(A), Work(d + 1, A, A, "none", Nobody))
  <2>1. PICK x : x = Work(d + 1, A, {}, "none", Nobody)
    OBVIOUS
  <2>2. Open(x) /\ x.saved = {} /\ x.fresh = A /\ Saves(x, A) = Work(d + 1, A, A, "none", Nobody)
    BY <2>1 DEF Open, Saves, Work, L
  <2>3. FirstSave(c, x, A)
    BY <2>2 DEF FirstSave, Untouched
  <2>4. SavesTo(c, p, m, x, A, Work(d + 1, A, A, "none", Nobody))
    BY <2>2, <2>3 DEF SavesTo
  <2>5. x \in Label /\ Work(d + 1, A, A, "none", Nobody) \in Label
    BY <1>1, <1>2, <2>1, WorkLabel
  <2> QED BY <1>1, <2>1, <2>4, <2>5, SoundSave
\* The budget's, inside.
<1>5. Sound(c, p, m, Work(d + 2, A \union U, A, "none", Nobody), Save(U), Ready(d + 2))
  <2>1. PICK x : x = Work(d + 2, A \union U, A, "none", Nobody)
    OBVIOUS
  <2>2. Open(x) /\ x.saved = A /\ x.fresh = A \union U /\ x.deep = d + 2
    BY <2>1 DEF Open, Work, L
  <2>3. LastSave(c, p, m, x, U)
    BY <2>2 DEF LastSave
  <2>4. SavesTo(c, p, m, x, U, Ready(d + 2))
    BY <2>2, <2>3 DEF SavesTo
  <2>5. x \in Label
    BY <1>1, <1>2, <2>1, WorkLabel
  <2> QED BY <1>1, <1>3, <2>1, <2>4, <2>5, SoundSave
<1>6. \A r \in U, T \in SUBSET Row : MayLock(c, Work(d + 2, A \union T, A, "none", Nobody), r)
  <2> SUFFICES ASSUME NEW r \in U, NEW T \in SUBSET Row,
                      NEW x, x = Work(d + 2, A \union T, A, "none", Nobody)
               PROVE  MayLock(c, x, r)
    OBVIOUS
  <2>1. Open(x) /\ x.saved = A
    BY DEF Open, Work, L
  <2> QED BY <1>1, <2>1 DEF MayLock
<1>7. Sound(c, p, m, Work(d + 1, A, A, "none", Nobody), Locked(<<Unallocated>>, Save(U)),
            Ready(d + 1))
  <2> HIDE DEF A, U
  <2> QED BY <1>1, <1>2, <1>3, <1>5, <1>6, SoundWork
<1>8. Sound(c, p, m, Work(d + 1, A, {}, "none", Nobody),
            Save(A) \o Locked(<<Unallocated>>, Save(U)), Ready(d + 1))
  BY <1>4, <1>7, SoundConcat
<1>9. \A r \in A, T \in SUBSET Row : MayLock(c, Work(d + 1, {} \union T, {}, "none", Nobody), r)
  BY <1>1, <1>2, LockFirst
<1>10. Sound(c, p, m, Work(d, {}, {}, "none", Nobody),
             Locked(<<Account>>, Save(A) \o Locked(<<Unallocated>>, Save(U))), After(d))
  <2> HIDE DEF A, U
  <2>1. {} \union A = A
    OBVIOUS
  <2> QED BY <1>1, <1>2, <1>3, <1>8, <1>9, <2>1, SoundWork
<1> QED BY <1>10 DEF Creating, Working

LEMMA SoundPost ==
  ASSUME NEW c \in Call, NEW p \in Process, NEW m, NEW d \in 0..1, c.op = "post"
  PROVE  Sound(c, p, m, Working(d), Updating({Account, Tx}), After(d))
<1> DEFINE S == {Account, Tx}
<1>1. /\ <<Account>> \in Seq(Lockable) /\ <<Account, Tx>> \in Seq(Row)
      /\ ToSet(<<Account, Tx>>) = S /\ S \in SUBSET Row
  BY KeyLists DEF Lockable, Row
<1>2. /\ Ready(d + 1) \in Label /\ After(d) \in Label /\ EndsTo(Ready(d + 1), After(d))
      /\ "none" \in Facts /\ d \in 0..2 /\ d + 1 \in 1..3 /\ d + 1 \in 0..3 /\ {} \in SUBSET Row
      /\ Nobody \in Budget \union {Nobody} \union SUBSET Row /\ {} \union S = S
  BY PlainLabels, PlainEnds DEF Facts
<1>3. \A r \in S, T \in SUBSET Row : MayLock(c, Work(d + 1, {} \union T, {}, "none", Nobody), r)
  BY <1>1, <1>2, LockFirst
<1>4. Sound(c, p, m, Work(d + 1, S, {}, "none", Nobody), Save(S), Ready(d + 1))
  <2>1. PICK x : x = Work(d + 1, S, {}, "none", Nobody)
    OBVIOUS
  <2>2. Open(x) /\ x.saved = {} /\ x.fresh = S /\ x.deep = d + 1
    BY <2>1 DEF Open, Work, L
  <2>3. LastSave(c, p, m, x, S)
    BY <2>2 DEF LastSave
  <2>4. SavesTo(c, p, m, x, S, Ready(d + 1))
    BY <2>2, <2>3 DEF SavesTo
  <2>5. x \in Label
    BY <1>1, <1>2, <2>1, WorkLabel
  <2> QED BY <1>1, <1>2, <2>1, <2>4, <2>5, SoundSave
<1> HIDE DEF S
<1>5. Sound(c, p, m, Work(d + 1, {}, {}, "none", Nobody), Each("lock", <<Account, Tx>>),
            Work(d + 1, S, {}, "none", Nobody))
  BY <1>1, <1>2, <1>3, WorkLocks
<1>6. Sound(c, p, m, Work(d + 1, {}, {}, "none", Nobody),
            Each("lock", <<Account, Tx>>) \o Save(S), Ready(d + 1))
  BY <1>4, <1>5, SoundConcat
<1>7. Sound(c, p, m, Work(d, {}, {}, "none", Nobody),
            Atomic(Each("lock", <<Account, Tx>>) \o Save(S)), After(d))
  BY <1>2, <1>6, WorkAtomic
<1>8. Sound(c, p, m, Work(d, {}, {}, "none", Nobody), Updating(S), After(d))
  BY <1>1, <1>7, SoundScope DEF Updating
<1> QED BY <1>8 DEF S, Working

LEMMA SoundReverse ==
  ASSUME NEW c \in Call, NEW p \in Process, NEW m \in TransferValue, NEW d \in 0..1,
         c.op = "reverse"
  PROVE  Sound(c, p, m, Working(d), Reversing(m), After(d))
<1> DEFINE K == Ends(m)
<1> DEFINE keys == Sorted(K)
<1> DEFINE S == K \union {Earlier}
<1>1. /\ K \in SUBSET Budget /\ K \in SUBSET Row /\ S \in SUBSET Row
      /\ <<Earlier>> \in Seq(Row) /\ ToSet(<<Earlier>>) = {Earlier}
  BY KeyLists DEF Ends, TransferValue, Row, Transfers
<1>2. keys \in Seq(Lockable) /\ keys \in Seq(Row) /\ ToSet(keys) = K
  BY <1>1, SortedLocks
<1>3. /\ Ready(d + 1) \in Label /\ After(d) \in Label /\ EndsTo(Ready(d + 1), After(d))
      /\ "none" \in Facts /\ d \in 0..2 /\ d + 1 \in 1..3 /\ d + 1 \in 0..3 /\ {} \in SUBSET Row
      /\ Nobody \in Budget \union {Nobody} \union SUBSET Row /\ {} \union K = K
  BY PlainLabels, PlainEnds DEF Facts
<1>4. \A r \in Row, T \in SUBSET Row :
        /\ MayLock(c, Work(d + 1, {} \union T, {}, "none", Nobody), r)
        /\ MayLock(c, Work(d + 1, K \union T, {}, "none", Nobody), r)
  <2>1. ASSUME NEW r \in Row, NEW T \in SUBSET Row
        PROVE  MayLock(c, Work(d + 1, T, {}, "none", Nobody), r)
    BY <1>3, LockFirst
  <2> QED BY <1>1, <2>1
<1>5. Sound(c, p, m, Work(d + 1, S, {}, "none", Nobody), Save(S), Ready(d + 1))
  <2>1. PICK x : x = Work(d + 1, S, {}, "none", Nobody)
    OBVIOUS
  <2>2. Open(x) /\ x.saved = {} /\ x.fresh = S /\ x.deep = d + 1
    BY <2>1 DEF Open, Work, L
  <2>3. LastSave(c, p, m, x, S)
    BY <2>2 DEF LastSave
  <2>4. SavesTo(c, p, m, x, S, Ready(d + 1))
    BY <2>2, <2>3 DEF SavesTo
  <2>5. x \in Label
    BY <1>1, <1>3, <2>1, WorkLabel
  <2> QED BY <1>1, <1>3, <2>1, <2>4, <2>5, SoundSave
<1> HIDE DEF K, keys
<1>6. Sound(c, p, m, Work(d + 1, {}, {}, "none", Nobody), Each("lock", keys),
            Work(d + 1, K, {}, "none", Nobody))
  BY <1>1, <1>2, <1>3, <1>4, WorkLocks
<1>7. Sound(c, p, m, Work(d + 1, K, {}, "none", Nobody), Each("lock", <<Earlier>>),
            Work(d + 1, S, {}, "none", Nobody))
  BY <1>1, <1>3, <1>4, WorkLocks
<1>8. Sound(c, p, m, Work(d + 1, {}, {}, "none", Nobody),
            Each("lock", keys) \o Each("lock", <<Earlier>>), Work(d + 1, S, {}, "none", Nobody))
  BY <1>6, <1>7, SoundConcat
<1>9. Sound(c, p, m, Work(d + 1, {}, {}, "none", Nobody),
            Each("lock", keys) \o Each("lock", <<Earlier>>) \o Save(S), Ready(d + 1))
  BY <1>5, <1>8, SoundConcat
<1>10. Sound(c, p, m, Work(d, {}, {}, "none", Nobody),
             Atomic(Each("lock", keys) \o Each("lock", <<Earlier>>) \o Save(S)), After(d))
  BY <1>3, <1>9, WorkAtomic
<1>11. Sound(c, p, m, Work(d, {}, {}, "none", Nobody),
             Scope(keys, Atomic(Each("lock", keys) \o Each("lock", <<Earlier>>) \o Save(S))),
             After(d))
  BY <1>2, <1>10, SoundScope
<1> QED BY <1>11 DEF K, keys, Reversing, Working

LEMMA SoundResolve ==
  ASSUME NEW c \in Call, NEW p \in Process, NEW m, NEW d \in 0..1, c.op = "resolve"
  PROVE  Sound(c, p, m, Working(d), Resolving, After(d))
<1> DEFINE A == {Account, Tx}
<1> DEFINE U == {Unallocated}
<1> DEFINE B == {Unallocated, Allocation}
<1> DEFINE lockA == Each("lock", <<Account, Tx>>)
<1> DEFINE lockB == Each("lock", <<Allocation>>)
<1>1. /\ <<Account, Unallocated>> \in Seq(Lockable) /\ <<Account, Tx>> \in Seq(Row)
      /\ ToSet(<<Account, Tx>>) = A /\ A \in SUBSET Row
      /\ <<Unallocated>> \in Seq(Lockable) /\ ToSet(<<Unallocated>>) = U /\ U \in SUBSET Row
      /\ <<Allocation>> \in Seq(Row) /\ ToSet(<<Allocation>>) = {Allocation}
      /\ B \in SUBSET Row /\ B \intersect A = {} /\ A \union U \in SUBSET Row
      /\ {Allocation} \in SUBSET Row
  BY KeyLists, RowsApart DEF Lockable, Row
<1>2. /\ EndsTo(Ready(d + 1), After(d)) /\ EndsTo(Ready(d + 2), Ready(d + 1))
      /\ "none" \in Facts /\ "checked" \in Facts /\ d \in 0..2 /\ d + 1 \in 0..3
      /\ d + 2 \in 0..3 /\ {} \in SUBSET Row
      /\ Nobody \in Budget \union {Nobody} \union SUBSET Row
      /\ d + 1 + 1 = d + 2 /\ d + 1 \in 0..2 /\ d + 1 \in 1..3 /\ d + 2 \in 1..3
  <2>1. EndsTo(Ready(d + 1 + 1), After(d + 1)) /\ d + 1 # 0
    BY PlainEnds
  <2> QED BY <2>1, PlainEnds DEF After, Facts
<1>3. Ready(d + 1) \in Label /\ Ready(d + 2) \in Label /\ After(d) \in Label
  BY <1>2, PlainLabels
<1>4. \A r \in A, T \in SUBSET Row : MayLock(c, Work(d + 1, {} \union T, {}, "none", Nobody), r)
  BY <1>1, <1>2, LockFirst
<1>5. Sound(c, p, m, Work(d + 1, A, {}, "none", Nobody), Check,
            Work(d + 1, A, {}, "checked", Nobody))
  <2>1. PICK x : x = Work(d + 1, A, {}, "none", Nobody)
    OBVIOUS
  <2>2. /\ Open(x) /\ x.saved = {} /\ x.fresh = A /\ x.fact = "none"
        /\ Finds(x, "checked", Nobody) = Work(d + 1, A, {}, "checked", Nobody)
    BY <2>1 DEF Open, Finds, Work, L
  <2>3. ChecksTo(c, x, Work(d + 1, A, {}, "checked", Nobody))
    BY <2>2 DEF ChecksTo, Untouched
  <2>4. x \in Label /\ Work(d + 1, A, {}, "checked", Nobody) \in Label
    BY <1>1, <1>2, <2>1, WorkLabel
  <2> QED BY <2>1, <2>3, <2>4, SoundCheck
<1>6. Sound(c, p, m, Work(d + 1, A, {}, "checked", Nobody), Save(A),
            Work(d + 1, A, A, "checked", Nobody))
  <2>1. PICK x : x = Work(d + 1, A, {}, "checked", Nobody)
    OBVIOUS
  <2>2. /\ Open(x) /\ x.saved = {} /\ x.fresh = A /\ x.fact = "checked"
        /\ Saves(x, A) = Work(d + 1, A, A, "checked", Nobody)
    BY <2>1 DEF Open, Saves, Work, L
  <2>3. FirstSave(c, x, A)
    BY <2>2 DEF FirstSave, Untouched
  <2>4. SavesTo(c, p, m, x, A, Work(d + 1, A, A, "checked", Nobody))
    BY <2>2, <2>3 DEF SavesTo
  <2>5. x \in Label /\ Work(d + 1, A, A, "checked", Nobody) \in Label
    BY <1>1, <1>2, <2>1, WorkLabel
  <2> QED BY <1>1, <2>1, <2>4, <2>5, SoundSave
<1>7. Sound(c, p, m, Work(d + 2, A \union B, A, "checked", Nobody), Save(B), Ready(d + 2))
  <2>1. PICK x : x = Work(d + 2, A \union B, A, "checked", Nobody)
    OBVIOUS
  <2>2. Open(x) /\ x.saved = A /\ x.fresh = A \union B /\ x.deep = d + 2 /\ x.fact = "checked"
    BY <2>1 DEF Open, Work, L
  <2>3. LastSave(c, p, m, x, B)
    BY <2>2 DEF LastSave
  <2>4. SavesTo(c, p, m, x, B, Ready(d + 2))
    BY <2>2, <2>3 DEF SavesTo
  <2>5. x \in Label
    BY <1>1, <1>2, <2>1, WorkLabel
  <2> QED BY <1>1, <1>3, <2>1, <2>4, <2>5, SoundSave
<1>8. \A r \in B, T \in SUBSET Row :
        /\ MayLock(c, Work(d + 2, A \union T, A, "checked", Nobody), r)
        /\ MayLock(c, Work(d + 2, (A \union U) \union T, A, "checked", Nobody), r)
  <2>1. ASSUME NEW r \in B, NEW T, NEW x, x = Work(d + 2, T, A, "checked", Nobody)
        PROVE  MayLock(c, x, r)
    <3>1. Open(x) /\ x.saved = A
      BY <2>1 DEF Open, Work, L
    <3> QED BY <1>1, <3>1 DEF MayLock
  <2> QED BY <2>1
<1> HIDE DEF A, B, U, lockA, lockB
<1>9. Sound(c, p, m, Work(d + 2, A \union U, A, "checked", Nobody), lockB,
            Work(d + 2, A \union B, A, "checked", Nobody))
  <2>1. Allocation \in B /\ (A \union U) \union {Allocation} = A \union B
    BY DEF B, U
  <2>2. Sound(c, p, m, Work(d + 2, A \union U, A, "checked", Nobody), lockB,
              Work(d + 2, (A \union U) \union {Allocation}, A, "checked", Nobody))
    <3>1. \A r \in ToSet(<<Allocation>>), T \in SUBSET Row :
            MayLock(c, Work(d + 2, (A \union U) \union T, A, "checked", Nobody), r)
      BY <1>1, <1>8, <2>1
    <3>2. Sound(c, p, m, Work(d + 2, A \union U, A, "checked", Nobody), lockB,
                Work(d + 2, (A \union U) \union ToSet(<<Allocation>>), A, "checked", Nobody))
      BY <1>1, <1>2, <3>1, WorkLocks DEF lockB
    <3> QED BY <1>1, <3>2
  <2> QED BY <2>1, <2>2
<1>10. Sound(c, p, m, Work(d + 2, A \union U, A, "checked", Nobody), lockB \o Save(B),
             Ready(d + 2))
  BY <1>7, <1>9, SoundConcat
<1>11. Sound(c, p, m, Work(d + 1, A, A, "checked", Nobody),
             Locked(<<Unallocated>>, lockB \o Save(B)), Ready(d + 1))
  <2>1. U \subseteq B
    BY DEF U, B
  <2> QED BY <1>1, <1>2, <1>3, <1>8, <1>10, <2>1, SoundWork
<1>12. Sound(c, p, m, Work(d + 1, {}, {}, "none", Nobody), lockA,
             Work(d + 1, A, {}, "none", Nobody))
  <2>1. {} \union A = A
    OBVIOUS
  <2> QED BY <1>1, <1>2, <1>4, <2>1, WorkLocks DEF lockA
<1>13. Sound(c, p, m, Work(d + 1, {}, {}, "none", Nobody), lockA \o Check,
             Work(d + 1, A, {}, "checked", Nobody))
  BY <1>5, <1>12, SoundConcat
<1>14. Sound(c, p, m, Work(d + 1, {}, {}, "none", Nobody), lockA \o Check \o Save(A),
             Work(d + 1, A, A, "checked", Nobody))
  BY <1>6, <1>13, SoundConcat
<1>15. Sound(c, p, m, Work(d + 1, {}, {}, "none", Nobody),
             lockA \o Check \o Save(A) \o Locked(<<Unallocated>>, lockB \o Save(B)),
             Ready(d + 1))
  BY <1>11, <1>14, SoundConcat
<1>16. Sound(c, p, m, Work(d, {}, {}, "none", Nobody),
             Atomic(lockA \o Check \o Save(A) \o Locked(<<Unallocated>>, lockB \o Save(B))),
             After(d))
  BY <1>2, <1>3, <1>15, WorkAtomic
<1>17. Sound(c, p, m, Work(d, {}, {}, "none", Nobody),
             Scope(<<Account, Unallocated>>,
                   Atomic(lockA \o Check \o Save(A)
                            \o Locked(<<Unallocated>>, lockB \o Save(B)))),
             After(d))
  BY <1>1, <1>16, SoundScope
<1> QED BY <1>17 DEF A, B, lockA, lockB, Resolving, Working

\* transaction.split, up to where it reads the allocation.
LEMMA SoundSplit ==
  ASSUME NEW c \in Call, NEW p \in Process, NEW m, NEW d \in 0..1, c.op = "split",
         NEW v, Holders(v) \subseteq Budget
  PROVE  Sound(c, p, m, Working(d), Splitting(v, c.dst), After(d))
<1> DEFINE K == {Unallocated, c.dst} \union Holders(v)
<1> DEFINE bs == Sorted(K)
<1> DEFINE F == {Tx} \union K
<1> DEFINE G == F \union {Allocation}
<1>1. /\ K \in SUBSET Budget /\ K \in SUBSET Row /\ F \in SUBSET Row /\ G \in SUBSET Row
      /\ {Allocation} \in SUBSET Row /\ {Tx} \in SUBSET Row /\ c.dst \in F
  BY RowsApart DEF Call, Row
<1>2. /\ bs \in Seq(Lockable) /\ bs \in Seq(Row) /\ ToSet(bs) = K
      /\ <<Tx>> \in Seq(Row) /\ ToSet(<<Tx>>) = {Tx} /\ <<Tx>> \o bs \in Seq(Lockable)
  <2>1. Tx \in Lockable
    BY DEF Lockable
  <2> QED BY <1>1, <2>1, KeyLists, SortedLocks
<1>3. /\ EndsTo(Ready(d + 1), After(d)) /\ Ready(d + 1) \in Label /\ After(d) \in Label
      /\ "none" \in Facts /\ "checked" \in Facts /\ d \in 0..2 /\ d + 1 \in 0..3
      /\ {} \in SUBSET Row /\ Nobody \in Budget \union {Nobody} \union SUBSET Row
      /\ d + 1 \in 1..3 /\ d + 1 < 3
  BY PlainLabels, PlainEnds DEF Facts
<1>4. \A r \in Row, T \in SUBSET Row :
        /\ MayLock(c, Work(d + 1, {} \union T, {}, "none", Nobody), r)
        /\ MayLock(c, Work(d + 1, {Tx} \union T, {}, "checked", Nobody), r)
  <2>1. ASSUME NEW r \in Row, NEW T \in SUBSET Row, NEW f \in Facts
        PROVE  MayLock(c, Work(d + 1, T, {}, f, Nobody), r)
    BY <1>3, LockFirst
  <2> QED BY <1>1, <1>3, <2>1
<1>5. Sound(c, p, m, Work(d + 1, {Tx}, {}, "none", Nobody), Check,
            Work(d + 1, {Tx}, {}, "checked", Nobody))
  <2>1. PICK x : x = Work(d + 1, {Tx}, {}, "none", Nobody)
    OBVIOUS
  <2>2. /\ Open(x) /\ x.saved = {} /\ x.fresh = {Tx} /\ x.fact = "none"
        /\ Finds(x, "checked", Nobody) = Work(d + 1, {Tx}, {}, "checked", Nobody)
    BY <2>1 DEF Open, Finds, Work, L
  <2>3. ChecksTo(c, x, Work(d + 1, {Tx}, {}, "checked", Nobody))
    BY <2>2 DEF ChecksTo, Untouched
  <2>4. x \in Label /\ Work(d + 1, {Tx}, {}, "checked", Nobody) \in Label
    BY <1>1, <1>3, <2>1, WorkLabel
  <2> QED BY <2>1, <2>3, <2>4, SoundCheck
<1>6. Sound(c, p, m, Work(d + 1, F, {}, "checked", Nobody), Load({Allocation}),
            Work(d + 1, G, {}, "checked", Nobody))
  <2>1. PICK x : x = Work(d + 1, F, {}, "checked", Nobody)
    OBVIOUS
  <2>2. /\ Open(x) /\ x.saved = {} /\ x.fresh = F
        /\ Reads(x, {Allocation}) = Work(d + 1, G, {}, "checked", Nobody)
    BY <2>1 DEF Open, Reads, Work, L
  <2>3. LoadsTo(c, x, {Allocation}, Work(d + 1, G, {}, "checked", Nobody))
    BY <2>2 DEF LoadsTo, Untouched
  <2>4. x \in Label /\ Work(d + 1, G, {}, "checked", Nobody) \in Label
    BY <1>1, <1>3, <2>1, WorkLabel
  <2> QED BY <1>1, <2>1, <2>3, <2>4, SoundLoad
<1>7. Sound(c, p, m, Work(d + 1, G, {}, "checked", Nobody), Plan("reallocate", {}), Ready(d + 1))
  <2>1. PICK x : x = Work(d + 1, G, {}, "checked", Nobody)
    OBVIOUS
  <2>2. Open(x) /\ x.saved = {} /\ x.fresh = G /\ x.fact = "checked" /\ x.deep = d + 1
    BY <2>1 DEF Open, Work, L
  <2>3. {Tx, Allocation, c.dst} \subseteq G
    BY <1>1
  <2>4. DecidesTo(c, x, DoAll("reallocate", {}), Ready(d + 1))
    <3> HIDE DEF G
    <3> QED BY <1>3, <2>2, <2>3 DEF DecidesTo, Untouched, DoAll
  <2>5. x \in Label /\ "reallocate" \in Plans \union {"expect"}
    BY <1>1, <1>3, <2>1, WorkLabel DEF Plans
  <2> QED BY <1>3, <2>1, <2>4, <2>5, SoundPlan DEF Plan
<1>8. F = {Tx} \union ToSet(bs) /\ {} \union ToSet(<<Tx>>) = {Tx}
  BY <1>2
<1> HIDE DEF K, bs, F, G
<1>9. Sound(c, p, m, Work(d + 1, {}, {}, "none", Nobody), Each("lock", <<Tx>>),
            Work(d + 1, {Tx}, {}, "none", Nobody))
  BY <1>1, <1>2, <1>3, <1>4, <1>8, WorkLocks
<1>10. Sound(c, p, m, Work(d + 1, {Tx}, {}, "checked", Nobody), Each("lock", bs),
             Work(d + 1, F, {}, "checked", Nobody))
  BY <1>1, <1>2, <1>3, <1>4, <1>8, WorkLocks
<1>11. Sound(c, p, m, Work(d + 1, {}, {}, "none", Nobody), Each("lock", <<Tx>>) \o Check,
             Work(d + 1, {Tx}, {}, "checked", Nobody))
  BY <1>5, <1>9, SoundConcat
<1>12. Sound(c, p, m, Work(d + 1, {}, {}, "none", Nobody),
             Each("lock", <<Tx>>) \o Check \o Each("lock", bs),
             Work(d + 1, F, {}, "checked", Nobody))
  BY <1>10, <1>11, SoundConcat
<1>13. Sound(c, p, m, Work(d + 1, {}, {}, "none", Nobody),
             Each("lock", <<Tx>>) \o Check \o Each("lock", bs) \o Load({Allocation}),
             Work(d + 1, G, {}, "checked", Nobody))
  BY <1>6, <1>12, SoundConcat
<1>14. Sound(c, p, m, Work(d + 1, {}, {}, "none", Nobody),
             Each("lock", <<Tx>>) \o Check \o Each("lock", bs) \o Load({Allocation})
               \o Plan("reallocate", {}),
             Ready(d + 1))
  BY <1>7, <1>13, SoundConcat
<1>15. Sound(c, p, m, Work(d, {}, {}, "none", Nobody),
             Atomic(Each("lock", <<Tx>>) \o Check \o Each("lock", bs) \o Load({Allocation})
                      \o Plan("reallocate", {})),
             After(d))
  BY <1>3, <1>14, WorkAtomic
<1>16. Sound(c, p, m, Work(d, {}, {}, "none", Nobody),
             Scope(<<Tx>> \o bs,
                   Atomic(Each("lock", <<Tx>>) \o Check \o Each("lock", bs)
                            \o Load({Allocation}) \o Plan("reallocate", {}))),
             After(d))
  BY <1>2, <1>15, SoundScope
<1> QED BY <1>16 DEF K, bs, Splitting, Working

\* ... and from there on, when the transaction is allocated to another budget.
LEMMA SoundReallocate ==
  ASSUME NEW c \in Call, NEW p \in Process, NEW m, NEW d \in 1..2, c.op = "split",
         NEW F \in SUBSET Row, {Tx, Allocation, c.dst} \subseteq F,
         NEW v, v[Allocation].budget \in Budget, v[Allocation].budget # c.dst
  PROVE  Sound(c, p, m, Work(d, F, {}, "from", v[Allocation].budget),
               Reallocating(v, c.dst), Ready(d))
<1> DEFINE old == v[Allocation].budget
<1> DEFINE G == F \union {old}
<1> DEFINE S == {old, Allocation}
<1> DEFINE W == {c.dst}
<1>1. /\ c.dst \in Budget /\ old \in Budget /\ W \in SUBSET Row /\ G \in SUBSET Row
      /\ S \in SUBSET Row /\ c.dst \in Lockable /\ old \in Lockable
      /\ Allocation # c.dst /\ old # c.dst /\ Allocation \in Row /\ old \in Row
      /\ old \in Budget \union {Nobody} \union SUBSET Row
  BY RowsApart DEF Call, Row, Lockable
<1>2. /\ <<c.dst>> \in Seq(Lockable) /\ ToSet(<<c.dst>>) = W
      /\ <<old>> \in Seq(Lockable) /\ ToSet(<<old>>) = {old}
      /\ <<Allocation>> \in Seq(Row) /\ ToSet(<<Allocation>>) = {Allocation}
  BY <1>1, KeyLists
<1>3. /\ EndsTo(Ready(d + 1), Ready(d)) /\ Ready(d + 1) \in Label /\ Ready(d) \in Label
      /\ "from" \in Facts /\ d \in 0..2 /\ d + 1 \in 1..3 /\ d + 1 \in 0..3 /\ {} \in SUBSET Row
      /\ d \in 0..3
  BY PlainLabels, PlainEnds DEF Facts, After
\* The new budget's save.
<1>4. Sound(c, p, m, Work(d, F, {}, "from", old), Locked(<<c.dst>>, Save(W)),
            Work(d, F, W, "from", old))
  <2>1. PICK x : x = Work(d + 1, F, {}, "from", old)
    OBVIOUS
  <2>2. /\ Open(x) /\ x.saved = {} /\ x.fresh = F /\ x.fact = "from" /\ x.arg = old
        /\ Saves(x, W) = Work(d + 1, F, W, "from", old)
    BY <2>1 DEF Open, Saves, Work, L
  <2>3. FirstSave(c, x, W)
    BY <1>1, <2>2 DEF FirstSave, Untouched
  <2>4. SavesTo(c, p, m, x, W, Work(d + 1, F, W, "from", old))
    BY <2>2, <2>3 DEF SavesTo
  <2>5. EndsTo(Work(d + 1, F, W, "from", old), Work(d, F, W, "from", old))
    BY DEF EndsTo, Deepened, Work, L
  <2>6. Work(d + 1, F, W, "from", old) \in Label /\ Work(d, F, W, "from", old) \in Label
    BY <1>1, <1>3, WorkLabel
  <2>7. F \union ToSet(<<c.dst>>) = F
    BY <1>2
  <2> HIDE DEF old, W
  <2>8. SavesTo(c, p, m, Work(d + 1, F \union ToSet(<<c.dst>>), {}, "from", old), W,
                Work(d + 1, F, W, "from", old))
    BY <2>1, <2>4, <2>7
  <2> QED BY <1>1, <1>2, <1>3, <2>5, <2>6, <2>8, SoundLockedSave
\* The old budget's, and the allocation's.
<1>5. Sound(c, p, m, Work(d + 1, G, W, "from", old), Save(S), Ready(d + 1))
  <2>1. PICK x : x = Work(d + 1, G, W, "from", old)
    OBVIOUS
  <2>2. /\ Open(x) /\ x.saved = W /\ x.fresh = G /\ x.fact = "from" /\ x.arg = old
        /\ x.deep = d + 1
    BY <2>1 DEF Open, Work, L
  <2>3. LastSave(c, p, m, x, S)
    BY <1>1, <2>2 DEF LastSave
  <2>4. SavesTo(c, p, m, x, S, Ready(d + 1))
    BY <2>2, <2>3 DEF SavesTo
  <2>5. x \in Label
    BY <1>1, <1>3, <2>1, WorkLabel
  <2> QED BY <1>1, <1>3, <2>1, <2>4, <2>5, SoundSave
<1>6. ASSUME NEW r \in S, NEW T \in SUBSET Row
      PROVE  /\ MayLock(c, Work(d + 1, F \union T, W, "from", old), r)
             /\ MayLock(c, Work(d + 1, G \union T, W, "from", old), r)
  <2>1. ASSUME NEW x, NEW X, Allocation \in X, x = Work(d + 1, X, W, "from", old)
        PROVE  MayLock(c, x, r)
    <3>1. Open(x) /\ x.saved = W /\ x.fact = "from" /\ x.arg = old /\ Allocation \in x.fresh
      BY <2>1 DEF Open, Work, L
    <3>2. r \in Row \ W
      BY <1>1
    <3> QED BY <1>1, <3>1, <3>2 DEF MayLock
  <2> QED BY <2>1
<1> HIDE DEF old, W
<1>7. Sound(c, p, m, Work(d + 1, G, W, "from", old), Each("lock", <<Allocation>>),
            Work(d + 1, G, W, "from", old))
  <2>1. G \union ToSet(<<Allocation>>) = G
    BY <1>2
  <2>2. \A r \in ToSet(<<Allocation>>), T \in SUBSET Row :
          MayLock(c, Work(d + 1, G \union T, W, "from", old), r)
    BY <1>2, <1>6
  <2> HIDE DEF G
  <2>3. Sound(c, p, m, Work(d + 1, G, W, "from", old), Each("lock", <<Allocation>>),
              Work(d + 1, G \union ToSet(<<Allocation>>), W, "from", old))
    BY <1>1, <1>2, <1>3, <2>2, WorkLocks
  <2> QED BY <2>1, <2>3
<1>8. Sound(c, p, m, Work(d + 1, G, W, "from", old), Each("lock", <<Allocation>>) \o Save(S),
            Ready(d + 1))
  BY <1>5, <1>7, SoundConcat
<1>9. Sound(c, p, m, Work(d, F, W, "from", old),
            Locked(<<old>>, Each("lock", <<Allocation>>) \o Save(S)), Ready(d))
  <2>1. \A r \in ToSet(<<old>>), T \in SUBSET Row :
          MayLock(c, Work(d + 1, F \union T, W, "from", old), r)
    BY <1>2, <1>6
  <2>2. Sound(c, p, m, Work(d + 1, F \union ToSet(<<old>>), W, "from", old),
              Each("lock", <<Allocation>>) \o Save(S), Ready(d + 1))
    BY <1>2, <1>8
  <2> HIDE DEF G, S
  <2> QED BY <1>1, <1>2, <1>3, <2>1, <2>2, SoundWork
<1>10. Sound(c, p, m, Ready(d), Save({}), Ready(d))
  <2>1. SavesTo(c, p, m, Ready(d), {}, Ready(d))
    BY DEF SavesTo
  <2> QED BY <1>3, <2>1, SoundSave
<1>11. Sound(c, p, m, Work(d, F, W, "from", old), Unallocating(v, {}), Ready(d))
  BY <1>9, <1>10, SoundConcat DEF Unallocating, old
<1>12. Sound(c, p, m, Work(d, F, {}, "from", old),
             Locked(<<c.dst>>, Save(W)) \o Unallocating(v, {}), Ready(d))
  BY <1>4, <1>11, SoundConcat
<1> QED BY <1>1, <1>12 DEF Reallocating, old, W

LEMMA SoundDelete ==
  ASSUME NEW c \in Call, NEW p \in Process, NEW m, NEW d \in 0..1, c.op = "delete",
         NEW v, Holders(v) \subseteq Budget
  PROVE  Sound(c, p, m, Working(d), Deleting(v), After(d))
<1> DEFINE K == Holders(v)
<1> DEFINE bs == Sorted(K)
<1> DEFINE F == {Account, Tx} \union K
<1> DEFINE G == F \union {Allocation}
<1>1. /\ K \in SUBSET Budget /\ K \in SUBSET Row /\ F \in SUBSET Row /\ G \in SUBSET Row
      /\ {Allocation} \in SUBSET Row
  BY DEF Row
<1>2. /\ bs \in Seq(Lockable) /\ bs \in Seq(Row) /\ ToSet(bs) = K
      /\ <<Account, Tx>> \in Seq(Row) /\ ToSet(<<Account, Tx>>) = {Account, Tx}
      /\ <<Account>> \o bs \in Seq(Lockable)
      /\ <<Account, Tx>> \o bs \in Seq(Row) /\ ToSet(<<Account, Tx>> \o bs) = F
  <2>1. Account \in Lockable /\ Tx \in Lockable
    BY DEF Lockable
  <2>2. <<Account>> \in Seq(Lockable) /\ <<Account, Tx>> \in Seq(Lockable)
    BY <2>1, KeyLists
  <2>3. bs \in Seq(Lockable) /\ bs \in Seq(Row) /\ ToSet(bs) = K
    BY <1>1, SortedLocks
  <2>4. <<Account, Tx>> \in Seq(Row) /\ ToSet(<<Account, Tx>>) = {Account, Tx}
    BY <2>2, KeyLists
  <2> HIDE DEF bs
  <2>5. <<Account>> \o bs \in Seq(Lockable)
    BY <2>2, <2>3, KeyLists
  <2>6. /\ <<Account, Tx>> \o bs \in Seq(Row)
        /\ ToSet(<<Account, Tx>> \o bs) = {Account, Tx} \union K
    <3>1. ToSet(<<Account, Tx>> \o bs) = ToSet(<<Account, Tx>>) \union ToSet(bs)
      BY <2>3, <2>4, KeyLists
    <3>2. <<Account, Tx>> \o bs \in Seq(Row)
      BY <2>3, <2>4, KeyLists
    <3> QED BY <2>3, <2>4, <3>1, <3>2
  <2> QED BY <2>3, <2>4, <2>5, <2>6
<1>3. /\ EndsTo(Ready(d + 1), After(d)) /\ Ready(d + 1) \in Label /\ After(d) \in Label
      /\ "none" \in Facts /\ d \in 0..2 /\ d + 1 \in 0..3
      /\ {} \in SUBSET Row /\ Nobody \in Budget \union {Nobody} \union SUBSET Row
      /\ d + 1 \in 1..3 /\ d + 1 < 3
  BY PlainLabels, PlainEnds DEF Facts
<1>4. \A r \in F, T \in SUBSET Row : MayLock(c, Work(d + 1, {} \union T, {}, "none", Nobody), r)
  <2> HIDE DEF F
  <2> QED BY <1>1, <1>3, LockFirst
<1>5. Sound(c, p, m, Work(d + 1, F, {}, "none", Nobody), Load({Allocation}),
            Work(d + 1, G, {}, "none", Nobody))
  <2>1. PICK x : x = Work(d + 1, F, {}, "none", Nobody)
    OBVIOUS
  <2>2. /\ Open(x) /\ x.saved = {} /\ x.fresh = F
        /\ Reads(x, {Allocation}) = Work(d + 1, G, {}, "none", Nobody)
    BY <2>1 DEF Open, Reads, Work, L
  <2>3. LoadsTo(c, x, {Allocation}, Work(d + 1, G, {}, "none", Nobody))
    BY <2>2 DEF LoadsTo, Untouched
  <2>4. x \in Label /\ Work(d + 1, G, {}, "none", Nobody) \in Label
    BY <1>1, <1>3, <2>1, WorkLabel
  <2> QED BY <1>1, <2>1, <2>3, <2>4, SoundLoad
<1>6. Sound(c, p, m, Work(d + 1, G, {}, "none", Nobody), Plan("unallocate", {}), Ready(d + 1))
  <2>1. PICK x : x = Work(d + 1, G, {}, "none", Nobody)
    OBVIOUS
  <2>2. Open(x) /\ x.saved = {} /\ x.fresh = G /\ x.fact = "none" /\ x.deep = d + 1
    BY <2>1 DEF Open, Work, L
  <2>3. {Account, Tx, Allocation} \subseteq G
    OBVIOUS
  <2>4. DecidesTo(c, x, DoAll("unallocate", {}), Ready(d + 1))
    <3> HIDE DEF G
    <3> QED BY <1>3, <2>2, <2>3 DEF DecidesTo, Untouched, DoAll
  <2>5. x \in Label /\ "unallocate" \in Plans \union {"expect"}
    BY <1>1, <1>3, <2>1, WorkLabel DEF Plans
  <2> QED BY <1>3, <2>1, <2>4, <2>5, SoundPlan DEF Plan
<1> HIDE DEF K, bs, F, G
<1>7. Sound(c, p, m, Work(d + 1, {}, {}, "none", Nobody), Each("lock", <<Account, Tx>> \o bs),
            Work(d + 1, F, {}, "none", Nobody))
  <2>1. {} \union F = F
    OBVIOUS
  <2> QED BY <1>1, <1>2, <1>3, <1>4, <2>1, WorkLocks
<1>8. Sound(c, p, m, Work(d + 1, {}, {}, "none", Nobody),
            Each("lock", <<Account, Tx>> \o bs) \o Load({Allocation}),
            Work(d + 1, G, {}, "none", Nobody))
  BY <1>5, <1>7, SoundConcat
<1>9. Sound(c, p, m, Work(d + 1, {}, {}, "none", Nobody),
            Each("lock", <<Account, Tx>> \o bs) \o Load({Allocation}) \o Plan("unallocate", {}),
            Ready(d + 1))
  BY <1>6, <1>8, SoundConcat
<1>10. Sound(c, p, m, Work(d, {}, {}, "none", Nobody),
             Atomic(Each("lock", <<Account, Tx>> \o bs) \o Load({Allocation})
                      \o Plan("unallocate", {})),
             After(d))
  BY <1>3, <1>9, WorkAtomic
<1>11. Sound(c, p, m, Work(d, {}, {}, "none", Nobody),
             Scope(<<Account>> \o bs,
                   Atomic(Each("lock", <<Account, Tx>> \o bs) \o Load({Allocation})
                            \o Plan("unallocate", {}))),
             After(d))
  BY <1>2, <1>10, SoundScope
<1> QED BY <1>11 DEF K, bs, Deleting, Working

LEMMA SoundUnallocate ==
  ASSUME NEW c \in Call, NEW p \in Process, NEW m, NEW d \in 1..2, c.op = "delete",
         NEW F \in SUBSET Row, {Account, Tx, Allocation} \subseteq F,
         NEW v, v[Allocation].budget \in Budget
  PROVE  Sound(c, p, m, Work(d, F, {}, "from", v[Allocation].budget),
               Unallocating(v, {Account, Tx}), Ready(d))
<1> DEFINE old == v[Allocation].budget
<1> DEFINE G == F \union {old}
<1> DEFINE S == {old, Allocation}
<1> DEFINE A == {Account, Tx}
<1>1. /\ old \in Budget /\ G \in SUBSET Row /\ S \in SUBSET Row /\ A \in SUBSET Row
      /\ old \in Lockable /\ Allocation \in Row /\ old \in Row
      /\ old \in Budget \union {Nobody} \union SUBSET Row
  BY DEF Row, Lockable
<1>2. /\ <<old>> \in Seq(Lockable) /\ ToSet(<<old>>) = {old}
      /\ <<Allocation>> \in Seq(Row) /\ ToSet(<<Allocation>>) = {Allocation}
  BY <1>1, KeyLists
<1>3. /\ Ready(d) \in Label /\ "from" \in Facts /\ d \in 0..2 /\ d + 1 \in 1..3
      /\ d + 1 \in 0..3 /\ {} \in SUBSET Row /\ d \in 0..3
  BY PlainLabels DEF Facts
<1>4. Sound(c, p, m, Work(d + 1, G, {}, "from", old), Save(S), Work(d + 1, G, S, "from", old))
  <2>1. PICK x : x = Work(d + 1, G, {}, "from", old)
    OBVIOUS
  <2>2. /\ Open(x) /\ x.saved = {} /\ x.fresh = G /\ x.fact = "from" /\ x.arg = old
        /\ Saves(x, S) = Work(d + 1, G, S, "from", old)
    BY <2>1 DEF Open, Saves, Work, L
  <2>3. FirstSave(c, x, S)
    BY <1>1, <2>2 DEF FirstSave, Untouched
  <2>4. SavesTo(c, p, m, x, S, Work(d + 1, G, S, "from", old))
    BY <2>2, <2>3 DEF SavesTo
  <2>5. x \in Label /\ Work(d + 1, G, S, "from", old) \in Label
    BY <1>1, <1>3, <2>1, WorkLabel
  <2> QED BY <1>1, <2>1, <2>4, <2>5, SoundSave
<1>5. Sound(c, p, m, Work(d, G, S, "from", old), Save(A), Ready(d))
  <2>1. PICK x : x = Work(d, G, S, "from", old)
    OBVIOUS
  <2>2. /\ Open(x) /\ x.saved = S /\ x.fresh = G /\ x.fact = "from" /\ x.arg = old /\ x.deep = d
    BY <2>1 DEF Open, Work, L
  <2>3. LastSave(c, p, m, x, A)
    BY <2>2 DEF LastSave
  <2>4. SavesTo(c, p, m, x, A, Ready(d))
    BY <2>2, <2>3 DEF SavesTo
  <2>5. x \in Label
    BY <1>1, <1>3, <2>1, WorkLabel
  <2> QED BY <1>1, <1>3, <2>1, <2>4, <2>5, SoundSave
<1>6. ASSUME NEW r \in S, NEW T \in SUBSET Row
      PROVE  /\ MayLock(c, Work(d + 1, F \union T, {}, "from", old), r)
             /\ MayLock(c, Work(d + 1, G \union T, {}, "from", old), r)
  <2>1. ASSUME NEW X \in SUBSET Row PROVE MayLock(c, Work(d + 1, X, {}, "from", old), r)
    <3>1. r \in Row
      BY <1>1
    <3> HIDE DEF old
    <3> QED BY <1>1, <1>3, <3>1, LockFirst
  <2> QED BY <1>1, <2>1
<1> HIDE DEF old
<1>7. Sound(c, p, m, Work(d + 1, G, {}, "from", old), Each("lock", <<Allocation>>),
            Work(d + 1, G, {}, "from", old))
  <2>1. G \union ToSet(<<Allocation>>) = G
    BY <1>2
  <2>2. \A r \in ToSet(<<Allocation>>), T \in SUBSET Row :
          MayLock(c, Work(d + 1, G \union T, {}, "from", old), r)
    BY <1>2, <1>6
  <2> HIDE DEF G
  <2>3. Sound(c, p, m, Work(d + 1, G, {}, "from", old), Each("lock", <<Allocation>>),
              Work(d + 1, G \union ToSet(<<Allocation>>), {}, "from", old))
    BY <1>1, <1>2, <1>3, <2>2, WorkLocks
  <2> QED BY <2>1, <2>3
<1>8. Sound(c, p, m, Work(d + 1, G, {}, "from", old), Each("lock", <<Allocation>>) \o Save(S),
            Work(d + 1, G, S, "from", old))
  BY <1>4, <1>7, SoundConcat
<1>9. Sound(c, p, m, Work(d, F, {}, "from", old),
            Locked(<<old>>, Each("lock", <<Allocation>>) \o Save(S)),
            Work(d, G, S, "from", old))
  <2>1. \A r \in ToSet(<<old>>), T \in SUBSET Row :
          MayLock(c, Work(d + 1, F \union T, {}, "from", old), r)
    BY <1>2, <1>6
  <2>2. Sound(c, p, m, Work(d + 1, F \union ToSet(<<old>>), {}, "from", old),
              Each("lock", <<Allocation>>) \o Save(S), Work(d + 1, G, S, "from", old))
    BY <1>2, <1>8
  <2>3. EndsTo(Work(d + 1, G, S, "from", old), Work(d, G, S, "from", old))
    BY DEF EndsTo, Deepened, Work, L
  <2>4. Work(d, G, S, "from", old) \in Label
    BY <1>1, <1>3, WorkLabel
  <2> HIDE DEF G, S
  <2> QED BY <1>1, <1>2, <1>3, <2>1, <2>2, <2>3, <2>4, SoundWork
<1>10. Sound(c, p, m, Work(d, F, {}, "from", old),
             Locked(<<old>>, Each("lock", <<Allocation>>) \o Save(S)) \o Save(A), Ready(d))
  BY <1>5, <1>9, SoundConcat
<1> QED BY <1>10 DEF Unallocating, old

LEMMA SoundArchive ==
  ASSUME NEW c \in Call, NEW p \in Process, NEW m, NEW d \in 0..1, c.op = "archive"
  PROVE  Sound(c, p, m, Working(d), Archiving(c.src), After(d))
<1> DEFINE K == {c.src, Unallocated}
<1> DEFINE S == {c.src}
<1>1. K \in SUBSET Budget /\ K \in SUBSET Row /\ S \in SUBSET Row
  BY RowsApart DEF Call, Row
<1>2. Sorted(K) \in Seq(Lockable) /\ ToSet(Sorted(K)) = K
  BY <1>1, SortedLocks
<1>3. /\ EndsTo(Ready(d + 1), After(d)) /\ Ready(d + 1) \in Label /\ After(d) \in Label
      /\ "none" \in Facts /\ d \in 0..2 /\ d + 1 \in 0..3
      /\ {} \in SUBSET Row /\ Nobody \in Budget \union {Nobody} \union SUBSET Row
      /\ d + 1 \in 1..3 /\ d + 1 < 3
  BY PlainLabels, PlainEnds DEF Facts
<1>4. At0("drained", d + 1) \in Label /\ At0("reloaded", d + 1) \in Label
  BY <1>3, PlainLabels DEF Stages
<1>5. \A r \in K, T \in SUBSET Row : MayLock(c, Work(d + 1, {} \union T, {}, "none", Nobody), r)
  <2> HIDE DEF K
  <2> QED BY <1>1, <1>3, LockFirst
<1>6. Sound(c, p, m, Work(d + 1, K, {}, "none", Nobody), Plan("drain", {}),
            At0("drained", d + 1))
  <2>1. PICK x : x = Work(d + 1, K, {}, "none", Nobody)
    OBVIOUS
  <2>2. Open(x) /\ x.saved = {} /\ x.fresh = K /\ x.fact = "none" /\ x.deep = d + 1
    BY <2>1 DEF Open, Work, L
  <2>3. DecidesTo(c, x, DoAll("drain", {}), At0("drained", d + 1))
    BY <1>3, <2>2 DEF DecidesTo, Untouched, DoAll
  <2>4. x \in Label /\ "drain" \in Plans \union {"expect"}
    BY <1>1, <1>3, <2>1, WorkLabel DEF Plans
  <2> QED BY <1>3, <1>4, <2>1, <2>3, <2>4, SoundPlan DEF Plan
<1>7. Sound(c, p, m, At0("drained", d + 1), Load(S), At0("reloaded", d + 1))
  <2>1. LoadsTo(c, At0("drained", d + 1), S, At0("reloaded", d + 1))
    BY DEF LoadsTo, At0, L
  <2> QED BY <1>1, <1>4, <2>1, SoundLoad
<1>8. Sound(c, p, m, At0("reloaded", d + 1), Save(S), Ready(d + 1))
  <2>1. PICK x : x = At0("reloaded", d + 1)
    OBVIOUS
  <2>2. x.stage = "reloaded" /\ x.deep = d + 1 /\ x.deep > 0
    BY <2>1 DEF At0, L
  <2>3. SavesTo(c, p, m, x, S, Ready(d + 1))
    BY <2>2 DEF SavesTo
  <2> QED BY <1>1, <1>3, <1>4, <2>1, <2>3, SoundSave
<1>9. Sound(c, p, m, Work(d + 1, K, {}, "none", Nobody), Plan("drain", {}) \o Load(S),
            At0("reloaded", d + 1))
  BY <1>6, <1>7, SoundConcat
<1>10. Sound(c, p, m, Work(d + 1, K, {}, "none", Nobody), Plan("drain", {}) \o Load(S) \o Save(S),
             Ready(d + 1))
  BY <1>8, <1>9, SoundConcat
<1>11. Sound(c, p, m, Work(d, {}, {}, "none", Nobody),
             Locked(Sorted(K), Plan("drain", {}) \o Load(S) \o Save(S)), After(d))
  <2>1. Sound(c, p, m, Work(d + 1, {} \union ToSet(Sorted(K)), {}, "none", Nobody),
              Plan("drain", {}) \o Load(S) \o Save(S), Ready(d + 1))
    <3>1. {} \union ToSet(Sorted(K)) = K
      BY <1>2
    <3> QED BY <1>10, <3>1
  <2> HIDE DEF K, S
  <2> QED BY <1>1, <1>2, <1>3, <1>5, <2>1, SoundWork
<1> QED BY <1>11 DEF Archiving, Working

LEMMA SoundDrain ==
  ASSUME NEW c \in Call, NEW p \in Process, NEW m, NEW d \in 1..2, c.op = "archive",
         NEW F \in SUBSET Row, {c.src, Unallocated} \subseteq F
  PROVE  Sound(c, p, m, Work(d, F, {}, "positive", Nobody), Transferring(p, c.src, Unallocated),
               At0("drained", d))
<1> DEFINE K == {c.src, Unallocated}
<1> DEFINE S == {c.src, Unallocated, p}
<1>1. K \in SUBSET Budget /\ K \in SUBSET Row /\ S \in SUBSET Row
  BY RowsApart DEF Call, Row, Transfers
<1>2. Sorted(K) \in Seq(Lockable) /\ ToSet(Sorted(K)) = K
  BY <1>1, SortedLocks
<1>3. /\ "positive" \in Facts /\ d \in 0..2 /\ d + 1 \in 0..3 /\ d \in 0..3
      /\ {} \in SUBSET Row /\ Nobody \in Budget \union {Nobody} \union SUBSET Row
      /\ At0("drained", d + 1) \in Label /\ At0("drained", d) \in Label
  BY PlainLabels DEF Facts, Stages
<1>4. EndsTo(At0("drained", d + 1), At0("drained", d))
  BY DEF EndsTo, At0, L, Deepened
<1>5. SavesTo(c, p, m, Work(d + 1, F \union ToSet(Sorted(K)), {}, "positive", Nobody), S,
              At0("drained", d + 1))
  <2>1. PICK x : x = Work(d + 1, F \union ToSet(Sorted(K)), {}, "positive", Nobody)
    OBVIOUS
  <2>2. /\ Open(x) /\ x.saved = {} /\ x.fresh = F \union ToSet(Sorted(K)) /\ x.fact = "positive"
        /\ x.deep = d + 1
    BY <2>1 DEF Open, Work, L
  <2>3. SavesTo(c, p, m, x, S, At0("drained", d + 1))
    BY <2>2 DEF SavesTo, Untouched
  <2> QED BY <2>1, <2>3
<1> HIDE DEF K, S
<1>6. Sound(c, p, m, Work(d, F, {}, "positive", Nobody), Locked(Sorted(K), Save(S)),
            At0("drained", d))
  BY <1>1, <1>2, <1>3, <1>4, <1>5, SoundLockedSave
<1> QED BY <1>6 DEF Transferring, K, S

\* budget.delete, before it knows its counterparties' locks.
LEMMA SoundDrop ==
  ASSUME NEW c \in Call, NEW p \in Process, NEW m, NEW d \in 0..1, c.op = "drop",
         NEW K \in SUBSET Budget
  PROVE  Sound(c, p, m, Working(d), Dropping(c.src, K), After(d))
<1>1. {c.src, Unallocated} \union K \in SUBSET Budget /\ K \in SUBSET Row
  BY RowsApart DEF Call, Row
<1>2. Doomed(c.src, K) \in Seq(Row) /\ \A k \in 1..Len(Doomed(c.src, K)) : Doomed(c.src, K)[k] \in Lockable
  <2>1. Doomed(c.src, K) \in Seq(Lockable)
    BY <1>1, SortedLocks DEF Doomed
  <2> HIDE DEF Doomed
  <2> QED BY <2>1, KeyLists, LenProperties
<1>3. Working(d) \in Label /\ After(d) \in Label
  BY PlainLabels
<1>4. Sound(c, p, m, Working(d), Each("acquire", Doomed(c.src, K)), Working(d))
  BY <1>2, <1>3, EachRedis
<1>5. Sound(c, p, m, Working(d), Plan("recheck", K), After(d))
  <2>1. PICK x : x = Working(d)
    OBVIOUS
  <2>2. x.deep = d
    BY <2>1 DEF Working, Work, L
  <2>3. DecidesTo(c, x, DoAll("recheck", K), After(d))
    BY <2>1, <2>2 DEF DecidesTo, DoAll
  <2>4. "recheck" \in Plans \union {"expect"}
    BY DEF Plans
  <2> QED BY <1>1, <1>3, <2>1, <2>3, <2>4, SoundPlan DEF Plan
<1> QED BY <1>4, <1>5, SoundConcat DEF Dropping

\* ... and when it has them all.
LEMMA SoundDropLocked ==
  ASSUME NEW c \in Call, NEW p \in Process, NEW m, NEW d \in 0..1, c.op = "drop",
         NEW K \in SUBSET Budget
  PROVE  Sound(c, p, m, Working(d), DroppingLocked(c.src, K), After(d))
<1> DEFINE F == {c.src, Unallocated} \union K
<1> DEFINE keys == Doomed(c.src, K)
<1> DEFINE S == Transfers \union {Allocation}
<1>1. F \in SUBSET Budget /\ F \in SUBSET Row /\ S \in SUBSET Row /\ K \in SUBSET Row
  BY RowsApart DEF Call, Row
<1>2. keys \in Seq(Row) /\ ToSet(keys) = F /\ {} \union F = F
  BY <1>1, SortedLocks DEF Doomed
<1>3. /\ EndsTo(Ready(d + 1), After(d)) /\ Ready(d + 1) \in Label /\ After(d) \in Label
      /\ "none" \in Facts /\ "loaded" \in Facts /\ "checked" \in Facts
      /\ d \in 0..2 /\ d + 1 \in 0..3
      /\ {} \in SUBSET Row /\ Nobody \in Budget \union {Nobody} \union SUBSET Row
      /\ d + 1 \in 1..3
  BY PlainLabels, PlainEnds DEF Facts
<1>4. \A r \in F, T \in SUBSET Row : MayLock(c, Work(d + 1, {} \union T, {}, "none", Nobody), r)
  <2> HIDE DEF F
  <2> QED BY <1>1, <1>3, LockFirst
<1>5. Sound(c, p, m, Work(d + 1, F, {}, "none", Nobody), Load(S),
            Work(d + 1, F, {}, "loaded", Nobody))
  <2>1. PICK x : x = Work(d + 1, F, {}, "none", Nobody)
    OBVIOUS
  <2>2. /\ Open(x) /\ x.saved = {} /\ x.fresh = F /\ x.fact = "none"
        /\ Finds(x, "loaded", Nobody) = Work(d + 1, F, {}, "loaded", Nobody)
    BY <2>1 DEF Open, Finds, Work, L
  <2>3. LoadsTo(c, x, S, Work(d + 1, F, {}, "loaded", Nobody))
    BY <2>2 DEF LoadsTo, Untouched
  <2>4. x \in Label /\ Work(d + 1, F, {}, "loaded", Nobody) \in Label
    BY <1>1, <1>3, <2>1, WorkLabel
  <2> QED BY <1>1, <2>1, <2>3, <2>4, SoundLoad
<1>6. Sound(c, p, m, Work(d + 1, F, {}, "loaded", Nobody), Check,
            Work(d + 1, F, {}, "checked", Nobody))
  <2>1. PICK x : x = Work(d + 1, F, {}, "loaded", Nobody)
    OBVIOUS
  <2>2. /\ Open(x) /\ x.saved = {} /\ x.fact = "loaded"
        /\ Finds(x, "checked", Nobody) = Work(d + 1, F, {}, "checked", Nobody)
    BY <2>1 DEF Open, Finds, Work, L
  <2>3. ChecksTo(c, x, Work(d + 1, F, {}, "checked", Nobody))
    BY <2>2 DEF ChecksTo, Untouched
  <2>4. x \in Label /\ Work(d + 1, F, {}, "checked", Nobody) \in Label
    BY <1>1, <1>3, <2>1, WorkLabel
  <2> QED BY <2>1, <2>3, <2>4, SoundCheck
<1>7. Sound(c, p, m, Work(d + 1, F, {}, "checked", Nobody), <<DoAll("expect", K)>>, Ready(d + 1))
  <2>1. PICK x : x = Work(d + 1, F, {}, "checked", Nobody)
    OBVIOUS
  <2>2. Open(x) /\ x.saved = {} /\ x.fresh = F /\ x.fact = "checked" /\ x.deep = d + 1
    BY <2>1 DEF Open, Work, L
  <2>3. DecidesTo(c, x, DoAll("expect", K), Ready(d + 1))
    <3>1. K \union {c.src, Unallocated} \subseteq F
      OBVIOUS
    <3> HIDE DEF F
    <3> QED BY <2>2, <3>1 DEF DecidesTo, Untouched, DoAll
  <2>4. x \in Label
    BY <1>1, <1>3, <2>1, WorkLabel
  <2> QED BY <1>1, <1>3, <2>1, <2>3, <2>4, SoundPlan
<1> HIDE DEF F, keys, S
<1>8. Sound(c, p, m, Work(d + 1, {}, {}, "none", Nobody), Each("lock", keys),
            Work(d + 1, F, {}, "none", Nobody))
  BY <1>1, <1>2, <1>3, <1>4, WorkLocks
<1>9. Sound(c, p, m, Work(d + 1, {}, {}, "none", Nobody), Each("lock", keys) \o Load(S),
            Work(d + 1, F, {}, "loaded", Nobody))
  BY <1>5, <1>8, SoundConcat
<1>10. Sound(c, p, m, Work(d + 1, {}, {}, "none", Nobody), Each("lock", keys) \o Load(S) \o Check,
             Work(d + 1, F, {}, "checked", Nobody))
  BY <1>6, <1>9, SoundConcat
<1>11. Sound(c, p, m, Work(d + 1, {}, {}, "none", Nobody),
             Each("lock", keys) \o Load(S) \o Check \o <<DoAll("expect", K)>>, Ready(d + 1))
  BY <1>7, <1>10, SoundConcat
<1>12. Sound(c, p, m, Work(d, {}, {}, "none", Nobody),
             Atomic(Each("lock", keys) \o Load(S) \o Check \o <<DoAll("expect", K)>>), After(d))
  BY <1>3, <1>11, WorkAtomic
<1> QED BY <1>12 DEF DroppingLocked, Working, keys, S

LEMMA SoundRecheck ==
  ASSUME NEW c \in Call, NEW p \in Process, NEW m, NEW d \in 0..1, c.op = "drop",
         NEW K \in SUBSET Budget, NEW now \in SUBSET Budget
  PROVE  Sound(c, p, m, Working(d), Rechecking(c.src, K, now), After(d))
<1> DEFINE leave == Each("release", Reverse(Doomed(c.src, K)))
<1>1. Doomed(c.src, K) \in Seq(Lockable)
  <2>1. {c.src, Unallocated} \union K \in SUBSET Budget
    BY RowsApart DEF Call
  <2> QED BY <2>1, SortedLocks DEF Doomed
<1>2. \A a \in Label : Sound(c, p, m, a, leave, a)
  BY <1>1, ReversedKeys, EachRedis
<1>3. Working(d) \in Label /\ After(d) \in Label
  BY PlainLabels
<1>4. Sound(c, p, m, Working(d), DroppingLocked(c.src, K) \o leave, After(d))
  BY <1>2, <1>3, SoundDropLocked, SoundConcat
<1>5. Sound(c, p, m, Working(d), leave \o Dropping(c.src, K \union now), After(d))
  <2>1. K \union now \in SUBSET Budget
    OBVIOUS
  <2> QED BY <1>2, <1>3, <2>1, SoundDrop, SoundConcat
<1> QED BY <1>4, <1>5 DEF Rechecking

LEMMA SoundProgram ==
  ASSUME NEW c \in Call, NEW p \in Process, NEW m \in TransferValue, NEW d \in 0..1,
         c.op \notin {"fund", "rename", "unpost"}, c.op = "reverse" => db[Earlier] = m
  PROVE  Sound(c, p, m, Working(d), Program(c, p), After(d))
<1>1. CASE c.op = "transfer"
  BY <1>1, SoundTransfer DEF Program
<1>2. CASE c.op = "reverse"
  BY <1>2, SoundReverse DEF Program
<1>3. CASE c.op = "create"
  BY <1>3, SoundCreate DEF Program
<1>4. CASE c.op = "post"
  BY <1>4, SoundPost DEF Program
<1>5. CASE c.op = "resolve"
  BY <1>5, SoundResolve DEF Program
<1>6. CASE c.op \in {"split", "delete", "drop"}
  <2>1. PICK x : x = Working(d)
    OBVIOUS
  <2>2. x.deep = d /\ x \in Label /\ After(d) \in Label
    <3>1. d \in 0..2 /\ d \in 0..3
      OBVIOUS
    <3>2. Working(d) \in Label /\ After(d) \in Label
      BY <3>1, PlainLabels
    <3>3. x.deep = d
      BY <2>1 DEF Working, Work, L
    <3> QED BY <2>1, <3>2, <3>3
  <2>3. DecidesTo(c, x, DoAll(c.op, {}), After(d))
    BY <1>6, <2>1, <2>2 DEF DecidesTo, DoAll
  <2>4. c.op \in Plans \union {"expect"} /\ {} \in SUBSET Row
    BY <1>6 DEF Plans
  <2>5. Sound(c, p, m, x, <<DoAll(c.op, {})>>, After(d))
    BY <2>2, <2>3, <2>4, SoundPlan
  <2> QED BY <1>6, <2>1, <2>5 DEF Program, Plan
<1>7. CASE c.op = "archive"
  BY <1>7, SoundArchive DEF Program
<1>8. CASE c.op = "edit"
  BY <1>8, SoundEdit DEF Program
<1> QED BY <1>1, <1>2, <1>3, <1>4, <1>5, <1>6, <1>7, <1>8 DEF Call

LEMMA SoundRun ==
  ASSUME NEW c \in Call, NEW p \in Process, NEW m \in TransferValue,
         c.op \notin {"fund", "rename", "unpost"}, c.op = "reverse" => db[Earlier] = m
  PROVE  Sound(c, p, m, Working(0), Run(c, p), Done)
<1>1. CASE c.via = "request"
  <2>1. Sound(c, p, m, Working(1), Program(c, p), After(1))
    BY SoundProgram
  <2>2. EndsTo(Ready(0 + 1), After(0)) /\ After(0) = Done /\ After(1) = Ready(1) /\ Done \in Label
    BY PlainEnds, PlainLabels DEF After
  <2>3. /\ "none" \in Facts /\ {} \in SUBSET Row
        /\ Nobody \in Budget \union {Nobody} \union SUBSET Row
    BY DEF Facts
  <2>4. Sound(c, p, m, Work(0 + 1, {}, {}, "none", Nobody), Program(c, p), Ready(0 + 1))
    BY <2>1, <2>2 DEF Working
  <2>5. Sound(c, p, m, Work(0, {}, {}, "none", Nobody), Atomic(Program(c, p)), Done)
    BY <2>2, <2>3, <2>4, WorkAtomic
  <2> QED BY <1>1, <2>5 DEF Run, Working
<1>2. CASE c.via # "request"
  BY <1>2, SoundProgram DEF Run, After
<1> QED BY <1>1, <1>2

-----------------------------------------------------------------------------
(* What a label says of the rows: d are the committed values, w what the     *)
(* process has written, K the rows it has locked, o its objects, and v the   *)
(* values on which its call has acted.                                       *)

\* The allocation does not carry b's money.
Off(d, b) == d[Allocation] = Gone \/ d[Allocation].budget # b
Touches(x, b) == x # Gone /\ b \in Ends(x)
\* v has the transfers of budget b as they are.
SameMoves(v, d, b) == \A i \in Transfers : Touches(v[i], b) \/ Touches(d[i], b) => v[i] = d[i]

\* What budget.delete knows when it saves the rows S.
Dooms(c, F, v, d, S) ==
  /\ SameMoves(v, d, c.src) /\ Off(d, c.src)
  /\ \E B \in SUBSET Budget :
       /\ {c.src, Unallocated} \union B \subseteq F
       /\ Counterparties(v, c.src) \subseteq B \union {Unallocated}
       /\ S = {c.src, Unallocated} \union B \union Touching(v, c.src)

Found(c, a, v, d) ==
  CASE a.fact = "none"     -> TRUE
    [] a.fact = "checked"  ->
         \/ c.op = "resolve" /\ Tx \in a.fresh /\ v[Tx].pending
         \/ c.op = "split" /\ Tx \in a.fresh /\ ~v[Tx].pending
         \/ c.op = "drop" /\ c.src \in a.fresh /\ SameMoves(v, d, c.src) /\ Off(d, c.src)
    [] a.fact = "from"     ->
         /\ {Tx, Allocation} \subseteq a.fresh /\ a.arg \in Budget /\ v[Allocation].budget = a.arg
         /\ c.op = "split" => ~v[Tx].pending
    [] a.fact = "positive" -> c.src \in a.fresh /\ v[c.src] > 0
    [] a.fact = "loaded"   -> /\ c.op = "drop" /\ c.src \in a.fresh /\ SameMoves(v, d, c.src)
                              /\ Off(v, c.src) => Off(d, c.src)
    [] a.fact = "saves"    -> c.op = "drop" /\ Dooms(c, a.fresh, v, d, a.arg)

\* The rows W are all that the call saves.
Complete(c, p, m, F, W, v, d) ==
  \/ c.op = "transfer" /\ {c.src, c.dst} \subseteq F /\ W = {c.src, c.dst, p}
  \/ c.op = "reverse" /\ W = Ends(m) \union {Earlier} /\ W \subseteq F
  \/ c.op = "create" /\ W = {Account, Unallocated} /\ W \subseteq F
  \/ c.op = "post" /\ W = {Account, Tx} /\ W \subseteq F
  \/ c.op = "resolve" /\ W = {Account, Tx, Unallocated, Allocation} /\ W \subseteq F
     /\ v[Tx].pending
  \/ /\ c.op = "split" /\ {Tx, Allocation, c.dst, v[Allocation].budget} \subseteq F
     /\ ~v[Tx].pending
     /\ W = IF v[Allocation].budget = c.dst THEN {}
            ELSE {c.dst, v[Allocation].budget, Allocation}
  \/ c.op = "delete" /\ W = {Account, Tx, Allocation, v[Allocation].budget} /\ W \subseteq F
  \/ /\ c.op = "archive" /\ {c.src, Unallocated} \subseteq F
     /\ IF v[c.src] > 0 THEN W = {c.src, Unallocated, p} ELSE W \subseteq {c.src}
  \/ c.op = "edit" /\ W = {c.src} /\ W \subseteq F
  \/ c.op = "drop" /\ Dooms(c, F, v, d, W)

\* A row that no other process can change.
Kept(r, K) == r \in K \/ (r = Allocation /\ Tx \in K)

\* The rows F of v are as they are and stay so; the rows W are written with what the call
\* makes of v.
Snap(c, p, F, W, v, d, w, K) ==
  /\ v = [r \in Row |-> v[r]] /\ F \subseteq Row /\ W \subseteq Row
  /\ \A r \in F : v[r] = d[r] /\ d[r] # Gone /\ Kept(r, K)
  /\ DOMAIN w = W /\ W \subseteq K
  /\ \A r \in W : w[r] = Effect(c, p, v)[r]

\* The writes of a process are to rows whose changes others are kept from seeing half done.
Guarded(p, d, w, K) ==
  /\ DOMAIN w \subseteq K
  /\ Allocation \in DOMAIN w =>
       /\ Tx \in K
       /\ \/ w[Allocation] = Gone
          \/ d[Allocation] # Gone /\ w[Allocation].budget = d[Allocation].budget
          \/ w[Allocation].budget \in K
  /\ \A i \in Transfers \intersect DOMAIN w :
       /\ i = p \/ d[i] # Gone
       /\ d[i] # Gone => Ends(d[i]) \subseteq K
       /\ w[i] # Gone => Ends(w[i]) \subseteq K

Stage(c, p, m, a, F, W, v, d, w, o) ==
  CASE a.stage = "work"     -> F = a.fresh /\ W = a.saved /\ v = o /\ Found(c, a, v, d)
    [] a.stage = "drained"  -> /\ c.op = "archive" /\ {c.src, Unallocated} \subseteq F
                               /\ W = IF v[c.src] > 0 THEN {c.src, Unallocated, p} ELSE {}
    [] a.stage = "reloaded" -> /\ c.op = "archive" /\ {c.src, Unallocated} \subseteq F
                               /\ W = IF v[c.src] > 0 THEN {c.src, Unallocated, p} ELSE {}
                               /\ o[c.src] = IF c.src \in W THEN w[c.src] ELSE d[c.src]
    [] a.stage = "ready"    -> Complete(c, p, m, F, W, v, d)

Holds(c, p, m, a, d, w, K, o) ==
  IF a.stage = "done" THEN DOMAIN w = {}
  ELSE /\ d[p] = Gone /\ Guarded(p, d, w, K)
       /\ \E F, W, v : /\ Snap(c, p, F, W, v, d, w, K)
                       /\ Stage(c, p, m, a, F, W, v, d, w, o)

-----------------------------------------------------------------------------
(* Other processes' commits.                                               *)

\* A change of the committed rows that leaves alone what p, with the locks K, protects.
Spares(p, K, d, e) ==
  /\ \A r \in K : e[r] = d[r]
  /\ Tx \in K => e[Allocation] = d[Allocation]
  /\ d[p] = Gone => e[p] = Gone
  /\ \A b \in K, i \in Transfers : Touches(d[i], b) \/ Touches(e[i], b) => e[i] = d[i]
  /\ \A b \in K : Off(d, b) => Off(e, b)

LEMMA SparedMoves ==
  ASSUME NEW p, NEW K, NEW d, NEW e, NEW v, NEW b \in K, Spares(p, K, d, e), SameMoves(v, d, b)
  PROVE  SameMoves(v, e, b)
<1> SUFFICES ASSUME NEW i \in Transfers, Touches(v[i], b) \/ Touches(e[i], b)
             PROVE  v[i] = e[i]
  BY DEF SameMoves
<1>1. Touches(e[i], b) => e[i] = d[i]
  BY DEF Spares
<1>2. Touches(d[i], b) => e[i] = d[i]
  BY DEF Spares
<1>3. Touches(v[i], b) \/ Touches(d[i], b) => v[i] = d[i]
  BY DEF SameMoves
<1> QED BY <1>1, <1>2, <1>3

LEMMA SparedDooms ==
  ASSUME NEW c \in Call, NEW p, NEW K, NEW d, NEW e, NEW v, NEW F, NEW S, c.src \in K,
         Spares(p, K, d, e), Dooms(c, F, v, d, S)
  PROVE  Dooms(c, F, v, e, S)
<1>1. SameMoves(v, e, c.src)
  BY SparedMoves DEF Dooms
<1>2. Off(e, c.src)
  BY DEF Dooms, Spares
<1> QED BY <1>1, <1>2 DEF Dooms

LEMMA Frame ==
  ASSUME NEW c \in Call, NEW p, NEW m, NEW a, NEW d, NEW w, NEW K, NEW o, NEW e,
         Holds(c, p, m, a, d, w, K, o), a.stage \in Stages, a.fact \in Facts,
         a.stage # "done" => Spares(p, K, d, e)
  PROVE  Holds(c, p, m, a, e, w, K, o)
<1>1. CASE a.stage = "done"
  BY <1>1 DEF Holds
<1>2. CASE a.stage # "done"
  <2>1. d[p] = Gone /\ Guarded(p, d, w, K) /\ Spares(p, K, d, e)
    BY <1>2 DEF Holds
  <2>2. PICK F, W, v : Snap(c, p, F, W, v, d, w, K) /\ Stage(c, p, m, a, F, W, v, d, w, o)
    BY <1>2 DEF Holds
  <2>3. c.src \in Budget /\ Allocation # c.src /\ Allocation \notin Transfers
    BY RowsApart DEF Call, Transfers
  <2>4. Snap(c, p, F, W, v, e, w, K)
    <3>1. ASSUME NEW r \in F PROVE e[r] = d[r]
      BY <2>1, <2>2 DEF Snap, Kept, Spares
    <3> QED BY <2>2, <3>1 DEF Snap
  <2>5. ASSUME c.src \in F PROVE c.src \in K /\ e[c.src] = d[c.src]
    BY <2>1, <2>2, <2>3, <2>5 DEF Snap, Kept, Spares
  <2>6. Guarded(p, e, w, K)
    <3>1. \A r \in DOMAIN w : e[r] = d[r]
      BY <2>1 DEF Guarded, Spares
    <3>2. e[p] = Gone
      BY <2>1 DEF Spares
    <3> QED BY <2>1, <3>1, <3>2 DEF Guarded
  <2>7. Stage(c, p, m, a, F, W, v, e, w, o)
    <3>1. CASE a.stage = "work"
      <4>1. F = a.fresh /\ W = a.saved /\ v = o /\ Found(c, a, v, d)
        BY <2>2, <3>1 DEF Stage
      <4>2. c.src \in a.fresh => \A b \in {c.src} : Off(d, b) => Off(e, b)
        BY <2>1, <2>5, <4>1 DEF Spares
      <4>3. c.src \in a.fresh /\ SameMoves(v, d, c.src) => SameMoves(v, e, c.src)
        BY <2>1, <2>5, <4>1, SparedMoves
      <4>4. Dooms(c, a.fresh, v, d, a.arg) => Dooms(c, a.fresh, v, e, a.arg)
        <5>1. Dooms(c, a.fresh, v, d, a.arg) => c.src \in a.fresh
          BY DEF Dooms
        <5> QED BY <2>1, <2>5, <4>1, <5>1, SparedDooms
      <4>5. Found(c, a, v, e)
        BY <4>1, <4>2, <4>3, <4>4 DEF Found, Facts
      <4> QED BY <3>1, <4>1, <4>5 DEF Stage
    <3>2. CASE a.stage = "drained"
      BY <2>2, <3>2 DEF Stage
    <3>3. CASE a.stage = "reloaded"
      BY <2>2, <2>5, <3>3 DEF Stage
    <3>4. CASE a.stage = "ready"
      <4>1. Complete(c, p, m, F, W, v, d)
        BY <2>2, <3>4 DEF Stage
      <4>2. Dooms(c, F, v, d, W) => Dooms(c, F, v, e, W)
        <5>1. Dooms(c, F, v, d, W) => c.src \in F
          BY DEF Dooms
        <5> QED BY <2>1, <2>5, <5>1, SparedDooms
      <4>3. Complete(c, p, m, F, W, v, e)
        BY <4>1, <4>2 DEF Complete
      <4> QED BY <3>4, <4>3 DEF Stage
    <3> QED BY <1>2, <3>1, <3>2, <3>3, <3>4 DEF Stages
  <2> QED BY <1>2, <2>1, <2>4, <2>6, <2>7 DEF Holds, Spares
<1> QED BY <1>1, <1>2

\* What a process commits spares the others.
LEMMA CommitSpares ==
  ASSUME NEW p \in Process, NEW q \in Process, p # q, NEW d, NEW w, NEW K, NEW J,
         WellFormed(d), d[p] = Gone, K \intersect J = {}, K \subseteq Row, J \subseteq Row,
         Guarded(q, d, w, J), NEW e,
         e = [r \in Row |-> IF r \in DOMAIN w THEN w[r] ELSE d[r]]
  PROVE  Spares(p, K, d, e)
<1>1. p \in Row /\ Transfers \subseteq Row /\ Allocation \in Row /\ p \in Transfers
  BY DEF Row, Transfers
<1>2. \A r \in Row : e[r] = IF r \in DOMAIN w THEN w[r] ELSE d[r]
  OBVIOUS
<1>3. \A r \in K : e[r] = d[r]
  BY <1>2 DEF Guarded
<1>4. Tx \in K => e[Allocation] = d[Allocation]
  BY <1>1, <1>2 DEF Guarded
<1>5. e[p] = Gone
  BY <1>1, <1>2 DEF Guarded
<1>6. ASSUME NEW b \in K, NEW i \in Transfers, Touches(d[i], b) \/ Touches(e[i], b)
      PROVE  e[i] = d[i]
  <2>1. CASE i \notin DOMAIN w
    BY <1>1, <1>2, <2>1
  <2>2. CASE i \in DOMAIN w
    <3>1. e[i] = w[i]
      BY <1>1, <1>2, <2>2
    <3>2. d[i] # Gone => b \notin Ends(d[i])
      BY <2>2 DEF Guarded
    <3>3. w[i] # Gone => b \notin Ends(w[i])
      BY <2>2 DEF Guarded
    <3> QED BY <1>6, <3>1, <3>2, <3>3 DEF Touches
  <2> QED BY <2>1, <2>2
<1>7. ASSUME NEW b \in K, Off(d, b) PROVE Off(e, b)
  <2>1. CASE Allocation \notin DOMAIN w
    BY <1>1, <1>2, <1>7, <2>1 DEF Off
  <2>2. CASE Allocation \in DOMAIN w
    <3>1. e[Allocation] = w[Allocation]
      BY <1>1, <1>2, <2>2
    <3> QED BY <1>7, <2>2, <3>1 DEF Guarded, Off
  <2> QED BY <2>1, <2>2
<1> QED BY <1>3, <1>4, <1>5, <1>6, <1>7 DEF Spares

-----------------------------------------------------------------------------
(* The effects of the calls, row by row.                                   *)

LEMMA MoveEffect ==
  ASSUME NEW p \in Process, NEW x, NEW y, NEW n, NEW v
  PROVE  /\ AfterMove(v, p, Move(x, y, n)) = [r \in Row |-> AfterMove(v, p, Move(x, y, n))[r]]
         /\ \A r \in Row : AfterMove(v, p, Move(x, y, n))[r] =
              IF r \in {x, y}
                THEN v[r] + ((IF r = y THEN n ELSE 0) - (IF r = x THEN n ELSE 0))
                ELSE IF r = p THEN Move(x, y, n) ELSE v[r]
BY DEF AfterMove, Move, Ends, Gain

LEMMA TransferEffect ==
  ASSUME NEW c, NEW p \in Process, NEW v, c.op = "transfer"
  PROVE  Effect(c, p, v) = AfterMove(v, p, Move(c.src, c.dst, 1))
BY DEF Effect

LEMMA ReverseEffect ==
  ASSUME NEW c, NEW p, NEW v, c.op = "reverse"
  PROVE  /\ Effect(c, p, v) = [r \in Row |-> Effect(c, p, v)[r]]
         /\ \A r \in Row : Effect(c, p, v)[r] =
              IF r = Earlier THEN Gone
              ELSE IF r \in Ends(v[Earlier]) THEN v[r] - Gain(v[Earlier], r) ELSE v[r]
<1>1. Effect(c, p, v) = AfterReverse(v)
  BY DEF Effect
<1> QED BY <1>1 DEF AfterReverse

LEMMA CreateEffect ==
  ASSUME NEW c, NEW p, NEW v, c.op = "create", v = [r \in Row |-> v[r]]
  PROVE  /\ Effect(c, p, v) = [r \in Row |-> Effect(c, p, v)[r]]
         /\ \A r \in Row : Effect(c, p, v)[r] =
              IF r \in {Account, Unallocated} THEN v[r] + 1 ELSE v[r]
<1>1. Effect(c, p, v) = AfterCreate(v)
  BY DEF Effect
<1>2. Account # Unallocated /\ Account \in Row /\ Unallocated \in Row
  BY RowsApart DEF Row
<1> QED BY <1>1, <1>2 DEF AfterCreate

\* A posted transaction of n.
Posted(n) == [pending |-> FALSE, amount |-> n]
\* An allocation of n to budget b.
Allotted(b, n) == [budget |-> b, amount |-> n]

LEMMA PostEffect ==
  ASSUME NEW c, NEW p, NEW v, c.op = "post", v = [r \in Row |-> v[r]], v[Tx] \in TxValue
  PROVE  /\ Effect(c, p, v) = [r \in Row |-> Effect(c, p, v)[r]]
         /\ Effect(c, p, v)[Account] =
              IF v[Tx].pending THEN v[Account] + v[Tx].amount ELSE v[Account]
         /\ Effect(c, p, v)[Tx] = Posted(v[Tx].amount)
         /\ \A r \in Row \ {Account, Tx} : Effect(c, p, v)[r] = v[r]
<1>1. Effect(c, p, v) = AfterPost(v)
  BY DEF Effect
<1>2. Account # Tx /\ Account \in Row /\ Tx \in Row
  BY RowsApart DEF Row
<1>3. AfterPost(v) = [r \in Row |-> AfterPost(v)[r]]
  BY <1>2 DEF AfterPost
<1>4. \A r \in Row \ {Account, Tx} : AfterPost(v)[r] = v[r]
  BY <1>2 DEF AfterPost
<1>5. AfterPost(v)[Tx] = Posted(v[Tx].amount)
  BY <1>2 DEF AfterPost, TxValue, Posted
<1>6. AfterPost(v)[Account] = IF v[Tx].pending THEN v[Account] + v[Tx].amount ELSE v[Account]
  BY <1>2 DEF AfterPost
<1> QED BY <1>1, <1>3, <1>4, <1>5, <1>6

LEMMA ResolveEffect ==
  ASSUME NEW c, NEW p, NEW v, c.op = "resolve", v = [r \in Row |-> v[r]]
  PROVE  /\ Effect(c, p, v) = [r \in Row |-> Effect(c, p, v)[r]]
         /\ Effect(c, p, v)[Account] = v[Account] + 2
         /\ Effect(c, p, v)[Tx] = Posted(2)
         /\ Effect(c, p, v)[Unallocated] = v[Unallocated] - v[Allocation].amount + 2
         /\ v[Allocation] \in AllocationValue =>
              Effect(c, p, v)[Allocation] = Allotted(v[Allocation].budget, 2)
         /\ \A r \in Row \ {Account, Tx, Unallocated, Allocation} : Effect(c, p, v)[r] = v[r]
<1>1. Effect(c, p, v) = AfterResolve(v)
  BY DEF Effect
<1>2. /\ Account # Tx /\ Account \in Row /\ Tx \in Row /\ Unallocated \in Row /\ Allocation \in Row
      /\ Unallocated \notin {Account, Tx, Allocation} /\ Allocation \notin {Account, Tx}
  BY RowsApart DEF Row
<1>3. AfterResolve(v) = [r \in Row |-> AfterResolve(v)[r]]
  BY <1>2 DEF AfterResolve
<1>4. \A r \in Row \ {Account, Tx, Unallocated, Allocation} : AfterResolve(v)[r] = v[r]
  BY <1>2 DEF AfterResolve
<1>5. v[Allocation] \in AllocationValue =>
        AfterResolve(v)[Allocation] = Allotted(v[Allocation].budget, 2)
  BY <1>2 DEF AfterResolve, AllocationValue, Allotted
<1>6. /\ AfterResolve(v)[Account] = v[Account] + 2
      /\ AfterResolve(v)[Tx] = Posted(2)
      /\ AfterResolve(v)[Unallocated] = v[Unallocated] - v[Allocation].amount + 2
  BY <1>2 DEF AfterResolve, Posted
<1> QED BY <1>1, <1>3, <1>4, <1>5, <1>6

LEMMA SplitEffect ==
  ASSUME NEW c \in Call, NEW p, NEW v, c.op = "split", v[Allocation] \in AllocationValue,
         NEW old, old = v[Allocation].budget, NEW n, n = v[Allocation].amount
  PROVE  /\ Effect(c, p, v) = [r \in Row |-> Effect(c, p, v)[r]]
         /\ Effect(c, p, v)[Allocation] = Allotted(c.dst, n)
         /\ old = c.dst => Effect(c, p, v)[c.dst] = v[c.dst] + (n - n)
         /\ old # c.dst => /\ Effect(c, p, v)[c.dst] = v[c.dst] + n
                           /\ Effect(c, p, v)[old] = v[old] + (0 - n)
         /\ \A r \in Row \ {Allocation, old, c.dst} : Effect(c, p, v)[r] = v[r]
<1>1. Effect(c, p, v) = AfterSplit(v, c.dst)
  BY DEF Effect
<1>2. /\ Allocation \in Row /\ c.dst \in Row /\ old \in Row /\ Allocation \notin {old, c.dst}
      /\ n \in Int /\ n - 0 = n
  BY RowsApart DEF Row, Call, AllocationValue
<1>3. AfterSplit(v, c.dst) = [r \in Row |-> AfterSplit(v, c.dst)[r]]
  BY DEF AfterSplit
<1>4. AfterSplit(v, c.dst)[Allocation] = Allotted(c.dst, n)
  BY <1>2 DEF AfterSplit, AllocationValue, Allotted
<1>5. \A r \in Row \ {Allocation, old, c.dst} : AfterSplit(v, c.dst)[r] = v[r]
  BY DEF AfterSplit, Move, Ends
<1>6. old = c.dst => AfterSplit(v, c.dst)[c.dst] = v[c.dst] + (n - n)
  BY <1>2 DEF AfterSplit, Move, Ends, Gain
<1>7. old # c.dst => AfterSplit(v, c.dst)[c.dst] = v[c.dst] + n
  <2>1. old # c.dst => AfterSplit(v, c.dst)[c.dst] = v[c.dst] + (n - 0)
    BY <1>2 DEF AfterSplit, Move, Ends, Gain
  <2> QED BY <1>2, <2>1
<1>8. old # c.dst => AfterSplit(v, c.dst)[old] = v[old] + (0 - n)
  BY <1>2 DEF AfterSplit, Move, Ends, Gain
<1> QED BY <1>1, <1>3, <1>4, <1>5, <1>6, <1>7, <1>8

LEMMA DeleteEffect ==
  ASSUME NEW c, NEW p, NEW v, c.op = "delete", v = [r \in Row |-> v[r]],
         NEW old \in Budget, old = v[Allocation].budget
  PROVE  /\ Effect(c, p, v) = [r \in Row |-> Effect(c, p, v)[r]]
         /\ Effect(c, p, v)[Tx] = Gone /\ Effect(c, p, v)[Allocation] = Gone
         /\ Effect(c, p, v)[Account] =
              IF v[Tx].pending THEN v[Account] ELSE v[Account] - v[Tx].amount
         /\ Effect(c, p, v)[old] = v[old] - v[Allocation].amount
         /\ \A r \in Row \ {Tx, Allocation, Account, old} : Effect(c, p, v)[r] = v[r]
<1>1. Effect(c, p, v) = AfterDelete(v)
  BY DEF Effect
<1>2. /\ Allocation \in Row /\ Tx \in Row /\ Account \in Row /\ old \in Row
      /\ Allocation # Tx /\ Account \notin {Tx, Allocation}
      /\ old \notin {Tx, Allocation, Account}
  BY RowsApart DEF Row
<1>3. AfterDelete(v) = [r \in Row |-> AfterDelete(v)[r]]
  BY <1>2 DEF AfterDelete
<1>4. AfterDelete(v)[Tx] = Gone /\ AfterDelete(v)[Allocation] = Gone
  BY <1>2 DEF AfterDelete
<1>5. AfterDelete(v)[Account] = IF v[Tx].pending THEN v[Account] ELSE v[Account] - v[Tx].amount
  BY <1>2 DEF AfterDelete
<1>6. AfterDelete(v)[old] = v[old] - v[Allocation].amount
  BY <1>2 DEF AfterDelete
<1>7. \A r \in Row \ {Tx, Allocation, Account, old} : AfterDelete(v)[r] = v[r]
  BY <1>2 DEF AfterDelete
<1> QED BY <1>1, <1>3, <1>4, <1>5, <1>6, <1>7

LEMMA ArchiveEffect ==
  ASSUME NEW c, NEW p, NEW v, c.op = "archive"
  PROVE  Effect(c, p, v) = IF v[c.src] > 0
                             THEN AfterMove(v, p, Move(c.src, Unallocated, v[c.src])) ELSE v
BY DEF Effect, AfterArchive

LEMMA EditEffect ==
  ASSUME NEW c, NEW p, NEW v, c.op = "edit"
  PROVE  Effect(c, p, v) = v
BY DEF Effect

LEMMA DropEffect ==
  ASSUME NEW c, NEW p, NEW v, c.op = "drop"
  PROVE  Effect(c, p, v) = AfterDrop(v, c.src)
BY DEF Effect

-----------------------------------------------------------------------------
(* A process's own steps.                                                  *)

LEMMA GuardedMore ==
  ASSUME NEW p, NEW d, NEW w, NEW K, NEW J, K \subseteq J, Guarded(p, d, w, K)
  PROVE  Guarded(p, d, w, J)
<1>1. DOMAIN w \subseteq J
  BY DEF Guarded
<1>2. Allocation \in DOMAIN w =>
        /\ Tx \in J
        /\ \/ w[Allocation] = Gone
           \/ d[Allocation] # Gone /\ w[Allocation].budget = d[Allocation].budget
           \/ w[Allocation].budget \in J
  BY DEF Guarded
<1>3. \A i \in Transfers \intersect DOMAIN w :
        /\ i = p \/ d[i] # Gone
        /\ d[i] # Gone => Ends(d[i]) \subseteq J
        /\ w[i] # Gone => Ends(w[i]) \subseteq J
  BY DEF Guarded
<1> QED BY <1>1, <1>2, <1>3 DEF Guarded

LEMMA WorkHolds ==
  ASSUME NEW c, NEW p, NEW m, NEW a, NEW d, NEW w, NEW K, NEW o, a.stage = "work"
  PROVE  Holds(c, p, m, a, d, w, K, o) <=>
           /\ d[p] = Gone /\ Guarded(p, d, w, K)
           /\ Snap(c, p, a.fresh, a.saved, o, d, w, K) /\ Found(c, a, o, d)
BY DEF Holds, Stage

\* What the rows already saved hold does not depend on the row that is locked.
LEMMA LockKeepsSaved ==
  ASSUME NEW c \in Call, NEW p, NEW a, NEW d, NEW o, o = [x \in Row |-> o[x]],
         NEW r \in Row, MayLock(c, a, r), Found(c, a, o, d),
         \A x \in a.fresh : o[x] = d[x] /\ d[x] # Gone,
         NEW u, u = [o EXCEPT ![r] = d[r]], WellFormed(d)
  PROVE  \A x \in a.saved : Effect(c, p, u)[x] = Effect(c, p, o)[x]
<1>1. \A x \in Row : u[x] = IF x = r THEN d[r] ELSE o[x]
  OBVIOUS
<1>2. u = [x \in Row |-> u[x]]
  OBVIOUS
<1>3. /\ Account \in Row /\ Tx \in Row /\ Allocation \in Row /\ c.dst \in Row
      /\ Tx # Account /\ c.dst # Allocation /\ Unallocated # Account /\ Account # Allocation
      /\ Tx # Allocation
  BY RowsApart DEF Row, Call
<1>4. CASE a.saved = {}
  BY <1>4
<1>5. CASE r \in a.fresh
  <2>1. u = o
    BY <1>1, <1>2, <1>5
  <2> QED BY <2>1
<1>6. CASE c.op = "create" /\ a.saved = {Account}
  <2>1. r # Account
    BY <1>6 DEF MayLock
  <2> QED BY <1>1, <1>2, <1>3, <1>6, <2>1, CreateEffect
<1>7. CASE c.op = "resolve" /\ a.saved = {Account, Tx}
  <2>1. r # Account
    BY <1>7 DEF MayLock
  <2>2. /\ Effect(c, p, u)[Account] = u[Account] + 2
        /\ Effect(c, p, u)[Tx] = Posted(2)
    BY <1>2, <1>3, <1>7, ResolveEffect
  <2>3. /\ Effect(c, p, o)[Account] = o[Account] + 2
        /\ Effect(c, p, o)[Tx] = Posted(2)
    BY <1>3, <1>7, ResolveEffect
  <2>4. u[Account] = o[Account]
    BY <1>1, <1>3, <2>1
  <2> QED BY <1>7, <2>2, <2>3, <2>4
<1>8. CASE /\ c.op = "split" /\ a.fact = "from" /\ a.saved = {c.dst} /\ c.dst # a.arg
           /\ Allocation \in a.fresh
  <2>1. r # c.dst /\ o[Allocation].budget = a.arg
    BY <1>8 DEF MayLock, Found
  <2>2. u[Allocation] = o[Allocation] /\ u[c.dst] = o[c.dst]
    BY <1>1, <1>3, <1>8, <2>1
  <2>5. d[Allocation] \in AllocationValue
    BY <1>8 DEF WellFormed
  <2>6. u[Allocation] \in AllocationValue /\ u[Allocation].budget # c.dst
    BY <1>8, <2>1, <2>2, <2>5
  <2>7. ASSUME NEW v, v[Allocation] \in AllocationValue, v[Allocation].budget # c.dst
        PROVE  Effect(c, p, v)[c.dst] = v[c.dst] + v[Allocation].amount
    BY <1>8, <2>7, SplitEffect
  <2>3. Effect(c, p, u)[c.dst] = u[c.dst] + u[Allocation].amount
    BY <2>6, <2>7, Zenon
  <2>4. Effect(c, p, o)[c.dst] = o[c.dst] + o[Allocation].amount
    <3>1. o[Allocation] \in AllocationValue /\ o[Allocation].budget # c.dst
      BY <1>8, <2>1, <2>2, <2>5
    <3> QED BY <2>7, <3>1, Zenon
  <2> QED BY <1>8, <2>2, <2>3, <2>4
<1> QED BY <1>4, <1>5, <1>6, <1>7, <1>8 DEF MayLock

LEMMA HoldsLock ==
  ASSUME NEW c \in Call, NEW p, NEW m, NEW a, a.fact \in Facts, NEW d, NEW w, NEW K, NEW o,
         NEW r \in Row, Holds(c, p, m, a, d, w, K, o), MayLock(c, a, r), d[r] # Gone, WellFormed(d),
         NEW u, u = [o EXCEPT ![r] = d[r]], NEW b, b = Reads(a, {r})
  PROVE  Holds(c, p, m, b, d, w, K \union {r}, u)
<1>1. a.stage = "work" /\ b.stage = "work"
  BY DEF MayLock, Open, Reads, L
<1>2. b.fresh = a.fresh \union {r} /\ b.saved = a.saved /\ b.fact = a.fact /\ b.arg = a.arg
  BY DEF Reads, L
<1>3. /\ d[p] = Gone /\ Guarded(p, d, w, K)
      /\ Snap(c, p, a.fresh, a.saved, o, d, w, K) /\ Found(c, a, o, d)
  BY <1>1, WorkHolds
<1>4. /\ o = [x \in Row |-> o[x]] /\ a.fresh \subseteq Row
      /\ \A x \in a.fresh : o[x] = d[x] /\ d[x] # Gone
  BY <1>3 DEF Snap
<1>5. \A x \in Row : u[x] = IF x = r THEN d[r] ELSE o[x]
  BY <1>4
<1>6. u = [x \in Row |-> u[x]]
  BY <1>4
<1>7. \A x \in a.fresh \union {r} : u[x] = d[x]
  BY <1>4, <1>5
<1>8. \A x \in a.saved : Effect(c, p, u)[x] = Effect(c, p, o)[x]
  BY <1>3, <1>4, LockKeepsSaved
<1>9. Guarded(p, d, w, K \union {r})
  BY <1>3, GuardedMore
<1>10. Snap(c, p, b.fresh, b.saved, u, d, w, K \union {r})
  <2>1. a.saved \subseteq Row /\ DOMAIN w = a.saved /\ a.saved \subseteq K
        /\ \A x \in a.saved : w[x] = Effect(c, p, o)[x]
    BY <1>3 DEF Snap
  <2>2. \A x \in a.fresh : d[x] # Gone /\ Kept(x, K)
    BY <1>3 DEF Snap
  <2>3. \A x \in a.fresh \union {r} : d[x] # Gone /\ Kept(x, K \union {r})
    BY <2>2 DEF Kept
  <2>4. \A x \in a.saved : w[x] = Effect(c, p, u)[x]
    BY <1>8, <2>1
  <2> QED BY <1>2, <1>4, <1>6, <1>7, <2>1, <2>3, <2>4 DEF Snap
<1>11. SameMoves(o, d, c.src) => SameMoves(u, d, c.src)
  <2>1. Transfers \subseteq Row
    BY DEF Row
  <2> QED BY <1>5, <2>1 DEF SameMoves
<1>12. \A x \in a.fresh : u[x] = o[x]
  BY <1>4, <1>7
<1>13. Found(c, b, u, d)
  <2>1. CASE a.fact = "none"
    BY <1>2, <2>1 DEF Found
  <2>2. CASE a.fact = "checked"
    BY <1>2, <1>3, <1>11, <1>12, <2>2 DEF Found
  <2>3. CASE a.fact = "from"
    BY <1>2, <1>3, <1>12, <2>3 DEF Found
  <2>4. CASE a.fact = "positive"
    BY <1>2, <1>3, <1>12, <2>4 DEF Found
  <2>5. CASE a.fact = "loaded"
    <3>1. c.op = "drop"
      BY <1>3, <2>5 DEF Found
    <3>2. r \in a.fresh
      BY <2>5, <3>1 DEF MayLock
    <3>3. u = o
      BY <1>4, <1>5, <1>6, <3>2
    <3> QED BY <1>2, <1>3, <2>5, <3>3 DEF Found
  <2>6. CASE a.fact = "saves"
    <3>1. c.op = "drop"
      BY <1>3, <2>6 DEF Found
    <3>2. r \in a.fresh
      BY <2>6, <3>1 DEF MayLock
    <3>3. u = o
      BY <1>4, <1>5, <1>6, <3>2
    <3>4. b.fresh = a.fresh
      BY <1>2, <3>2
    <3> QED BY <1>2, <1>3, <2>6, <3>3, <3>4 DEF Found
  <2> QED BY <2>1, <2>2, <2>3, <2>4, <2>5, <2>6 DEF Facts
<1> QED BY <1>1, <1>3, <1>9, <1>10, <1>13, WorkHolds

LEMMA HoldsLoad ==
  ASSUME NEW c \in Call, NEW p, NEW m, NEW a, a.fact \in Facts, NEW d, NEW w, NEW K, NEW o,
         NEW S, NEW b, LoadsTo(c, a, S, b), Holds(c, p, m, a, d, w, K, o), WellFormed(d),
         NEW e, e = [r \in Row |-> IF r \in DOMAIN w THEN w[r] ELSE d[r]],
         NEW u, u = [r \in Row |-> IF r \in S THEN e[r] ELSE o[r]]
  PROVE  Holds(c, p, m, b, d, w, K, u)
<1>1. /\ Account \in Row /\ Tx \in Row /\ Allocation \in Row /\ c.src \in Row
      /\ Tx # Allocation /\ Transfers \subseteq Row
  BY RowsApart DEF Row, Call
<1>2. ASSUME a.stage = "work"
      PROVE  /\ d[p] = Gone /\ Guarded(p, d, w, K)
             /\ Snap(c, p, a.fresh, a.saved, o, d, w, K) /\ Found(c, a, o, d)
  BY <1>2, WorkHolds
<1>3. ASSUME Untouched(a)
      PROVE  /\ a.stage = "work" /\ a.saved = {} /\ DOMAIN w = {}
             /\ o = [r \in Row |-> o[r]] /\ a.fresh \subseteq Row
             /\ \A r \in a.fresh : o[r] = d[r] /\ d[r] # Gone /\ Kept(r, K)
             /\ \A r \in Row : u[r] = IF r \in S THEN d[r] ELSE o[r]
             /\ u = [r \in Row |-> u[r]]
             /\ \A r \in a.fresh : u[r] = o[r]
  <2>1. a.stage = "work" /\ a.saved = {}
    BY <1>3 DEF Untouched, Open
  <2>2. Snap(c, p, a.fresh, a.saved, o, d, w, K)
    BY <1>2, <2>1
  <2>3. DOMAIN w = {} /\ o = [r \in Row |-> o[r]] /\ a.fresh \subseteq Row
    BY <2>1, <2>2 DEF Snap
  <2>4. \A r \in a.fresh : o[r] = d[r] /\ d[r] # Gone /\ Kept(r, K)
    BY <2>2 DEF Snap
  <2>5. \A r \in Row : u[r] = IF r \in S THEN d[r] ELSE o[r]
    BY <2>3
  <2> QED BY <2>1, <2>3, <2>4, <2>5
<1>4. CASE c.op \in {"split", "delete"} /\ Untouched(a) /\ S = {Allocation}
           /\ Tx \in a.fresh /\ b = Reads(a, S)
  <2>1. /\ b.stage = "work" /\ b.fresh = a.fresh \union {Allocation} /\ b.saved = {}
        /\ b.fact = a.fact /\ b.arg = a.arg
    BY <1>3, <1>4 DEF Reads, L
  <2>2. Tx \in K /\ d[Tx] # Gone
    BY <1>1, <1>3, <1>4 DEF Kept
  <2>3. d[Allocation] # Gone
    BY <2>2 DEF WellFormed
  <2>4. u[Allocation] = d[Allocation]
    BY <1>1, <1>3, <1>4
  <2>5. Snap(c, p, b.fresh, b.saved, u, d, w, K)
    <3>1. \A r \in b.fresh : u[r] = d[r] /\ d[r] # Gone /\ Kept(r, K)
      BY <1>3, <1>4, <2>1, <2>2, <2>3, <2>4 DEF Kept
    <3> QED BY <1>1, <1>3, <1>4, <2>1, <3>1 DEF Snap
  <2>6. Found(c, b, u, d)
    <3>1. Found(c, a, o, d)
      BY <1>2, <1>3, <1>4
    <3>2. c.op # "drop"
      BY <1>4
    <3>3. \A r \in a.fresh : u[r] = o[r]
      BY <1>3, <1>4
    <3> QED BY <1>4, <2>1, <3>1, <3>2, <3>3 DEF Found, Facts
  <2> QED BY <1>2, <1>3, <1>4, <2>1, <2>5, <2>6, WorkHolds
<1>5. CASE /\ c.op = "drop" /\ Untouched(a) /\ S = Transfers \union {Allocation}
           /\ a.fact = "none" /\ c.src \in a.fresh /\ b = Finds(a, "loaded", Nobody)
  <2>1. b.stage = "work" /\ b.fresh = a.fresh /\ b.saved = {} /\ b.fact = "loaded"
    BY <1>3, <1>5 DEF Finds, L
  <2>2. Snap(c, p, b.fresh, b.saved, u, d, w, K)
    <3>1. \A r \in b.fresh : u[r] = d[r] /\ d[r] # Gone /\ Kept(r, K)
      BY <1>3, <1>5, <2>1
    <3> QED BY <1>3, <1>5, <2>1, <3>1 DEF Snap
  <2>3. SameMoves(u, d, c.src)
    BY <1>1, <1>3, <1>5 DEF SameMoves
  <2>4. Off(u, c.src) => Off(d, c.src)
    BY <1>1, <1>3, <1>5 DEF Off
  <2>5. Found(c, b, u, d)
    BY <1>5, <2>1, <2>3, <2>4 DEF Found
  <2> QED BY <1>2, <1>3, <1>5, <2>1, <2>2, <2>5, WorkHolds
<1>6. CASE /\ c.op = "archive" /\ a.stage = "drained" /\ S = {c.src}
           /\ b = At0("reloaded", a.deep)
  <2>1. b.stage = "reloaded"
    BY <1>6 DEF At0, L
  <2>2. d[p] = Gone /\ Guarded(p, d, w, K)
    BY <1>6 DEF Holds
  <2>3. PICK F, W, v : Snap(c, p, F, W, v, d, w, K) /\ Stage(c, p, m, a, F, W, v, d, w, o)
    BY <1>6 DEF Holds
  <2>4. u[c.src] = IF c.src \in DOMAIN w THEN w[c.src] ELSE d[c.src]
    BY <1>1, <1>6
  <2>5. DOMAIN w = W
    BY <2>3 DEF Snap
  <2>6. Stage(c, p, m, b, F, W, v, d, w, u)
    BY <1>6, <2>1, <2>3, <2>4, <2>5 DEF Stage
  <2> QED BY <2>1, <2>2, <2>3, <2>6 DEF Holds
<1> QED BY <1>4, <1>5, <1>6 DEF LoadsTo

LEMMA HoldsCheck ==
  ASSUME NEW c \in Call, NEW p, NEW m, NEW a, NEW d, NEW w, NEW K, NEW o,
         NEW b, ChecksTo(c, a, b), Holds(c, p, m, a, d, w, K, o), Legal(c, o)
  PROVE  Holds(c, p, m, b, d, w, K, o)
<1>1. /\ a.stage = "work" /\ b.stage = "work" /\ b.fresh = a.fresh /\ b.saved = a.saved
      /\ b.fact = "checked"
  BY DEF ChecksTo, Untouched, Open, Finds, L
<1>2. /\ d[p] = Gone /\ Guarded(p, d, w, K)
      /\ Snap(c, p, a.fresh, a.saved, o, d, w, K) /\ Found(c, a, o, d)
  BY <1>1, WorkHolds
<1>3. CASE c.op = "resolve" /\ Tx \in a.fresh
  <2>1. o[Tx].pending
    BY <1>3 DEF Legal
  <2>2. Found(c, b, o, d)
    BY <1>1, <1>3, <2>1 DEF Found
  <2> QED BY <1>1, <1>2, <2>2, WorkHolds
<1>4. CASE c.op = "split" /\ Tx \in a.fresh
  <2>1. ~o[Tx].pending
    BY <1>4 DEF Legal
  <2>2. Found(c, b, o, d)
    BY <1>1, <1>4, <2>1 DEF Found
  <2> QED BY <1>1, <1>2, <2>2, WorkHolds
<1>5. CASE c.op = "drop" /\ a.fact = "loaded"
  <2>1. Off(o, c.src)
    BY <1>5 DEF Legal, Off
  <2>2. c.src \in a.fresh /\ SameMoves(o, d, c.src) /\ Off(d, c.src)
    BY <1>2, <1>5, <2>1 DEF Found
  <2>3. Found(c, b, o, d)
    BY <1>1, <1>5, <2>2 DEF Found
  <2> QED BY <1>1, <1>2, <2>3, WorkHolds
<1> QED BY <1>3, <1>4, <1>5 DEF ChecksTo

\* What process p has written once it saves the rows S, from the objects o.
Written(c, p, o, w, S) ==
  [r \in DOMAIN w \union S |-> IF r \in S THEN Effect(c, p, o)[r] ELSE w[r]]

\* The values x of the rows S are guarded by the locks J.
Protected(p, d, J, S, x) ==
  /\ Allocation \in S =>
       /\ Tx \in J
       /\ \/ x[Allocation] = Gone
          \/ d[Allocation] # Gone /\ x[Allocation].budget = d[Allocation].budget
          \/ x[Allocation].budget \in J
  /\ \A i \in Transfers \intersect S :
       /\ i = p \/ d[i] # Gone
       /\ d[i] # Gone => Ends(d[i]) \subseteq J
       /\ x[i] # Gone => Ends(x[i]) \subseteq J

LEMMA GuardedSave ==
  ASSUME NEW c, NEW p, NEW o, NEW d, NEW w, NEW K, Guarded(p, d, w, K), NEW S, NEW x,
         x = Written(c, p, o, w, S), Protected(p, d, K \union S, S, x)
  PROVE  Guarded(p, d, x, K \union S)
<1>1. Guarded(p, d, w, K \union S)
  BY GuardedMore
<1>5. DOMAIN x = DOMAIN w \union S /\ \A r \in DOMAIN w \ S : x[r] = w[r]
  BY DEF Written
<1>2. DOMAIN x \subseteq K \union S
  BY <1>1, <1>5 DEF Guarded
<1>3. Allocation \in DOMAIN x =>
        /\ Tx \in K \union S
        /\ \/ x[Allocation] = Gone
           \/ d[Allocation] # Gone /\ x[Allocation].budget = d[Allocation].budget
           \/ x[Allocation].budget \in K \union S
  <2>1. CASE Allocation \in S
    BY <2>1 DEF Protected
  <2>2. CASE Allocation \notin S
    <3>1. Allocation \in DOMAIN x => Allocation \in DOMAIN w /\ x[Allocation] = w[Allocation]
      BY <1>5, <2>2
    <3> QED BY <1>1, <3>1 DEF Guarded
  <2> QED BY <2>1, <2>2
<1>4. ASSUME NEW i \in Transfers \intersect DOMAIN x
      PROVE  /\ i = p \/ d[i] # Gone
             /\ d[i] # Gone => Ends(d[i]) \subseteq K \union S
             /\ x[i] # Gone => Ends(x[i]) \subseteq K \union S
  <2>1. CASE i \in S
    BY <2>1 DEF Protected
  <2>2. CASE i \notin S
    <3>1. i \in Transfers \intersect DOMAIN w /\ x[i] = w[i]
      BY <1>5, <2>2
    <3> QED BY <1>1, <3>1 DEF Guarded
  <2> QED BY <2>1, <2>2
<1> QED BY <1>2, <1>3, <1>4 DEF Guarded

LEMMA SnapSave ==
  ASSUME NEW c, NEW p, NEW F, NEW W, NEW v, NEW d, NEW w, NEW K, Snap(c, p, F, W, v, d, w, K),
         NEW S \in SUBSET Row, NEW o, NEW x, x = Written(c, p, o, w, S),
         o = v \/ \A r \in S : Effect(c, p, o)[r] = Effect(c, p, v)[r]
  PROVE  Snap(c, p, F, W \union S, v, d, x, K \union S)
<1>4. /\ DOMAIN x = DOMAIN w \union S /\ \A r \in DOMAIN w \ S : x[r] = w[r]
      /\ \A r \in S : x[r] = Effect(c, p, v)[r]
  BY DEF Written
<1>1. /\ v = [r \in Row |-> v[r]] /\ F \subseteq Row /\ W \union S \subseteq Row
      /\ DOMAIN x = W \union S /\ W \union S \subseteq K \union S
  BY <1>4 DEF Snap
<1>2. \A r \in F : v[r] = d[r] /\ d[r] # Gone /\ Kept(r, K \union S)
  BY DEF Snap, Kept
<1>3. ASSUME NEW r \in W \union S PROVE x[r] = Effect(c, p, v)[r]
  <2>1. CASE r \in S
    BY <1>4, <2>1
  <2>2. CASE r \notin S
    <3>1. r \in DOMAIN w \ S /\ w[r] = Effect(c, p, v)[r]
      BY <2>2 DEF Snap
    <3> QED BY <1>4, <3>1
  <2> QED BY <2>1, <2>2
<1> QED BY <1>1, <1>2, <1>3 DEF Snap

\* The budgets and the transaction's rows are no transfers.
LEMMA NoTransfers ==
  \A r \in Budget \union {Account, Tx, Allocation} : r \in Row /\ r \notin Transfers
BY RowsApart DEF Transfers, Row

LEMMA FirstSaveHolds ==
  ASSUME NEW c \in Call, NEW p, NEW m, NEW a, a.fact \in Facts, NEW d, NEW w, NEW K, NEW o,
         NEW S \in SUBSET Row, FirstSave(c, a, S), Holds(c, p, m, a, d, w, K, o), WellFormed(d),
         NEW b, b = Saves(a, S), NEW x, x = Written(c, p, o, w, S)
  PROVE  Holds(c, p, m, b, d, x, K \union S, o)
<1>1. /\ a.stage = "work" /\ a.saved = {} /\ b.stage = "work" /\ b.fresh = a.fresh
      /\ b.saved = S /\ b.fact = a.fact /\ b.arg = a.arg
  BY DEF FirstSave, Untouched, Open, Saves, L
<1>2. /\ d[p] = Gone /\ Guarded(p, d, w, K)
      /\ Snap(c, p, a.fresh, a.saved, o, d, w, K) /\ Found(c, a, o, d)
  BY <1>1, WorkHolds
<1>3. /\ DOMAIN x = DOMAIN w \union S /\ \A r \in DOMAIN w \ S : x[r] = w[r]
      /\ \A r \in S : x[r] = Effect(c, p, o)[r]
  BY DEF Written
<1>4. Snap(c, p, a.fresh, {} \union S, o, d, x, K \union S)
  <2>1. Snap(c, p, a.fresh, a.saved \union S, o, d, x, K \union S)
    BY <1>2, SnapSave
  <2> QED BY <1>1, <2>1
<1>5. Found(c, b, o, d)
  BY <1>1, <1>2 DEF Found
<1>6. /\ c.dst \in Budget /\ Account \notin Transfers /\ Tx # Allocation /\ Account # Allocation
      /\ c.dst # Allocation
  BY RowsApart, NoTransfers DEF Call
<1>7. a.fact = "from" => a.arg \in Budget
  BY <1>2 DEF Found
<1>8. Transfers \intersect S = {}
  BY <1>6, <1>7, NoTransfers DEF FirstSave
<1>9. Allocation \in S => Tx \in K /\ x[Allocation] = Gone
  <2>1. SUFFICES ASSUME Allocation \in S PROVE Tx \in K /\ x[Allocation] = Gone
    OBVIOUS
  <2>2. c.op = "delete" /\ Tx \in a.fresh /\ Allocation \in S /\ a.fact = "from"
    BY <1>6, <2>1 DEF FirstSave
  <2>3. Tx \in K
    BY <1>2, <1>6, <2>2 DEF Snap, Kept
  <2>4. o = [r \in Row |-> o[r]] /\ o[Allocation].budget \in Budget
    BY <1>2, <2>2 DEF Snap, Found
  <2>5. Effect(c, p, o)[Allocation] = Gone
    BY <2>2, <2>4, DeleteEffect
  <2> QED BY <1>3, <2>2, <2>3, <2>5
<1>10. Guarded(p, d, x, K \union S)
  <2>1. Protected(p, d, K \union S, S, x)
    BY <1>8, <1>9 DEF Protected
  <2> QED BY <1>2, <2>1, GuardedSave
<1>11. {} \union S = S
  OBVIOUS
<1> QED BY <1>1, <1>2, <1>4, <1>5, <1>10, <1>11, WorkHolds

LEMMA MoveWrites ==
  ASSUME NEW p \in Process, NEW s \in Budget, NEW t \in Budget, NEW n, NEW v
  PROVE  AfterMove(v, p, Move(s, t, n))[p] = Move(s, t, n) /\ Ends(Move(s, t, n)) = {s, t}
<1>1. p \in Row /\ p \notin {s, t}
  BY RowsApart DEF Row, Transfers
<1>2. AfterMove(v, p, Move(s, t, n))[p] = Move(s, t, n)
  BY <1>1, MoveEffect
<1>3. Ends(Move(s, t, n)) = {s, t}
  BY DEF Move, Ends
<1> QED BY <1>2, <1>3

\* The transfers that budget.delete deletes are between budgets that it saves.
LEMMA DropGuard ==
  ASSUME NEW c \in Call, NEW p, NEW F, NEW v, NEW d, NEW S, WellFormed(d), c.op = "drop",
         Dooms(c, F, v, d, S), NEW i \in Transfers \intersect S
  PROVE  /\ d[i] # Gone /\ Ends(d[i]) \subseteq S /\ Effect(c, p, v)[i] = Gone
         /\ i \in Touching(v, c.src)
<1>1. PICK B \in SUBSET Budget :
        /\ Counterparties(v, c.src) \subseteq B \union {Unallocated}
        /\ S = {c.src, Unallocated} \union B \union Touching(v, c.src)
  BY DEF Dooms
<1>2. i \in Row /\ i \notin Budget /\ c.src \in Budget /\ Unallocated \in Budget
  BY RowsApart, NoTransfers DEF Row, Call
<1>3. i \in Touching(v, c.src)
  BY <1>1, <1>2
<1>4. v[i] # Gone /\ c.src \in Ends(v[i])
  BY <1>3 DEF Touching
<1>5. v[i] = d[i]
  BY <1>4 DEF Dooms, SameMoves, Touches
<1>6. Ends(v[i]) \subseteq Counterparties(v, c.src) \union {c.src}
  BY <1>3 DEF Counterparties
<1>7. Effect(c, p, v) = AfterDrop(v, c.src)
  BY DropEffect
<1>8. AfterDrop(v, c.src)[i] = Gone
  BY <1>2, <1>3 DEF AfterDrop
<1> QED BY <1>1, <1>3, <1>4, <1>5, <1>6, <1>7, <1>8

\* What the last save of a call writes is protected.
LEMMA LastSaveGuard ==
  ASSUME NEW c \in Call, NEW p \in Process, NEW m \in TransferValue, NEW a, NEW d, NEW w,
         NEW K, NEW o, NEW S \in SUBSET Row, LastSave(c, p, m, a, S), WellFormed(d),
         Snap(c, p, a.fresh, a.saved, o, d, w, K), Found(c, a, o, d), d[p] = Gone,
         d[Earlier] \in {Gone, m}, NEW x, x = Written(c, p, o, w, S)
  PROVE  Protected(p, d, K \union S, S, x)
<1>10. \A r \in S : x[r] = Effect(c, p, o)[r]
  BY DEF Written
<1>1. /\ o = [r \in Row |-> o[r]] /\ a.fresh \subseteq Row
      /\ \A r \in a.fresh : o[r] = d[r] /\ d[r] # Gone /\ Kept(r, K)
  BY DEF Snap
<1>2. /\ c.src \in Budget /\ c.dst \in Budget /\ Unallocated \in Budget
      /\ Allocation \notin Budget /\ Allocation \notin Transfers /\ Tx # Allocation
      /\ Allocation # Account /\ Earlier \notin Process /\ p \in Transfers /\ Earlier \in Transfers
      /\ Earlier \in Row /\ m.src \in Budget /\ m.dst \in Budget
  BY RowsApart, NoTransfers DEF Transfers, TransferValue, Row, Call
<1>3. CASE c.op = "transfer"
  <2>1. S = {c.src, c.dst, p}
    BY <1>3 DEF LastSave
  <2>2. Allocation \notin S /\ Transfers \intersect S = {p}
    BY <1>2, <2>1, NoTransfers
  <2>3. x[p] = Move(c.src, c.dst, 1) /\ Ends(x[p]) = {c.src, c.dst}
    <3>1. Effect(c, p, o) = AfterMove(o, p, Move(c.src, c.dst, 1))
      BY <1>3, TransferEffect
    <3>2. Effect(c, p, o)[p] = Move(c.src, c.dst, 1)
      BY <1>2, <3>1, MoveWrites
    <3>3. Ends(Move(c.src, c.dst, 1)) = {c.src, c.dst}
      BY <1>2, MoveWrites
    <3>4. x[p] = Effect(c, p, o)[p]
      BY <1>10, <2>1
    <3> QED BY <3>2, <3>3, <3>4
  <2> QED BY <2>1, <2>2, <2>3 DEF Protected
<1>4. CASE c.op = "reverse"
  <2>1. S = Ends(m) \union {Earlier} /\ S \subseteq a.fresh
    BY <1>4 DEF LastSave
  <2>2. Allocation \notin S /\ Transfers \intersect S = {Earlier}
    BY <1>2, <2>1, NoTransfers DEF Ends
  <2>3. x[Earlier] = Gone
    <3>1. Effect(c, p, o)[Earlier] = Gone
      BY <1>2, <1>4, ReverseEffect
    <3> QED BY <1>10, <2>1, <3>1
  <2>4. d[Earlier] = m /\ d[Earlier] # Gone
    BY <1>1, <2>1
  <2>5. Ends(d[Earlier]) \subseteq K \union S
    BY <2>1, <2>4
  <2>6. \A i \in Transfers \intersect S : i = Earlier
    BY <2>2
  <2> QED BY <2>2, <2>3, <2>4, <2>5, <2>6 DEF Protected
<1>5. CASE c.op \in {"create", "post", "edit"}
  <2>1. S \subseteq Budget \union {Account, Tx}
    BY <1>2, <1>5 DEF LastSave
  <2> QED BY <1>2, <2>1, NoTransfers DEF Protected
<1>6. CASE c.op = "resolve"
  <2>1. S = {Unallocated, Allocation} /\ {Tx, Allocation} \subseteq a.fresh
    BY <1>6 DEF LastSave
  <2>2. Tx \in K /\ d[Allocation] \in AllocationValue /\ o[Allocation] = d[Allocation]
    BY <1>1, <1>2, <2>1 DEF Kept, WellFormed
  <2>3. x[Allocation] = Allotted(o[Allocation].budget, 2)
    BY <1>10, <1>1, <1>6, <2>1, <2>2, ResolveEffect
  <2>4. x[Allocation].budget = d[Allocation].budget
    BY <2>2, <2>3 DEF Allotted
  <2> QED BY <1>1, <1>2, <2>1, <2>2, <2>4, NoTransfers DEF Protected
<1>7. CASE c.op = "split"
  <2>1. /\ S = {a.arg, Allocation} /\ {Tx, Allocation, c.dst} \subseteq a.fresh
        /\ a.fact = "from"
    BY <1>7 DEF LastSave
  <2>2. a.arg \in Budget
    BY <2>1 DEF Found
  <2>3. /\ Tx \in K /\ c.dst \in K /\ d[Allocation] \in AllocationValue
        /\ o[Allocation] \in AllocationValue
    BY <1>1, <1>2, <2>1 DEF Kept, WellFormed
  <2>4. x[Allocation] = Allotted(c.dst, o[Allocation].amount)
    BY <1>10, <1>7, <2>1, <2>3, SplitEffect
  <2>5. x[Allocation].budget = c.dst
    BY <2>4 DEF Allotted
  <2> QED BY <1>2, <2>1, <2>2, <2>3, <2>5, NoTransfers DEF Protected
<1>8. CASE c.op = "delete"
  <2>1. S = {Account, Tx}
    BY <1>8 DEF LastSave
  <2> QED BY <1>2, <2>1, NoTransfers DEF Protected
<1>9. CASE c.op = "drop"
  <2>1. Dooms(c, a.fresh, o, d, S)
    BY <1>9 DEF LastSave, Found
  <2>2. Allocation \notin S
    <3>1. Touching(o, c.src) \subseteq Transfers
      BY DEF Touching
    <3> QED BY <1>2, <2>1, <3>1 DEF Dooms
  <2>3. \A i \in Transfers \intersect S :
          d[i] # Gone /\ Ends(d[i]) \subseteq S /\ Effect(c, p, o)[i] = Gone
    BY <1>9, <2>1, DropGuard
  <2> QED BY <1>10, <2>2, <2>3 DEF Protected
<1> QED BY <1>3, <1>4, <1>5, <1>6, <1>7, <1>8, <1>9 DEF LastSave

LEMMA LastSaveHolds ==
  ASSUME NEW c \in Call, NEW p \in Process, NEW m \in TransferValue, NEW a, NEW d, NEW w,
         NEW K, NEW o, NEW S \in SUBSET Row, LastSave(c, p, m, a, S),
         Holds(c, p, m, a, d, w, K, o), WellFormed(d), d[Earlier] \in {Gone, m},
         NEW b, b = Ready(a.deep), NEW x, x = Written(c, p, o, w, S)
  PROVE  Holds(c, p, m, b, d, x, K \union S, o)
<1>1. a.stage = "work" /\ b.stage = "ready"
  BY DEF LastSave, Open, Ready, At0, L
<1>2. /\ d[p] = Gone /\ Guarded(p, d, w, K)
      /\ Snap(c, p, a.fresh, a.saved, o, d, w, K) /\ Found(c, a, o, d)
  BY <1>1, WorkHolds
<1>3. /\ DOMAIN x = DOMAIN w \union S /\ \A r \in DOMAIN w \ S : x[r] = w[r]
      /\ \A r \in S : x[r] = Effect(c, p, o)[r]
  BY DEF Written
<1>4. Snap(c, p, a.fresh, a.saved \union S, o, d, x, K \union S)
  BY <1>2, SnapSave
<1>5. Guarded(p, d, x, K \union S)
  <2>1. Protected(p, d, K \union S, S, x)
    BY <1>2, LastSaveGuard
  <2> QED BY <1>2, <2>1, GuardedSave
<1>6. Complete(c, p, m, a.fresh, a.saved \union S, o, d)
  <2>1. CASE c.op \in {"transfer", "reverse", "post", "edit"}
    BY <2>1 DEF LastSave, Complete
  <2>2. CASE c.op = "create"
    BY <2>2 DEF LastSave, Complete
  <2>3. CASE c.op = "resolve"
    BY <1>2, <2>3 DEF LastSave, Complete, Found
  <2>4. CASE c.op = "split"
    BY <1>2, <2>4 DEF LastSave, Complete, Found
  <2>5. CASE c.op = "delete"
    BY <1>2, <2>5 DEF LastSave, Complete, Found
  <2>6. CASE c.op = "drop"
    BY <1>2, <2>6 DEF LastSave, Complete, Found
  <2> QED BY <2>1, <2>2, <2>3, <2>4, <2>5, <2>6 DEF LastSave
<1>7. Stage(c, p, m, b, a.fresh, a.saved \union S, o, d, x, o)
  BY <1>1, <1>6 DEF Stage
<1> QED BY <1>1, <1>2, <1>4, <1>5, <1>7 DEF Holds

LEMMA DrainHolds ==
  ASSUME NEW c \in Call, NEW p \in Process, NEW m, NEW a, NEW d, NEW w,
         NEW K, NEW o, NEW S \in SUBSET Row, c.op = "archive", Untouched(a), a.fact = "positive",
         S = {c.src, Unallocated, p}, {c.src, Unallocated} \subseteq a.fresh,
         Holds(c, p, m, a, d, w, K, o),
         NEW b, b = At0("drained", a.deep), NEW x, x = Written(c, p, o, w, S)
  PROVE  Holds(c, p, m, b, d, x, K \union S, o)
<1>1. a.stage = "work" /\ b.stage = "drained" /\ a.saved = {}
  BY DEF Untouched, Open, At0, L
<1>2. /\ d[p] = Gone /\ Guarded(p, d, w, K)
      /\ Snap(c, p, a.fresh, a.saved, o, d, w, K) /\ Found(c, a, o, d)
  BY <1>1, WorkHolds
<1>3. /\ DOMAIN x = DOMAIN w \union S /\ \A r \in DOMAIN w \ S : x[r] = w[r]
      /\ \A r \in S : x[r] = Effect(c, p, o)[r]
  BY DEF Written
<1>4. Snap(c, p, a.fresh, a.saved \union S, o, d, x, K \union S)
  BY <1>2, SnapSave
<1>5. o[c.src] > 0
  BY <1>2 DEF Found
<1>6. c.src \in Budget /\ Unallocated \in Budget
  BY RowsApart DEF Call
<1>7. x[p] = Move(c.src, Unallocated, o[c.src]) /\ Ends(x[p]) = {c.src, Unallocated}
  <2>1. Effect(c, p, o) = AfterMove(o, p, Move(c.src, Unallocated, o[c.src]))
    BY <1>5, ArchiveEffect
  <2>2. x[p] = Move(c.src, Unallocated, o[c.src])
    BY <1>3, <1>6, <2>1, MoveWrites
  <2>3. Ends(Move(c.src, Unallocated, o[c.src])) = {c.src, Unallocated}
    BY <1>6, MoveWrites
  <2> QED BY <2>2, <2>3
<1>8. Allocation \notin S /\ \A i \in Transfers \intersect S : i = p
  BY <1>6, NoTransfers, RowsApart DEF Transfers
<1>9. Guarded(p, d, x, K \union S)
  <2>1. Protected(p, d, K \union S, S, x)
    BY <1>2, <1>7, <1>8 DEF Protected
  <2> QED BY <1>2, <2>1, GuardedSave
<1>10. Stage(c, p, m, b, a.fresh, a.saved \union S, o, d, x, o)
  BY <1>1, <1>5 DEF Stage
<1> QED BY <1>1, <1>2, <1>4, <1>9, <1>10 DEF Holds

\* budget.archive saves the budget again, from the row as it has left it.
LEMMA ArchiveHolds ==
  ASSUME NEW c \in Call, NEW p \in Process, NEW m, NEW a, NEW d, NEW w,
         NEW K, NEW o, NEW S \in SUBSET Row, c.op = "archive", a.stage = "reloaded",
         S = {c.src}, WellFormed(d), Holds(c, p, m, a, d, w, K, o),
         NEW b, b = Ready(a.deep), NEW x, x = Written(c, p, o, w, S)
  PROVE  Holds(c, p, m, b, d, x, K \union S, o)
<1>1. b.stage = "ready"
  BY DEF Ready, At0, L
<1>2. d[p] = Gone /\ Guarded(p, d, w, K)
  BY DEF Holds
<1>3. PICK F, W, v : Snap(c, p, F, W, v, d, w, K) /\ Stage(c, p, m, a, F, W, v, d, w, o)
  BY DEF Holds
<1>4. /\ {c.src, Unallocated} \subseteq F
      /\ W = IF v[c.src] > 0 THEN {c.src, Unallocated, p} ELSE {}
      /\ o[c.src] = IF c.src \in W THEN w[c.src] ELSE d[c.src]
  BY <1>3 DEF Stage
<1>5. /\ DOMAIN x = DOMAIN w \union S /\ \A r \in DOMAIN w \ S : x[r] = w[r]
      /\ \A r \in S : x[r] = Effect(c, p, o)[r]
  BY DEF Written
<1>6. /\ c.src \in Budget /\ c.src \in Row /\ c.src \notin Transfers /\ c.src # Allocation
      /\ p \in Process /\ Unallocated \in Budget
  BY NoTransfers, RowsApart DEF Call
<1>7. v[c.src] \in Int /\ v[c.src] = d[c.src]
  BY <1>3, <1>4, <1>6 DEF Snap, WellFormed
<1>8. \A u : ~(u[c.src] > 0) => Effect(c, p, u)[c.src] = u[c.src]
  BY ArchiveEffect
<1>9. ASSUME NEW u, u[c.src] \in Int, u[c.src] > 0
      PROVE  Effect(c, p, u)[c.src] = IF c.src = Unallocated THEN u[c.src] ELSE 0
  <2>1. PICK n : n = u[c.src]
    OBVIOUS
  <2>2. Effect(c, p, u) = AfterMove(u, p, Move(c.src, Unallocated, n))
    BY <1>9, <2>1, ArchiveEffect
  <2>3. AfterMove(u, p, Move(c.src, Unallocated, n))[c.src] =
          n + ((IF c.src = Unallocated THEN n ELSE 0) - n)
    BY <1>6, <2>1, MoveEffect
  <2> QED BY <1>9, <2>1, <2>2, <2>3
<1>10. x[c.src] = Effect(c, p, v)[c.src]
  <2>1. CASE v[c.src] > 0
    <3>1. o[c.src] = w[c.src] /\ w[c.src] = Effect(c, p, v)[c.src]
      BY <1>3, <1>4, <2>1 DEF Snap
    <3>2. w[c.src] = IF c.src = Unallocated THEN v[c.src] ELSE 0
      BY <1>7, <1>9, <2>1, <3>1
    <3>3. CASE c.src = Unallocated
      BY <1>5, <1>7, <1>9, <2>1, <3>1, <3>2, <3>3
    <3>4. CASE c.src # Unallocated
      <4>1. o[c.src] = 0 /\ ~(o[c.src] > 0)
        BY <3>1, <3>2, <3>4
      <4> QED BY <1>5, <1>8, <3>1, <4>1
    <3> QED BY <3>3, <3>4
  <2>2. CASE ~(v[c.src] > 0)
    BY <1>4, <1>5, <1>7, <1>8, <2>2
  <2> QED BY <2>1, <2>2
<1>11. Snap(c, p, F, W \union S, v, d, x, K \union S)
  <2>1. \A r \in S : Effect(c, p, o)[r] = Effect(c, p, v)[r]
    BY <1>5, <1>10
  <2> QED BY <1>3, <2>1, SnapSave
<1>12. Guarded(p, d, x, K \union S)
  <2>1. Allocation \notin S /\ Transfers \intersect S = {}
    BY <1>6
  <2>2. Protected(p, d, K \union S, S, x)
    BY <2>1 DEF Protected
  <2> QED BY <1>2, <2>2, GuardedSave
<1>13. Complete(c, p, m, F, W \union S, v, d)
  BY <1>4 DEF Complete
<1>14. Stage(c, p, m, b, F, W \union S, v, d, x, o)
  BY <1>1, <1>13 DEF Stage
<1> QED BY <1>1, <1>2, <1>11, <1>12, <1>14 DEF Holds

LEMMA HoldsSave ==
  ASSUME NEW c \in Call, NEW p \in Process, NEW m \in TransferValue, NEW a, a.fact \in Facts,
         NEW d, NEW w, w = [r \in DOMAIN w |-> w[r]],
         NEW K, NEW o, NEW S \in SUBSET Row, NEW b, SavesTo(c, p, m, a, S, b),
         Holds(c, p, m, a, d, w, K, o), WellFormed(d), d[Earlier] \in {Gone, m},
         NEW x, x = Written(c, p, o, w, S)
  PROVE  Holds(c, p, m, b, d, x, K \union S, o)
<1>1. CASE S = {} /\ b = a
  <2>1. x = w /\ K \union S = K
    BY <1>1 DEF Written
  <2> QED BY <1>1, <2>1
<1>2. CASE FirstSave(c, a, S) /\ b = Saves(a, S)
  BY <1>2, FirstSaveHolds
<1>3. CASE LastSave(c, p, m, a, S) /\ b = Ready(a.deep)
  BY <1>3, LastSaveHolds
<1>4. CASE /\ c.op = "archive" /\ Untouched(a) /\ a.fact = "positive"
           /\ S = {c.src, Unallocated, p} /\ {c.src, Unallocated} \subseteq a.fresh
           /\ b = At0("drained", a.deep)
  BY <1>4, DrainHolds
<1>5. CASE c.op = "archive" /\ a.stage = "reloaded" /\ S = {c.src} /\ b = Ready(a.deep)
  BY <1>5, ArchiveHolds
<1> QED BY <1>1, <1>2, <1>3, <1>4, <1>5 DEF SavesTo

\* What a process sees: the committed rows d under its own writes w.
View(d, w) == [r \in Row |-> IF r \in DOMAIN w THEN w[r] ELSE d[r]]

\* Program s takes the call on from here, inside deep transactions, to label b.
Continues(c, p, m, d, w, K, o, deep, s, b) ==
  \E x \in Label : /\ x.deep = deep /\ x.stage # "done"
                   /\ Holds(c, p, m, x, d, w, K, o) /\ Sound(c, p, m, x, s, b)

LEMMA NothingSaved ==
  ASSUME NEW c, NEW p, NEW m, NEW a, NEW d, NEW w, NEW K, NEW o, Holds(c, p, m, a, d, w, K, o),
         a.stage = "work", a.saved = {}, WellFormed(d)
  PROVE  /\ View(d, w) = d /\ DOMAIN w = {} /\ d[p] = Gone /\ Guarded(p, d, w, K) /\ Found(c, a, o, d)
         /\ Snap(c, p, a.fresh, {}, o, d, w, K)
         /\ \A r \in a.fresh : o[r] = d[r] /\ d[r] # Gone
<1>1. /\ d[p] = Gone /\ Guarded(p, d, w, K) /\ Found(c, a, o, d)
      /\ Snap(c, p, a.fresh, {}, o, d, w, K)
  BY WorkHolds
<1>2. DOMAIN w = {} /\ \A r \in a.fresh : o[r] = d[r] /\ d[r] # Gone
  BY <1>1 DEF Snap
<1>3. View(d, w) = [r \in Row |-> d[r]]
  BY <1>2 DEF View
<1>4. View(d, w) = d
  BY <1>3 DEF WellFormed
<1> QED BY <1>1, <1>2, <1>4

LEMMA Relabel ==
  ASSUME NEW c, NEW p, NEW m, NEW a, NEW d, NEW w, NEW K, NEW o, NEW b,
         Holds(c, p, m, a, d, w, K, o), a.stage = "work", b.stage = "work", b.fresh = a.fresh, b.saved = a.saved, Found(c, b, o, d)
  PROVE  Holds(c, p, m, b, d, w, K, o)
BY WorkHolds

LEMMA WorkFields ==
  ASSUME NEW d, NEW F, NEW W, NEW f, NEW g, NEW x, x = Work(d, F, W, f, g)
  PROVE  /\ x.stage = "work" /\ x.deep = d /\ x.fresh = F /\ x.saved = W /\ x.fact = f /\ x.arg = g
BY DEF Work, L

LEMMA UnsavedLabel ==
  ASSUME NEW d \in 0..3, NEW F \in SUBSET Row, NEW f \in Facts,
         NEW g \in Budget \union {Nobody} \union SUBSET Row, NEW x, x = Work(d, F, {}, f, g)
  PROVE  x \in Label
BY WorkLabel

LEMMA AtFields ==
  ASSUME NEW t, NEW d, NEW x, x = At0(t, d)
  PROVE  x.stage = t /\ x.deep = d
BY DEF At0, L

\* The first decisions of a call, that no lock protects.
LEMMA DecideFirst ==
  ASSUME NEW c \in Call, NEW p \in Process, NEW m, NEW a, NEW d, NEW w, NEW K, NEW o,
         Holds(c, p, m, a, d, w, K, o), WellFormed(d), NEW i, NEW b,
         a = Working(a.deep), a.deep \in 0..1, b = After(a.deep), call[p] = c,
         NEW e, e = View(d, w),
         \/ i.do \in {"split", "delete", "drop"} /\ i.do = c.op
         \/ i.do = "recheck" /\ c.op = "drop" /\ i.rows \in SUBSET Budget
  PROVE  Continues(c, p, m, d, w, K, o, a.deep, Chosen(p, i, e), b)
<1>1. a \in Label /\ a.stage = "work" /\ a.saved = {}
  <2>1. PICK n : n = a.deep
    OBVIOUS
  <2>2. n \in 0..3 /\ a = Work(n, {}, {}, "none", Nobody)
    BY <2>1 DEF Working
  <2>3. a.stage = "work" /\ a.saved = {}
    BY <2>2, WorkFields
  <2>4. a \in Label
    BY <2>1, <2>2, PlainLabels
  <2> QED BY <2>3, <2>4
<1>2. e = d
  BY <1>1, NothingSaved
<1>3. Holders(e) \subseteq Budget
  BY <1>2 DEF Holders, WellFormed, AllocationValue
<1>4. Counterparties(e, c.src) \subseteq Budget
  <2>1. \A j \in Touching(d, c.src) : Ends(d[j]) \subseteq Budget
    BY DEF Touching, WellFormed, TransferValue, Ends
  <2> QED BY <1>2, <2>1 DEF Counterparties
<1>5. Sound(c, p, m, Working(a.deep), Chosen(p, i, e), After(a.deep))
  <2>1. CASE i.do = "split" /\ c.op = "split"
    BY <1>3, <2>1, SoundSplit DEF Chosen
  <2>2. CASE i.do = "delete" /\ c.op = "delete"
    BY <1>3, <2>2, SoundDelete DEF Chosen
  <2>3. CASE i.do = "drop" /\ c.op = "drop"
    BY <1>4, <2>3, SoundDrop DEF Chosen
  <2>4. CASE i.do = "recheck" /\ c.op = "drop" /\ i.rows \in SUBSET Budget
    BY <1>4, <2>4, SoundRecheck DEF Chosen
  <2> QED BY <2>1, <2>2, <2>3, <2>4
<1>6. Sound(c, p, m, a, Chosen(p, i, e), b)
  BY <1>5
<1> QED BY <1>1, <1>6 DEF Continues

\* The later ones, from rows that it has locked.
LEMMA DecideReallocate ==
  ASSUME NEW c \in Call, NEW p \in Process, NEW m, NEW a \in Label, NEW d, NEW w, NEW K, NEW o,
         Holds(c, p, m, a, d, w, K, o), WellFormed(d), NEW i, NEW b,
         i.do = "reallocate", c.op = "split", Untouched(a), a.deep < 3,
         a.fact = "checked", {Tx, Allocation, c.dst} \subseteq a.fresh,
         b = Ready(a.deep), call[p] = c,
         NEW e, e = View(d, w)
  PROVE  Continues(c, p, m, d, w, K, o, a.deep, Chosen(p, i, e), b)
<1>1. a.stage = "work" /\ a.saved = {} /\ a.deep \in 1..2 /\ a.fresh \in SUBSET Row
  BY LabelIs DEF Untouched, Open
<1>2. /\ e = d /\ DOMAIN w = {} /\ d[p] = Gone /\ Guarded(p, d, w, K) /\ Found(c, a, o, d)
      /\ Snap(c, p, a.fresh, {}, o, d, w, K)
      /\ \A r \in a.fresh : o[r] = d[r] /\ d[r] # Gone
  BY <1>1, NothingSaved
<1>3. PICK old : old = e[Allocation].budget
  OBVIOUS
<1>4. old \in Budget /\ o[Allocation].budget = old
  BY <1>2, <1>3 DEF WellFormed, AllocationValue
<1>5. ~o[Tx].pending
  BY <1>2 DEF Found
<1>6. Chosen(p, i, e) = Reallocating(e, c.dst)
  BY DEF Chosen
<1>7. CASE old = c.dst
  <2>1. Reallocating(e, c.dst) = <<>>
    BY <1>3, <1>7 DEF Reallocating
  <2>2. b \in Label /\ b.stage = "ready" /\ b.deep = a.deep
    <3>1. b = At0("ready", a.deep) /\ "ready" \in Stages /\ a.deep \in 0..3
      BY <1>1 DEF Ready, Stages
    <3> QED BY <3>1, PlainLabels, AtFields
  <2>3. Complete(c, p, m, a.fresh, {}, o, d)
    BY <1>4, <1>5, <1>7 DEF Complete
  <2>4. Stage(c, p, m, b, a.fresh, {}, o, d, w, o)
    BY <2>2, <2>3 DEF Stage
  <2>5. Holds(c, p, m, b, d, w, K, o)
    BY <1>2, <2>2, <2>4 DEF Holds
  <2>6. Sound(c, p, m, b, <<>>, b)
    BY <2>2, SoundEmpty
  <2> QED BY <1>6, <2>1, <2>2, <2>5, <2>6 DEF Continues
<1>8. CASE old # c.dst
  <2>1. PICK x : x = Work(a.deep, a.fresh, {}, "from", old)
    OBVIOUS
  <2>2. /\ x.stage = "work" /\ x.deep = a.deep /\ x.fresh = a.fresh /\ x.saved = {}
        /\ x.fact = "from" /\ x.arg = old
    BY <2>1, WorkFields
  <2>3. x \in Label
    <3>1. "from" \in Facts /\ old \in Budget \union {Nobody} \union SUBSET Row
      BY <1>1, <1>4, <2>1 DEF Facts
    <3>2. a.deep \in 0..3
      BY <1>1
    <3> QED BY <1>1, <1>4, <2>1, <3>1, <3>2, UnsavedLabel
  <2>4. Found(c, x, o, d)
    BY <1>4, <1>5, <2>2 DEF Found
  <2>5. Holds(c, p, m, x, d, w, K, o)
    BY <1>1, <2>2, <2>4, Relabel
  <2>6. Sound(c, p, m, x, Reallocating(e, c.dst), b)
    BY <1>1, <1>3, <1>4, <1>8, <2>1, SoundReallocate
  <2> QED BY <1>6, <2>2, <2>3, <2>5, <2>6 DEF Continues
<1> QED BY <1>7, <1>8

LEMMA DecideUnallocate ==
  ASSUME NEW c \in Call, NEW p \in Process, NEW m, NEW a \in Label, NEW d, NEW w, NEW K, NEW o,
         Holds(c, p, m, a, d, w, K, o), WellFormed(d), NEW i, NEW b,
         i.do = "unallocate", c.op = "delete", Untouched(a), a.deep < 3,
         {Account, Tx, Allocation} \subseteq a.fresh,
         b = Ready(a.deep), call[p] = c,
         NEW e, e = View(d, w)
  PROVE  Continues(c, p, m, d, w, K, o, a.deep, Chosen(p, i, e), b)
<1>1. a.stage = "work" /\ a.saved = {} /\ a.deep \in 1..2 /\ a.fresh \in SUBSET Row
  BY LabelIs DEF Untouched, Open
<1>2. e = d /\ \A r \in a.fresh : o[r] = d[r] /\ d[r] # Gone
  BY <1>1, NothingSaved
<1>3. PICK old : old = e[Allocation].budget
  OBVIOUS
<1>4. old \in Budget /\ o[Allocation].budget = old
  BY <1>2, <1>3 DEF WellFormed, AllocationValue
<1>5. PICK x : x = Work(a.deep, a.fresh, {}, "from", old)
  OBVIOUS
<1>6. /\ x.stage = "work" /\ x.deep = a.deep /\ x.fresh = a.fresh /\ x.saved = {}
      /\ x.fact = "from" /\ x.arg = old
  BY <1>5, WorkFields
<1>7. x \in Label
  <2>1. "from" \in Facts /\ old \in Budget \union {Nobody} \union SUBSET Row
    BY <1>1, <1>4, <1>5 DEF Facts
  <2>2. a.deep \in 0..3
    BY <1>1
  <2> QED BY <1>1, <1>4, <1>5, <2>1, <2>2, UnsavedLabel
<1>8. Found(c, x, o, d)
  BY <1>4, <1>6 DEF Found
<1>9. Holds(c, p, m, x, d, w, K, o)
  BY <1>1, <1>6, <1>8, Relabel
<1>10. Sound(c, p, m, x, Unallocating(e, {Account, Tx}), b)
  BY <1>1, <1>3, <1>4, <1>5, SoundUnallocate
<1>11. Chosen(p, i, e) = Unallocating(e, {Account, Tx})
  BY DEF Chosen
<1> QED BY <1>6, <1>7, <1>9, <1>10, <1>11 DEF Continues

LEMMA DecideDrain ==
  ASSUME NEW c \in Call, NEW p \in Process, NEW m, NEW a \in Label, NEW d, NEW w, NEW K, NEW o,
         Holds(c, p, m, a, d, w, K, o), WellFormed(d), NEW i, NEW b,
         i.do = "drain", c.op = "archive", Untouched(a), a.deep < 3,
         {c.src, Unallocated} \subseteq a.fresh,
         b = At0("drained", a.deep), call[p] = c,
         NEW e, e = View(d, w)
  PROVE  Continues(c, p, m, d, w, K, o, a.deep, Chosen(p, i, e), b)
<1>1. a.stage = "work" /\ a.saved = {} /\ a.deep \in 1..2 /\ a.fresh \in SUBSET Row
  BY LabelIs DEF Untouched, Open
<1>2. /\ e = d /\ DOMAIN w = {} /\ d[p] = Gone /\ Guarded(p, d, w, K)
      /\ Snap(c, p, a.fresh, {}, o, d, w, K)
      /\ \A r \in a.fresh : o[r] = d[r] /\ d[r] # Gone
  BY <1>1, NothingSaved
<1>3. o[c.src] = e[c.src]
  BY <1>2
<1>4. Chosen(p, i, e) = Draining(e, p, c.src)
  BY DEF Chosen
<1>5. CASE e[c.src] > 0
  <2>1. PICK x : x = Work(a.deep, a.fresh, {}, "positive", Nobody)
    OBVIOUS
  <2>2. /\ x.stage = "work" /\ x.deep = a.deep /\ x.fresh = a.fresh /\ x.saved = {}
        /\ x.fact = "positive"
    BY <2>1, WorkFields
  <2>3. x \in Label
    <3>1. "positive" \in Facts /\ Nobody \in Budget \union {Nobody} \union SUBSET Row
      BY <1>1, <2>1 DEF Facts
    <3>2. a.deep \in 0..3
      BY <1>1
    <3> QED BY <1>1, <2>1, <3>1, <3>2, UnsavedLabel
  <2>4. Found(c, x, o, d)
    BY <1>3, <1>5, <2>2 DEF Found
  <2>5. Holds(c, p, m, x, d, w, K, o)
    BY <1>1, <2>2, <2>4, Relabel
  <2>6. Sound(c, p, m, x, Transferring(p, c.src, Unallocated), b)
    BY <1>1, <2>1, SoundDrain
  <2>7. Draining(e, p, c.src) = Transferring(p, c.src, Unallocated)
    BY <1>5 DEF Draining
  <2> QED BY <1>4, <2>2, <2>3, <2>5, <2>6, <2>7 DEF Continues
<1>6. CASE ~(e[c.src] > 0)
  <2>1. Draining(e, p, c.src) = <<>>
    BY <1>6 DEF Draining
  <2>2. b \in Label /\ b.stage = "drained" /\ b.deep = a.deep
    <3>1. "drained" \in Stages /\ a.deep \in 0..3
      BY <1>1 DEF Stages
    <3> QED BY <3>1, PlainLabels, AtFields
  <2>3. Stage(c, p, m, b, a.fresh, {}, o, d, w, o)
    BY <1>3, <1>6, <2>2 DEF Stage
  <2>4. Holds(c, p, m, b, d, w, K, o)
    BY <1>2, <2>2, <2>3 DEF Holds
  <2>5. Sound(c, p, m, b, <<>>, b)
    BY <2>2, SoundEmpty
  <2> QED BY <1>4, <2>1, <2>2, <2>4, <2>5 DEF Continues
<1> QED BY <1>5, <1>6

\* budget.delete has locked the budgets that it saves.
LEMMA ExpectSaves ==
  ASSUME NEW c \in Call, NEW p \in Process, NEW m, NEW a \in Label, NEW d, NEW w, NEW K, NEW o,
         Holds(c, p, m, a, d, w, K, o), WellFormed(d), NEW i, NEW b,
         c.op = "drop", Untouched(a), a.fact = "checked",
         i.rows \in SUBSET Budget, i.rows \union {c.src, Unallocated} \subseteq a.fresh,
         b = Ready(a.deep), Counterparties(o, c.src) \subseteq i.rows \union {Unallocated},
         NEW S, S = {c.src, Unallocated} \union i.rows \union Touching(o, c.src)
  PROVE  Continues(c, p, m, d, w, K, o, a.deep, Save(S), b)
<1>1. a.stage = "work" /\ a.saved = {} /\ a.deep \in 1..3 /\ a.fresh \in SUBSET Row
  BY LabelIs DEF Untouched, Open
<1>2. /\ d[p] = Gone /\ Guarded(p, d, w, K)
      /\ Snap(c, p, a.fresh, a.saved, o, d, w, K) /\ Found(c, a, o, d)
  BY <1>1, WorkHolds
<1>3. S \in SUBSET Row
  BY RowsApart DEF Touching, Row, Call
<1>4. PICK x : x = Work(a.deep, a.fresh, {}, "saves", S)
  OBVIOUS
<1>5. /\ x.stage = "work" /\ x.deep = a.deep /\ x.fresh = a.fresh /\ x.saved = {}
      /\ x.fact = "saves" /\ x.arg = S
  BY <1>4, WorkFields
<1>6. x \in Label
  <2>1. "saves" \in Facts /\ S \in Budget \union {Nobody} \union SUBSET Row
    BY <1>1, <1>3, <1>4 DEF Facts
  <2>2. a.deep \in 0..3
    BY <1>1
  <2> QED BY <1>1, <1>3, <1>4, <2>1, <2>2, UnsavedLabel
<1>7. Dooms(c, a.fresh, o, d, S)
  <2>1. SameMoves(o, d, c.src) /\ Off(d, c.src)
    BY <1>2 DEF Found
  <2> QED BY <2>1 DEF Dooms
<1>8. Found(c, x, o, d)
  BY <1>5, <1>7 DEF Found
<1>9. Holds(c, p, m, x, d, w, K, o)
  BY <1>1, <1>5, <1>8, Relabel
<1>10. SavesTo(c, p, m, x, S, b)
  <2>1. LastSave(c, p, m, x, S)
    BY <1>1, <1>5 DEF LastSave, Open
  <2> QED BY <1>5, <2>1 DEF SavesTo
<1>11. b \in Label
  BY <1>1, PlainLabels
<1>12. Sound(c, p, m, x, Save(S), b)
  BY <1>3, <1>6, <1>10, <1>11, SoundSave
<1> QED BY <1>5, <1>6, <1>9, <1>12 DEF Continues

-----------------------------------------------------------------------------
(* What a call commits is its effect on the rows as they are.              *)

\* Acting on v, with the rows W written, is acting on d.
Agrees(c, p, m, W, v, d) ==
  /\ Legal(c, d)
  /\ \A r \in W : Effect(c, p, v)[r] = Effect(c, p, d)[r]
  /\ \A r \in Row \ W : Effect(c, p, d)[r] = d[r]
  /\ Effect(c, p, d) = [r \in Row |-> Effect(c, p, d)[r]]
  /\ WellFormed(Effect(c, p, d)) /\ Effect(c, p, d)[Earlier] \in {Gone, m}

\* v and d have the same values in the rows F, that exist.
Fresh(F, v, d) ==
  /\ v = [r \in Row |-> v[r]] /\ F \subseteq Row
  /\ \A r \in F : v[r] = d[r] /\ d[r] # Gone

LEMMA WellFormedRows ==
  ASSUME NEW d, WellFormed(d)
  PROVE  /\ d = [r \in Row |-> d[r]] /\ d[Account] \in Int
         /\ \A b \in Budget : d[b] # Gone => d[b] \in Int
         /\ d[Tx] # Gone => d[Tx] \in TxValue
         /\ d[Tx] # Gone <=> d[Allocation] # Gone
         /\ d[Allocation] # Gone => d[Allocation] \in AllocationValue
         /\ \A i \in Transfers : d[i] # Gone => d[i] \in TransferValue
BY DEF WellFormed

\* Where e differs from a well-formed d it has values of the right kind.
LEMMA StaysWellFormed ==
  ASSUME NEW d, NEW e, WellFormed(d), e = [r \in Row |-> e[r]],
         e[Account] \in Int, \A b \in Budget : e[b] = d[b] \/ e[b] \in Int \union {Gone},
         e[Tx] \in TxValue \union {Gone}, e[Allocation] \in AllocationValue \union {Gone},
         e[Tx] = Gone <=> e[Allocation] = Gone,
         \A i \in Transfers : e[i] = d[i] \/ e[i] \in TransferValue \union {Gone}
  PROVE  WellFormed(e)
BY DEF WellFormed

LEMMA RowKinds ==
  /\ Account \in Row /\ Tx \in Row /\ Allocation \in Row /\ Earlier \in Row
  /\ Account # Tx /\ Account # Allocation /\ Tx # Allocation
  /\ \A b \in Budget : b \in Row /\ b \notin {Account, Tx, Allocation} /\ b \notin Transfers
  /\ \A i \in Transfers : i \in Row /\ i \notin {Account, Tx, Allocation} /\ i \notin Budget
  /\ Earlier \in Transfers /\ Earlier \notin Process /\ Process \subseteq Transfers
  /\ Unallocated \in Budget
BY RowsApart DEF Row, Transfers

LEMMA CommitMove ==
  ASSUME NEW c \in Call, NEW p \in Process, NEW m, NEW v, NEW d, NEW s \in Budget, NEW t \in Budget,
         NEW n \in Int, WellFormed(d), Fresh({s, t}, v, d), d[p] = Gone, d[Earlier] \in {Gone, m},
         Legal(c, d), Effect(c, p, v) = AfterMove(v, p, Move(s, t, n)),
         Effect(c, p, d) = AfterMove(d, p, Move(s, t, n))
  PROVE  Agrees(c, p, m, {s, t, p}, v, d)
<1> DEFINE e == AfterMove(d, p, Move(s, t, n))
<1> DEFINE k(r) == (IF r = t THEN n ELSE 0) - (IF r = s THEN n ELSE 0)
<1>1. \A r : k(r) \in Int
  OBVIOUS
<1>2. /\ e = [r \in Row |-> e[r]]
      /\ \A r \in Row : e[r] = IF r \in {s, t} THEN d[r] + k(r)
                               ELSE IF r = p THEN Move(s, t, n) ELSE d[r]
  BY MoveEffect
<1>3. \A r \in Row : AfterMove(v, p, Move(s, t, n))[r] =
        IF r \in {s, t} THEN v[r] + k(r) ELSE IF r = p THEN Move(s, t, n) ELSE v[r]
  BY MoveEffect
<1> HIDE DEF e, k
<1>4. /\ p \in Row /\ s \in Row /\ t \in Row /\ p \notin {s, t}
      /\ d[s] \in Int /\ d[t] \in Int /\ v[s] = d[s] /\ v[t] = d[t]
      /\ Move(s, t, n) \in TransferValue
  BY RowKinds, WellFormedRows DEF Fresh, Move, TransferValue
<1>5. \A r \in {s, t, p} : AfterMove(v, p, Move(s, t, n))[r] = e[r]
  BY <1>2, <1>3, <1>4
<1>6. \A r \in Row \ {s, t, p} : e[r] = d[r]
  BY <1>2
<1>7. \A b \in Budget : e[b] = d[b] \/ e[b] \in Int \union {Gone}
  BY <1>1, <1>2, <1>4, RowKinds
<1>8. \A i \in Transfers : e[i] = d[i] \/ e[i] \in TransferValue \union {Gone}
  BY <1>2, <1>4, RowKinds
<1>9. e[Account] = d[Account] /\ e[Tx] = d[Tx] /\ e[Allocation] = d[Allocation] /\ e[Earlier] = d[Earlier]
  BY <1>6, RowKinds
<1>10. WellFormed(e)
  <2>1. /\ e[Account] \in Int /\ e[Tx] \in TxValue \union {Gone}
        /\ e[Allocation] \in AllocationValue \union {Gone} /\ (e[Tx] = Gone <=> e[Allocation] = Gone)
    BY <1>9 DEF WellFormed
  <2> QED BY <1>2, <1>7, <1>8, <2>1, StaysWellFormed
<1>11. Effect(c, p, d) = e
  BY DEF e
<1> QED BY <1>2, <1>5, <1>6, <1>9, <1>10, <1>11 DEF Agrees

LEMMA CommitReverse ==
  ASSUME NEW c \in Call, NEW p \in Process, NEW m \in TransferValue, NEW v, NEW d,
         WellFormed(d), Fresh(Ends(m) \union {Earlier}, v, d), d[Earlier] \in {Gone, m},
         c.op = "reverse"
  PROVE  Agrees(c, p, m, Ends(m) \union {Earlier}, v, d)
<1>1. d[Earlier] = m /\ v[Earlier] = m /\ d[Earlier] # Gone
  BY DEF Fresh
<1>2. /\ m.src \in Budget /\ m.dst \in Budget /\ Ends(m) = {m.src, m.dst} /\ Ends(m) \subseteq Budget
      /\ \A r : Gain(m, r) \in Int
  BY DEF TransferValue, Ends, Gain
<1>3. PICK e : e = Effect(c, p, d)
  OBVIOUS
<1>4. /\ e = [r \in Row |-> e[r]]
      /\ \A r \in Row : e[r] =
           IF r = Earlier THEN Gone ELSE IF r \in Ends(m) THEN d[r] - Gain(m, r) ELSE d[r]
  BY <1>1, <1>3, ReverseEffect
<1>5. \A r \in Row : Effect(c, p, v)[r] =
        IF r = Earlier THEN Gone ELSE IF r \in Ends(m) THEN v[r] - Gain(m, r) ELSE v[r]
  BY <1>1, ReverseEffect
<1>6. \A r \in Ends(m) : r \in Row /\ r # Earlier /\ v[r] = d[r] /\ d[r] \in Int
  BY <1>2, RowKinds, WellFormedRows DEF Fresh
<1>7. \A r \in Ends(m) \union {Earlier} : Effect(c, p, v)[r] = e[r]
  BY <1>4, <1>5, <1>6, RowKinds
<1>8. \A r \in Row \ (Ends(m) \union {Earlier}) : e[r] = d[r]
  BY <1>4
<1>9. \A b \in Budget : e[b] = d[b] \/ e[b] \in Int \union {Gone}
  BY <1>2, <1>4, <1>6, RowKinds
<1>10. \A i \in Transfers : e[i] = d[i] \/ e[i] \in TransferValue \union {Gone}
  BY <1>2, <1>4, RowKinds
<1>11. e[Account] = d[Account] /\ e[Tx] = d[Tx] /\ e[Allocation] = d[Allocation] /\ e[Earlier] = Gone
  BY <1>2, <1>4, RowKinds
<1>12. WellFormed(e)
  <2>1. /\ e[Account] \in Int /\ e[Tx] \in TxValue \union {Gone}
        /\ e[Allocation] \in AllocationValue \union {Gone} /\ (e[Tx] = Gone <=> e[Allocation] = Gone)
    BY <1>11 DEF WellFormed
  <2> QED BY <1>4, <1>9, <1>10, <2>1, StaysWellFormed
<1>13. Legal(c, d)
  BY <1>1 DEF Legal
<1> QED BY <1>3, <1>4, <1>7, <1>8, <1>11, <1>12, <1>13 DEF Agrees

LEMMA CommitCreate ==
  ASSUME NEW c \in Call, NEW p \in Process, NEW m, NEW v, NEW d,
         WellFormed(d), Fresh({Account, Unallocated}, v, d), d[Earlier] \in {Gone, m},
         c.op = "create"
  PROVE  Agrees(c, p, m, {Account, Unallocated}, v, d)
<1>1. PICK e : e = Effect(c, p, d)
  OBVIOUS
<1>2. d = [r \in Row |-> d[r]] /\ v = [r \in Row |-> v[r]]
  BY WellFormedRows DEF Fresh
<1>3. /\ e = [r \in Row |-> e[r]]
      /\ \A r \in Row : e[r] = IF r \in {Account, Unallocated} THEN d[r] + 1 ELSE d[r]
  BY <1>1, <1>2, CreateEffect
<1>4. \A r \in Row : Effect(c, p, v)[r] = IF r \in {Account, Unallocated} THEN v[r] + 1 ELSE v[r]
  BY <1>2, CreateEffect
<1>5. \A r \in {Account, Unallocated} : r \in Row /\ v[r] = d[r] /\ d[r] \in Int
  BY RowKinds, WellFormedRows DEF Fresh
<1>6. \A r \in {Account, Unallocated} : Effect(c, p, v)[r] = e[r]
  BY <1>3, <1>4, <1>5
<1>7. \A b \in Budget : e[b] = d[b] \/ e[b] \in Int \union {Gone}
  BY <1>3, <1>5, RowKinds
<1>8. \A i \in Transfers : e[i] = d[i]
  BY <1>3, RowKinds
<1>9. e[Account] \in Int /\ e[Tx] = d[Tx] /\ e[Allocation] = d[Allocation] /\ e[Earlier] = d[Earlier]
  BY <1>3, <1>5, RowKinds
<1>10. WellFormed(e)
  <2>1. /\ e[Tx] \in TxValue \union {Gone}
        /\ e[Allocation] \in AllocationValue \union {Gone} /\ (e[Tx] = Gone <=> e[Allocation] = Gone)
    BY <1>9 DEF WellFormed
  <2> QED BY <1>3, <1>7, <1>8, <1>9, <2>1, StaysWellFormed
<1>11. Legal(c, d)
  BY DEF Legal
<1> QED BY <1>1, <1>3, <1>6, <1>9, <1>10, <1>11 DEF Agrees

LEMMA NewValues ==
  /\ \A n \in Int : Posted(n) \in TxValue /\ Posted(n) # Gone
  /\ \A n \in Int, b \in Budget : Allotted(b, n) \in AllocationValue /\ Allotted(b, n) # Gone
<1>1. ASSUME NEW n \in Int PROVE Posted(n) \in TxValue
  BY DEF TxValue, Posted
<1>2. ASSUME NEW n \in Int, NEW b \in Budget PROVE Allotted(b, n) \in AllocationValue
  BY DEF AllocationValue, Allotted
<1> QED BY <1>1, <1>2, GoneAssumption

LEMMA CommitPost ==
  ASSUME NEW c \in Call, NEW p \in Process, NEW m, NEW v, NEW d,
         WellFormed(d), Fresh({Account, Tx}, v, d), d[Earlier] \in {Gone, m},
         c.op = "post"
  PROVE  Agrees(c, p, m, {Account, Tx}, v, d)
<1>1. PICK e : e = Effect(c, p, d)
  OBVIOUS
<1>2. d = [r \in Row |-> d[r]] /\ v = [r \in Row |-> v[r]]
  BY WellFormedRows DEF Fresh
<1>3. /\ d[Tx] # Gone /\ v[Tx] = d[Tx] /\ d[Tx] \in TxValue /\ v[Account] = d[Account]
      /\ d[Account] \in Int /\ d[Tx].amount \in Int /\ d[Allocation] # Gone
  BY WellFormedRows DEF Fresh, TxValue
<1>4. /\ e = [r \in Row |-> e[r]]
      /\ e[Account] = IF d[Tx].pending THEN d[Account] + d[Tx].amount ELSE d[Account]
      /\ e[Tx] = Posted(d[Tx].amount)
      /\ \A r \in Row \ {Account, Tx} : e[r] = d[r]
  BY <1>1, <1>2, <1>3, PostEffect
<1>5. /\ Effect(c, p, v)[Account] = IF v[Tx].pending THEN v[Account] + v[Tx].amount ELSE v[Account]
      /\ Effect(c, p, v)[Tx] = Posted(v[Tx].amount)
  BY <1>2, <1>3, PostEffect
<1>6. \A r \in {Account, Tx} : Effect(c, p, v)[r] = e[r]
  BY <1>3, <1>4, <1>5
<1>7. /\ \A b \in Budget : e[b] = d[b]
      /\ \A i \in Transfers : e[i] = d[i]
      /\ e[Allocation] = d[Allocation] /\ e[Earlier] = d[Earlier]
  BY <1>4, RowKinds
<1>8. e[Account] \in Int
  BY <1>3, <1>4
<1>9. e[Tx] \in TxValue
  BY <1>3, <1>4, NewValues
<1>10. e[Tx] # Gone
  BY <1>9, GoneAssumption
<1>11. WellFormed(e)
  <2>1. e[Allocation] \in AllocationValue \union {Gone} /\ (e[Tx] = Gone <=> e[Allocation] = Gone)
    BY <1>3, <1>7, <1>10, WellFormedRows
  <2> QED BY <1>4, <1>7, <1>8, <1>9, <2>1, StaysWellFormed
<1>12. Legal(c, d)
  BY <1>3 DEF Legal
<1> QED BY <1>1, <1>4, <1>6, <1>7, <1>11, <1>12 DEF Agrees

LEMMA CommitResolve ==
  ASSUME NEW c \in Call, NEW p \in Process, NEW m, NEW v, NEW d, WellFormed(d),
         Fresh({Account, Tx, Unallocated, Allocation}, v, d), d[Earlier] \in {Gone, m},
         c.op = "resolve", v[Tx].pending
  PROVE  Agrees(c, p, m, {Account, Tx, Unallocated, Allocation}, v, d)
<1>1. PICK e : e = Effect(c, p, d)
  OBVIOUS
<1>2. d = [r \in Row |-> d[r]] /\ v = [r \in Row |-> v[r]]
  BY WellFormedRows DEF Fresh
<1>3. \A r \in {Account, Tx, Unallocated, Allocation} : v[r] = d[r] /\ d[r] # Gone
  BY DEF Fresh
<1>4. /\ d[Tx] \in TxValue /\ d[Account] \in Int /\ d[Allocation] \in AllocationValue
      /\ d[Unallocated] \in Int
  BY <1>3, WellFormedRows, RowKinds
<1>5. /\ e = [r \in Row |-> e[r]]
      /\ e[Account] = d[Account] + 2
      /\ e[Tx] = Posted(2)
      /\ e[Unallocated] = d[Unallocated] - d[Allocation].amount + 2
      /\ e[Allocation] = Allotted(d[Allocation].budget, 2)
      /\ \A r \in Row \ {Account, Tx, Unallocated, Allocation} : e[r] = d[r]
  BY <1>1, <1>2, <1>4, ResolveEffect
<1>6. /\ Effect(c, p, v)[Account] = v[Account] + 2
      /\ Effect(c, p, v)[Tx] = Posted(2)
      /\ Effect(c, p, v)[Unallocated] = v[Unallocated] - v[Allocation].amount + 2
      /\ Effect(c, p, v)[Allocation] = Allotted(v[Allocation].budget, 2)
  <2>1. v[Allocation] \in AllocationValue
    BY <1>3, <1>4
  <2> QED BY <1>2, <2>1, ResolveEffect
<1>7. \A r \in {Account, Tx, Unallocated, Allocation} : Effect(c, p, v)[r] = e[r]
  BY <1>3, <1>5, <1>6
<1>8. d[Allocation].amount \in Int /\ d[Allocation].budget \in Budget
  BY <1>4 DEF AllocationValue
<1>9. e[Account] \in Int /\ e[Unallocated] \in Int
  BY <1>4, <1>5, <1>8
<1>10. e[Tx] \in TxValue /\ e[Allocation] \in AllocationValue
  BY <1>5, <1>8, NewValues, 2 \in Int
<1>11. e[Tx] # Gone /\ e[Allocation] # Gone
  BY <1>10, GoneAssumption
<1>12. /\ \A b \in Budget : e[b] = d[b] \/ e[b] \in Int \union {Gone}
       /\ \A i \in Transfers : e[i] = d[i]
       /\ e[Earlier] = d[Earlier]
  BY <1>5, <1>9, RowKinds
<1>13. WellFormed(e)
  BY <1>5, <1>9, <1>10, <1>11, <1>12, StaysWellFormed
<1>14. Legal(c, d)
  BY <1>3 DEF Legal
<1> QED BY <1>1, <1>5, <1>7, <1>12, <1>13, <1>14 DEF Agrees

\* A split to the budget that has the money already changes nothing.
LEMMA CommitSplit ==
  ASSUME NEW c \in Call, NEW p \in Process, NEW m, NEW v, NEW d, NEW old, WellFormed(d),
         Fresh({Tx, Allocation, c.dst, old}, v, d), d[Earlier] \in {Gone, m},
         c.op = "split", old = v[Allocation].budget, ~v[Tx].pending
  PROVE  Agrees(c, p, m, IF old = c.dst THEN {} ELSE {c.dst, old, Allocation}, v, d)
<1>1. PICK e : e = Effect(c, p, d)
  OBVIOUS
<1>2. d = [r \in Row |-> d[r]] /\ v = [r \in Row |-> v[r]]
  BY WellFormedRows DEF Fresh
<1>3. \A r \in {Tx, Allocation, c.dst, old} : v[r] = d[r] /\ d[r] # Gone
  BY DEF Fresh
<1>4. d[Allocation] \in AllocationValue /\ v[Allocation] \in AllocationValue
  BY <1>3, WellFormedRows
<1>5. PICK n : n = d[Allocation].amount
  OBVIOUS
<1>6. /\ n \in Int /\ old \in Budget /\ c.dst \in Budget
      /\ d[Allocation].budget = old /\ v[Allocation].amount = n
  BY <1>3, <1>4, <1>5 DEF AllocationValue, Call
<1>7. d[c.dst] \in Int /\ d[old] \in Int
  BY <1>3, <1>6, WellFormedRows
<1>8. /\ e = [r \in Row |-> e[r]]
      /\ e[Allocation] = Allotted(c.dst, n)
      /\ old = c.dst => e[c.dst] = d[c.dst] + (n - n)
      /\ old # c.dst => /\ e[c.dst] = d[c.dst] + n
                        /\ e[old] = d[old] + (0 - n)
      /\ \A r \in Row \ {Allocation, old, c.dst} : e[r] = d[r]
  BY <1>1, <1>4, <1>5, <1>6, SplitEffect
<1>9. /\ Effect(c, p, v)[Allocation] = Allotted(c.dst, n)
      /\ old # c.dst => /\ Effect(c, p, v)[c.dst] = v[c.dst] + n
                        /\ Effect(c, p, v)[old] = v[old] + (0 - n)
  BY <1>4, <1>6, SplitEffect
<1>10. e[Allocation] \in AllocationValue /\ e[Allocation] # Gone
  <2>1. e[Allocation] \in AllocationValue
    BY <1>6, <1>8 DEF AllocationValue, Allotted
  <2> QED BY <2>1, GoneAssumption
<1>11. e[c.dst] \in Int /\ e[old] \in Int
  <2>1. CASE old = c.dst
    BY <1>6, <1>7, <1>8, <2>1
  <2>2. CASE old # c.dst
    BY <1>6, <1>7, <1>8, <2>2
  <2> QED BY <2>1, <2>2
<1>12. /\ \A b \in Budget : e[b] = d[b] \/ e[b] \in Int \union {Gone}
       /\ \A i \in Transfers : e[i] = d[i]
       /\ e[Earlier] = d[Earlier] /\ e[Account] = d[Account] /\ e[Tx] = d[Tx]
  BY <1>6, <1>8, <1>11, RowKinds
<1>13. WellFormed(e)
  <2>1. e[Account] \in Int /\ e[Tx] \in TxValue \union {Gone} /\ e[Tx] # Gone
    BY <1>3, <1>12, WellFormedRows
  <2> QED BY <1>8, <1>10, <1>12, <2>1, StaysWellFormed
<1>14. Legal(c, d)
  BY <1>3 DEF Legal
<1>15. CASE old # c.dst
  <2>1. \A r \in {c.dst, old, Allocation} : Effect(c, p, v)[r] = e[r]
    BY <1>3, <1>8, <1>9, <1>15
  <2>2. \A r \in Row \ {c.dst, old, Allocation} : e[r] = d[r]
    BY <1>8
  <2> QED BY <1>1, <1>8, <1>12, <1>13, <1>14, <1>15, <2>1, <2>2 DEF Agrees
<1>16. CASE old = c.dst
  <2>1. e[c.dst] = d[c.dst]
    <3>1. n - n = 0 /\ d[c.dst] + 0 = d[c.dst]
      BY <1>6, <1>7
    <3> QED BY <1>8, <1>16, <3>1
  <2>2. e[Allocation] = d[Allocation]
    <3>1. d[Allocation] = Allotted(old, n)
      BY <1>4, <1>5, <1>6 DEF AllocationValue, Allotted
    <3> QED BY <1>8, <1>16, <3>1
  <2>3. \A r \in Row : e[r] = d[r]
    BY <1>8, <1>16, <2>1, <2>2
  <2> QED BY <1>1, <1>8, <1>12, <1>13, <1>14, <1>16, <2>3 DEF Agrees
<1> QED BY <1>15, <1>16

LEMMA CommitDelete ==
  ASSUME NEW c \in Call, NEW p \in Process, NEW m, NEW v, NEW d, NEW old, WellFormed(d),
         Fresh({Account, Tx, Allocation, old}, v, d), d[Earlier] \in {Gone, m},
         c.op = "delete", old = v[Allocation].budget
  PROVE  Agrees(c, p, m, {Account, Tx, Allocation, old}, v, d)
<1>1. PICK e : e = Effect(c, p, d)
  OBVIOUS
<1>2. d = [r \in Row |-> d[r]] /\ v = [r \in Row |-> v[r]]
  BY WellFormedRows DEF Fresh
<1>3. \A r \in {Account, Tx, Allocation, old} : v[r] = d[r] /\ d[r] # Gone
  BY DEF Fresh
<1>4. d[Allocation] \in AllocationValue /\ d[Tx] \in TxValue /\ d[Account] \in Int
  BY <1>3, WellFormedRows
<1>5. /\ old \in Budget /\ old = d[Allocation].budget /\ d[Allocation].amount \in Int
      /\ d[Tx].amount \in Int
  BY <1>3, <1>4 DEF AllocationValue, TxValue
<1>6. d[old] \in Int
  BY <1>3, <1>5, WellFormedRows
<1>7. /\ e = [r \in Row |-> e[r]]
      /\ e[Tx] = Gone /\ e[Allocation] = Gone
      /\ e[Account] = IF d[Tx].pending THEN d[Account] ELSE d[Account] - d[Tx].amount
      /\ e[old] = d[old] - d[Allocation].amount
      /\ \A r \in Row \ {Tx, Allocation, Account, old} : e[r] = d[r]
  BY <1>1, <1>2, <1>5, DeleteEffect
<1>8. /\ Effect(c, p, v)[Tx] = Gone /\ Effect(c, p, v)[Allocation] = Gone
      /\ Effect(c, p, v)[Account] = IF v[Tx].pending THEN v[Account] ELSE v[Account] - v[Tx].amount
      /\ Effect(c, p, v)[old] = v[old] - v[Allocation].amount
  BY <1>2, <1>5, DeleteEffect
<1>9. \A r \in {Account, Tx, Allocation, old} : Effect(c, p, v)[r] = e[r]
  BY <1>3, <1>7, <1>8
<1>10. \A r \in Row \ {Account, Tx, Allocation, old} : e[r] = d[r]
  BY <1>7
<1>11. e[Account] \in Int /\ e[old] \in Int
  BY <1>4, <1>5, <1>6, <1>7
<1>12. /\ \A b \in Budget : e[b] = d[b] \/ e[b] \in Int \union {Gone}
       /\ \A i \in Transfers : e[i] = d[i]
       /\ e[Earlier] = d[Earlier]
  BY <1>5, <1>7, <1>11, RowKinds
<1>13. WellFormed(e)
  BY <1>7, <1>11, <1>12, StaysWellFormed
<1>14. Legal(c, d)
  BY <1>3 DEF Legal
<1> QED BY <1>1, <1>7, <1>9, <1>10, <1>12, <1>13, <1>14 DEF Agrees

LEMMA CommitEdit ==
  ASSUME NEW c \in Call, NEW p \in Process, NEW m, NEW v, NEW d, WellFormed(d),
         Fresh({c.src}, v, d), d[Earlier] \in {Gone, m}, c.op = "edit"
  PROVE  Agrees(c, p, m, {c.src}, v, d)
<1>1. Effect(c, p, d) = d /\ Effect(c, p, v) = v
  BY EditEffect
<1>2. d = [r \in Row |-> d[r]] /\ v[c.src] = d[c.src] /\ d[c.src] # Gone
  BY WellFormedRows DEF Fresh
<1>3. Legal(c, d)
  BY <1>2 DEF Legal
<1> QED BY <1>1, <1>2, <1>3 DEF Agrees

\* Archiving a budget that has nothing changes no balance.
LEMMA CommitArchive ==
  ASSUME NEW c \in Call, NEW p \in Process, NEW m, NEW W, NEW v, NEW d, WellFormed(d), d[p] = Gone,
         Fresh({c.src, Unallocated}, v, d), d[Earlier] \in {Gone, m}, c.op = "archive",
         IF v[c.src] > 0 THEN W = {c.src, Unallocated, p} ELSE W \subseteq {c.src}
  PROVE  Agrees(c, p, m, W, v, d)
<1>1. /\ v[c.src] = d[c.src] /\ d[c.src] # Gone /\ c.src \in Budget /\ c.src \in Row
      /\ d = [r \in Row |-> d[r]]
  BY WellFormedRows, RowKinds DEF Fresh, Call
<1>2. d[c.src] \in Int
  BY <1>1, WellFormedRows
<1>3. Legal(c, d)
  BY <1>1 DEF Legal
<1>4. CASE v[c.src] > 0
  <2>1. /\ Effect(c, p, v) = AfterMove(v, p, Move(c.src, Unallocated, d[c.src]))
        /\ Effect(c, p, d) = AfterMove(d, p, Move(c.src, Unallocated, d[c.src]))
    BY <1>1, <1>4, ArchiveEffect
  <2> QED BY <1>1, <1>2, <1>3, <1>4, <2>1, CommitMove, RowKinds
<1>5. CASE ~(v[c.src] > 0)
  <2>1. Effect(c, p, d) = d /\ Effect(c, p, v) = v
    BY <1>1, <1>5, ArchiveEffect
  <2>2. W \subseteq {c.src}
    BY <1>5
  <2> QED BY <1>1, <1>3, <2>1, <2>2 DEF Agrees
<1> QED BY <1>4, <1>5

\* What the transfers of budget b add to budget x.
Given(v, b, x) == SumFunction([i \in Touching(v, b) |-> Gain(v[i], x)])

LEMMA DropRows ==
  ASSUME NEW c, NEW p, NEW v, c.op = "drop"
  PROVE  /\ Effect(c, p, v) = [r \in Row |-> Effect(c, p, v)[r]]
         /\ \A r \in Row : Effect(c, p, v)[r] =
              IF r = c.src \/ r \in Touching(v, c.src) THEN Gone
              ELSE IF r = Unallocated
                     THEN v[r] - Given(v, c.src, r) + (v[c.src] - Given(v, c.src, c.src))
              ELSE IF r \in Counterparties(v, c.src) THEN v[r] - Given(v, c.src, r)
              ELSE v[r]
<1>1. Effect(c, p, v) = AfterDrop(v, c.src)
  BY DropEffect
<1> QED BY <1>1 DEF AfterDrop, Given

LEMMA GivenInt ==
  ASSUME NEW d, WellFormed(d), NEW b, NEW x
  PROVE  Given(d, b, x) \in Int
<1> DEFINE f == [i \in Touching(d, b) |-> Gain(d[i], x)]
<1>1. \A i \in Touching(d, b) : f[i] \in Int
  <2>1. \A i \in Touching(d, b) : d[i].amount \in Int
    BY WellFormedRows DEF Touching, TransferValue
  <2> QED BY <2>1 DEF Gain
<1>2. IsFiniteSet(Touching(d, b))
  <2>1. IsFiniteSet(Process \union {Earlier})
    BY RowsApart, FS_AddElement
  <2>2. Touching(d, b) \in SUBSET (Process \union {Earlier})
    BY DEF Touching, Transfers
  <2> QED BY <2>1, <2>2, FS_Subset
<1>3. DOMAIN f = Touching(d, b)
  OBVIOUS
<1>4. Given(d, b, x) = SumFunctionOnSet(f, Touching(d, b))
  BY <1>3 DEF Given, SumFunction
<1> HIDE DEF f
<1>5. SumFunctionOnSet(f, Touching(d, b)) \in Int
  BY <1>1, <1>2, SumInt
<1> QED BY <1>4, <1>5

\* A budget's transfers read under its lock are those that are there.
LEMMA SameTransfers ==
  ASSUME NEW v, NEW d, NEW b, SameMoves(v, d, b)
  PROVE  /\ Touching(v, b) = Touching(d, b)
         /\ Counterparties(v, b) = Counterparties(d, b)
         /\ \A x : Given(v, b, x) = Given(d, b, x)
<1>1. \A i \in Transfers : i \in Touching(v, b) <=> Touches(v[i], b)
  BY DEF Touching, Touches
<1>2. \A i \in Transfers : i \in Touching(d, b) <=> Touches(d[i], b)
  BY DEF Touching, Touches
<1>3. Touching(v, b) \subseteq Transfers /\ Touching(d, b) \subseteq Transfers
  BY DEF Touching
<1>4. \A i \in Transfers : Touches(v[i], b) \/ Touches(d[i], b) => v[i] = d[i]
  BY DEF SameMoves
<1>5. Touching(v, b) = Touching(d, b)
  BY <1>1, <1>2, <1>3, <1>4
<1>6. \A i \in Touching(d, b) : v[i] = d[i]
  BY <1>2, <1>3, <1>4
<1>7. {Ends(v[i]) : i \in Touching(v, b)} = {Ends(d[i]) : i \in Touching(d, b)}
  BY <1>5, <1>6
<1>8. Counterparties(v, b) = Counterparties(d, b)
  BY <1>7 DEF Counterparties
<1>9. ASSUME NEW x
      PROVE  Given(v, b, x) = Given(d, b, x)
  <2>1. [i \in Touching(v, b) |-> Gain(v[i], x)] = [i \in Touching(d, b) |-> Gain(d[i], x)]
    BY <1>5, <1>6
  <2> QED BY <2>1 DEF Given
<1> QED BY <1>5, <1>8, <1>9

LEMMA CommitDrop ==
  ASSUME NEW c \in Call, NEW p \in Process, NEW m, NEW F, NEW W, NEW v, NEW d, WellFormed(d),
         Fresh(F, v, d), Dooms(c, F, v, d, W), d[Earlier] \in {Gone, m}, c.op = "drop"
  PROVE  Agrees(c, p, m, W, v, d)
<1>1. PICK e : e = Effect(c, p, d)
  OBVIOUS
<1>2. PICK b : b = c.src
  OBVIOUS
<1>3. /\ Touching(v, b) = Touching(d, b) /\ Counterparties(v, b) = Counterparties(d, b)
      /\ \A x : Given(v, b, x) = Given(d, b, x)
  BY <1>2, SameTransfers DEF Dooms
<1>4. PICK B \in SUBSET Budget :
        /\ {b, Unallocated} \union B \subseteq F
        /\ Counterparties(v, b) \subseteq B \union {Unallocated}
        /\ W = {b, Unallocated} \union B \union Touching(v, b)
  BY <1>2 DEF Dooms
<1>5. PICK g : g = [x \in Budget |-> Given(d, b, x)]
  OBVIOUS
<1>6. \A x \in Budget : Given(v, b, x) = g[x] /\ Given(d, b, x) = g[x] /\ g[x] \in Int
  BY <1>3, <1>5, GivenInt
<1>7. b \in Budget /\ Unallocated \in Budget /\ Counterparties(d, b) \subseteq Budget
  BY <1>2, <1>3, <1>4, RowKinds DEF Call
<1>8. /\ e = [r \in Row |-> e[r]]
      /\ \A r \in Row : e[r] =
              IF r = b \/ r \in Touching(d, b) THEN Gone
              ELSE IF r = Unallocated THEN d[r] - g[r] + (d[b] - g[b])
              ELSE IF r \in Counterparties(d, b) THEN d[r] - g[r]
              ELSE d[r]
  <2>1. /\ e = [r \in Row |-> e[r]]
        /\ \A r \in Row : e[r] =
              IF r = b \/ r \in Touching(d, b) THEN Gone
              ELSE IF r = Unallocated THEN d[r] - Given(d, b, r) + (d[b] - Given(d, b, b))
              ELSE IF r \in Counterparties(d, b) THEN d[r] - Given(d, b, r)
              ELSE d[r]
    BY <1>1, <1>2, DropRows
  <2> QED BY <1>6, <1>7, <2>1
<1>9. \A r \in Row : Effect(c, p, v)[r] =
              IF r = b \/ r \in Touching(d, b) THEN Gone
              ELSE IF r = Unallocated THEN v[r] - g[r] + (v[b] - g[b])
              ELSE IF r \in Counterparties(d, b) THEN v[r] - g[r]
              ELSE v[r]
  <2>1. \A r \in Row : Effect(c, p, v)[r] =
              IF r = b \/ r \in Touching(v, b) THEN Gone
              ELSE IF r = Unallocated THEN v[r] - Given(v, b, r) + (v[b] - Given(v, b, b))
              ELSE IF r \in Counterparties(v, b) THEN v[r] - Given(v, b, r)
              ELSE v[r]
    BY <1>2, DropRows
  <2> QED BY <1>3, <1>6, <1>7, <2>1
<1>10. \A r \in {b, Unallocated} \union B : r \in Row /\ v[r] = d[r] /\ d[r] \in Int
  BY <1>4, <1>7, RowKinds, WellFormedRows DEF Fresh
<1>11. Touching(d, b) \subseteq Transfers /\ Transfers \subseteq Row
  BY RowKinds DEF Touching
<1>12. \A r \in W : Effect(c, p, v)[r] = e[r]
  <2>1. ASSUME NEW r \in Touching(v, b) PROVE Effect(c, p, v)[r] = e[r]
    BY <1>3, <1>8, <1>9, <1>11
  <2>2. ASSUME NEW r \in {b, Unallocated} \union B PROVE Effect(c, p, v)[r] = e[r]
    BY <1>8, <1>9, <1>10
  <2> QED BY <1>4, <2>1, <2>2
<1>13. \A r \in Row \ W : e[r] = d[r]
  BY <1>3, <1>4, <1>8
<1>14. \A x \in Budget : e[x] = d[x] \/ e[x] \in Int \union {Gone}
  <2>1. \A x \in {b, Unallocated} \union B : e[x] \in Int \union {Gone}
    BY <1>4, <1>6, <1>7, <1>8, <1>10
  <2>2. ASSUME NEW x \in Budget, x \notin {b, Unallocated} \union B PROVE e[x] = d[x]
    <3>1. x \notin Touching(v, b) /\ x \in Row
      BY <1>3, <1>11, RowKinds
    <3> QED BY <1>4, <1>13, <2>2, <3>1
  <2> QED BY <2>1, <2>2
<1>15. \A i \in Transfers : e[i] = d[i] \/ e[i] = Gone
  BY <1>7, <1>8, <1>11, RowKinds
<1>16. e[Account] = d[Account] /\ e[Tx] = d[Tx] /\ e[Allocation] = d[Allocation]
  BY <1>7, <1>8, <1>11, RowKinds
<1>17. WellFormed(e)
  <2>1. /\ e[Account] \in Int /\ e[Tx] \in TxValue \union {Gone}
        /\ e[Allocation] \in AllocationValue \union {Gone} /\ (e[Tx] = Gone <=> e[Allocation] = Gone)
    BY <1>16 DEF WellFormed
  <2> QED BY <1>8, <1>14, <1>15, <2>1, StaysWellFormed
<1>18. Legal(c, d)
  <2>1. d[b] # Gone
    BY <1>4 DEF Fresh
  <2> QED BY <1>2, <2>1 DEF Legal, Dooms, Off
<1>19. e[Earlier] \in {Gone, m}
  BY <1>15, RowKinds
<1> QED BY <1>1, <1>8, <1>12, <1>13, <1>17, <1>18, <1>19 DEF Agrees

\* A call that has saved all that it saves commits its effect on the rows as they are.
LEMMA HoldsCommit ==
  ASSUME NEW c \in Call, NEW p \in Process, NEW m \in TransferValue, NEW a, NEW d, NEW w, NEW K, NEW o,
         Holds(c, p, m, a, d, w, K, o), a.stage = "ready", WellFormed(d), d[Earlier] \in {Gone, m}
  PROVE  /\ Legal(c, d) /\ View(d, w) = Effect(c, p, d)
         /\ WellFormed(View(d, w)) /\ View(d, w)[Earlier] \in {Gone, m}
<1>1. d[p] = Gone
  BY DEF Holds
<1>2. PICK F, W, v : Snap(c, p, F, W, v, d, w, K) /\ Complete(c, p, m, F, W, v, d)
  BY DEF Holds, Stage
<1>3. /\ F \subseteq Row /\ W \subseteq Row /\ DOMAIN w = W
      /\ \A r \in W : w[r] = Effect(c, p, v)[r]
  BY <1>2 DEF Snap
<1>4. ASSUME NEW G, G \subseteq F
      PROVE  Fresh(G, v, d)
  BY <1>2, <1>4 DEF Snap, Fresh
<1>5. Agrees(c, p, m, W, v, d)
  <2>1. CASE c.op = "transfer"
    <3>1. {c.src, c.dst} \subseteq F /\ W = {c.src, c.dst, p}
      BY <1>2, <2>1 DEF Complete
    <3>2. Fresh({c.src, c.dst}, v, d)
      BY <1>4, <3>1
    <3>3. d[c.src] # Gone /\ d[c.dst] # Gone /\ c.src \in Budget /\ c.dst \in Budget
      BY <3>2 DEF Fresh, Call
    <3>4. Legal(c, d)
      BY <2>1, <3>3 DEF Legal
    <3>5. /\ Effect(c, p, v) = AfterMove(v, p, Move(c.src, c.dst, 1))
          /\ Effect(c, p, d) = AfterMove(d, p, Move(c.src, c.dst, 1))
      BY <2>1, TransferEffect
    <3> QED BY <1>1, <3>1, <3>2, <3>3, <3>4, <3>5, CommitMove, 1 \in Int
  <2>2. CASE c.op = "reverse"
    BY <1>2, <1>4, <2>2, CommitReverse DEF Complete
  <2>3. CASE c.op = "create"
    BY <1>2, <1>4, <2>3, CommitCreate DEF Complete
  <2>4. CASE c.op = "post"
    BY <1>2, <1>4, <2>4, CommitPost DEF Complete
  <2>5. CASE c.op = "resolve"
    BY <1>2, <1>4, <2>5, CommitResolve DEF Complete
  <2>6. CASE c.op = "split"
    <3>1. PICK old : old = v[Allocation].budget
      OBVIOUS
    <3>2. /\ {Tx, Allocation, c.dst, old} \subseteq F /\ ~v[Tx].pending
          /\ W = IF old = c.dst THEN {} ELSE {c.dst, old, Allocation}
      BY <1>2, <2>6, <3>1 DEF Complete
    <3>3. Fresh({Tx, Allocation, c.dst, old}, v, d)
      BY <1>4, <3>2
    <3> QED BY <2>6, <3>1, <3>2, <3>3, CommitSplit
  <2>7. CASE c.op = "delete"
    <3>1. PICK old : old = v[Allocation].budget
      OBVIOUS
    <3>2. W = {Account, Tx, Allocation, old} /\ W \subseteq F
      BY <1>2, <2>7, <3>1 DEF Complete
    <3>3. Fresh({Account, Tx, Allocation, old}, v, d)
      BY <1>4, <3>2
    <3> QED BY <2>7, <3>1, <3>2, <3>3, CommitDelete
  <2>8. CASE c.op = "archive"
    <3>1. /\ {c.src, Unallocated} \subseteq F
          /\ IF v[c.src] > 0 THEN W = {c.src, Unallocated, p} ELSE W \subseteq {c.src}
      BY <1>2, <2>8 DEF Complete
    <3>2. Fresh({c.src, Unallocated}, v, d)
      BY <1>4, <3>1
    <3> QED BY <1>1, <2>8, <3>1, <3>2, CommitArchive
  <2>9. CASE c.op = "edit"
    BY <1>2, <1>4, <2>9, CommitEdit DEF Complete
  <2>10. CASE c.op = "drop"
    <3>1. Dooms(c, F, v, d, W) /\ Fresh(F, v, d)
      BY <1>2, <1>4, <2>10 DEF Complete
    <3> QED BY <2>10, <3>1, CommitDrop
  <2> QED BY <1>2, <2>1, <2>2, <2>3, <2>4, <2>5, <2>6, <2>7, <2>8, <2>9, <2>10 DEF Complete
<1>6. View(d, w) = Effect(c, p, d)
  <2>1. PICK e : e = Effect(c, p, d)
    OBVIOUS
  <2>2. e = [r \in Row |-> e[r]] /\ (\A r \in Row \ W : e[r] = d[r]) /\ \A r \in W : w[r] = e[r]
    BY <1>3, <1>5, <2>1 DEF Agrees
  <2>3. \A r \in Row : (IF r \in DOMAIN w THEN w[r] ELSE d[r]) = e[r]
    BY <1>3, <2>2
  <2>4. View(d, w) = e
    BY <2>2, <2>3 DEF View
  <2> QED BY <2>1, <2>4
<1> QED BY <1>5, <1>6 DEF Agrees

-----------------------------------------------------------------------------
(* A process at a point of its call: n transactions deep, with the program s *)
(* before it, t says how its transaction has ended.                          *)

Fit(c, p, m, d, w, K, o, n, s, t) ==
  \E a \in Label :
    /\ a.deep = n /\ (t = "no" <=> a.stage # "done") /\ (n = 0 => K = {})
    /\ w = [r \in DOMAIN w |-> w[r]]
    /\ Holds(c, p, m, a, d, w, K, o) /\ Sound(c, p, m, a, s, Done)

LEMMA HoldsMore ==
  ASSUME NEW c, NEW p, NEW m, NEW a, NEW d, NEW w, NEW K, NEW o, NEW J,
         Holds(c, p, m, a, d, w, K, o), K \subseteq J
  PROVE  Holds(c, p, m, a, d, w, J, o)
<1>1. CASE a.stage = "done"
  BY <1>1 DEF Holds
<1>2. CASE a.stage # "done"
  <2>1. d[p] = Gone /\ Guarded(p, d, w, K)
    BY <1>2 DEF Holds
  <2>2. PICK F, W, v : Snap(c, p, F, W, v, d, w, K) /\ Stage(c, p, m, a, F, W, v, d, w, o)
    BY <1>2 DEF Holds
  <2>3. Snap(c, p, F, W, v, d, w, J)
    BY <2>2 DEF Snap, Kept
  <2>4. Guarded(p, d, w, J)
    BY <2>1, GuardedMore
  <2> QED BY <1>2, <2>1, <2>2, <2>3, <2>4 DEF Holds
<1> QED BY <1>1, <1>2

LEMMA HoldsDeepened ==
  ASSUME NEW c, NEW p, NEW m, NEW a \in Label, NEW d, NEW w, NEW K, NEW o, NEW n, NEW b,
         Holds(c, p, m, a, d, w, K, o), b = Deepened(a, n)
  PROVE  Holds(c, p, m, b, d, w, K, o) /\ b.stage = a.stage /\ b.deep = n
<1>1. /\ b.stage = a.stage /\ b.fresh = a.fresh /\ b.saved = a.saved /\ b.fact = a.fact
      /\ b.arg = a.arg /\ b.deep = n
  BY DEF Deepened, L
<1>2. CASE a.stage = "done"
  BY <1>1, <1>2 DEF Holds
<1>3. CASE a.stage # "done"
  <2>1. d[p] = Gone /\ Guarded(p, d, w, K)
    BY <1>3 DEF Holds
  <2>2. PICK F, W, v : Snap(c, p, F, W, v, d, w, K) /\ Stage(c, p, m, a, F, W, v, d, w, o)
    BY <1>3 DEF Holds
  <2>3. Found(c, a, v, d) => Found(c, b, v, d)
    <3>1. a.fact \in Facts
      BY LabelIs
    <3> QED BY <1>1, <3>1 DEF Found, Facts
  <2>4. Stage(c, p, m, b, F, W, v, d, w, o)
    <3>1. a.stage \in Stages
      BY LabelIs
    <3>2. CASE a.stage = "work"
      BY <1>1, <2>2, <2>3, <3>2 DEF Stage
    <3>3. CASE a.stage = "drained"
      BY <1>1, <2>2, <3>3 DEF Stage
    <3>4. CASE a.stage = "reloaded"
      BY <1>1, <2>2, <3>4 DEF Stage
    <3>5. CASE a.stage = "ready"
      BY <1>1, <2>2, <3>5 DEF Stage
    <3> QED BY <1>3, <3>1, <3>2, <3>3, <3>4, <3>5 DEF Stages
  <2> QED BY <1>1, <1>3, <2>1, <2>2, <2>4 DEF Holds
<1> QED BY <1>1, <1>2, <1>3

\* What leads on from here.
\* The next instruction leads from label a, which holds, to b.
FitFirst(c, p, m, d, w, K, o, n, s, t, a, b) ==
  /\ a.deep = n /\ (t = "no" <=> a.stage # "done") /\ (n = 0 => K = {})
  /\ w = [r \in DOMAIN w |-> w[r]] /\ Holds(c, p, m, a, d, w, K, o)
  /\ Leads(c, p, m, a, Head(s), b) /\ Sound(c, p, m, b, Tail(s), Done)

LEMMA FitStep ==
  ASSUME NEW c, NEW p, NEW m, NEW d, NEW w, NEW K, NEW o, NEW n, NEW s, NEW t,
         Fit(c, p, m, d, w, K, o, n, s, t), s # <<>>
  PROVE  /\ Head(s) \in Instruction
         /\ \E a \in Label, b \in Label : FitFirst(c, p, m, d, w, K, o, n, s, t, a, b)
<1>1. PICK a \in Label :
        /\ a.deep = n /\ (t = "no" <=> a.stage # "done") /\ (n = 0 => K = {})
        /\ w = [r \in DOMAIN w |-> w[r]]
        /\ Holds(c, p, m, a, d, w, K, o) /\ Sound(c, p, m, a, s, Done)
  BY DEF Fit
<1>2. Head(s) \in Instruction /\ \E e \in Label : Leads(c, p, m, a, Head(s), e) /\ Sound(c, p, m, e, Tail(s), Done)
  BY <1>1, SoundStep
<1> QED BY <1>1, <1>2 DEF FitFirst

LEMMA FitFrame ==
  ASSUME NEW c \in Call, NEW p, NEW m, NEW d, NEW w, NEW K, NEW o, NEW n, NEW s, NEW t, NEW e,
         Fit(c, p, m, d, w, K, o, n, s, t), t = "no" => Spares(p, K, d, e)
  PROVE  Fit(c, p, m, e, w, K, o, n, s, t)
<1>1. PICK a \in Label :
        /\ a.deep = n /\ (t = "no" <=> a.stage # "done") /\ (n = 0 => K = {})
        /\ w = [r \in DOMAIN w |-> w[r]]
        /\ Holds(c, p, m, a, d, w, K, o) /\ Sound(c, p, m, a, s, Done)
  BY DEF Fit
<1>2. a.stage \in Stages /\ a.fact \in Facts
  BY LabelIs
<1>3. Holds(c, p, m, a, e, w, K, o)
  BY <1>1, <1>2, Frame
<1> QED BY <1>1, <1>3 DEF Fit

LEMMA FitPass ==
  ASSUME NEW c, NEW p, NEW m, NEW d, NEW w, NEW K, NEW o, NEW n, NEW s, NEW t,
         Fit(c, p, m, d, w, K, o, n, s, t), s # <<>>, Head(s).do \in {"acquire", "release"}
  PROVE  Fit(c, p, m, d, w, K, o, n, Tail(s), t)
<1>1. PICK a \in Label, b \in Label : FitFirst(c, p, m, d, w, K, o, n, s, t, a, b)
  BY FitStep
<1>2. b = a
  BY <1>1 DEF Leads, Plans, FitFirst
<1> QED BY <1>1, <1>2 DEF Fit, FitFirst

\* A lock is acquired only for a row that has one.
LEMMA FitAcquire ==
  ASSUME NEW c, NEW p, NEW m, NEW d, NEW w, NEW K, NEW o, NEW n, NEW s, NEW t,
         Fit(c, p, m, d, w, K, o, n, s, t), s # <<>>
  PROVE  Head(s).do # "try" /\ (Head(s).do = "acquire" => Head(s).row \in Lockable)
<1>1. PICK a \in Label, b \in Label : Leads(c, p, m, a, Head(s), b)
  BY FitStep DEF FitFirst
<1> QED BY <1>1 DEF Leads, Plans

LEMMA FitBegin ==
  ASSUME NEW c, NEW p, NEW m, NEW d, NEW w, NEW K, NEW o, NEW n, NEW s, NEW t, NEW J,
         Fit(c, p, m, d, w, K, o, n, s, t), s # <<>>, Head(s).do = "begin", K \subseteq J
  PROVE  Fit(c, p, m, d, w, J, o, n + 1, Tail(s), t) /\ t = "no"
<1>1. PICK a \in Label, b \in Label : FitFirst(c, p, m, d, w, K, o, n, s, t, a, b)
  BY FitStep
<1>2. a.stage = "work" /\ b = Deepened(a, n + 1)
  BY <1>1 DEF Leads, Plans, FitFirst
<1>3. Holds(c, p, m, b, d, w, K, o) /\ b.stage = a.stage /\ b.deep = n + 1
  BY <1>1, <1>2, HoldsDeepened DEF FitFirst
<1>4. Holds(c, p, m, b, d, w, J, o)
  BY <1>3, HoldsMore
<1>5. n + 1 # 0
  BY <1>1, LabelIs DEF FitFirst
<1> QED BY <1>1, <1>2, <1>3, <1>4, <1>5 DEF Fit, FitFirst

LEMMA FitEndInner ==
  ASSUME NEW c, NEW p, NEW m, NEW d, NEW w, NEW K, NEW o, NEW n, NEW s, NEW t,
         Fit(c, p, m, d, w, K, o, n, s, t), s # <<>>, Head(s).do = "end", n > 1
  PROVE  Fit(c, p, m, d, w, K, o, n - 1, Tail(s), t)
<1>1. PICK a \in Label, b \in Label : FitFirst(c, p, m, d, w, K, o, n, s, t, a, b)
  BY FitStep
<1>2. n \in 0..3
  BY <1>1, LabelIs DEF FitFirst
<1>3. b = Deepened(a, n - 1)
  BY <1>1, <1>2 DEF Leads, Plans, FitFirst
<1>4. Holds(c, p, m, b, d, w, K, o) /\ b.stage = a.stage /\ b.deep = n - 1
  BY <1>1, <1>3, HoldsDeepened DEF FitFirst
<1>5. n - 1 # 0
  BY <1>2
<1> QED BY <1>1, <1>3, <1>4, <1>5 DEF Fit, FitFirst

LEMMA FitGone ==
  ASSUME NEW c, NEW p, NEW m, NEW d, NEW w, NEW K, NEW o, NEW s, NEW t,
         t # "no", K = {}, w = <<>>, Sound(c, p, m, Done, s, Done)
  PROVE  Fit(c, p, m, d, w, K, o, 0, s, t)
<1>1. Done \in Label /\ Done.stage = "done" /\ Done.deep = 0
  BY PlainLabels DEF Done, At0, L
<1>2. DOMAIN w = {} /\ w = [r \in DOMAIN w |-> w[r]]
  OBVIOUS
<1>3. Holds(c, p, m, Done, d, w, K, o)
  BY <1>1, <1>2 DEF Holds
<1> QED BY <1>1, <1>2, <1>3 DEF Fit

\* A call that fails.
LEMMA FitFailed ==
  ASSUME NEW c, NEW p, NEW m, NEW d, NEW w, NEW K, NEW o, NEW t,
         t # "no", K = {}, w = <<>>
  PROVE  Fit(c, p, m, d, w, K, o, 0, <<>>, t)
BY FitGone, SoundEmpty, PlainLabels

\* A call that commits.
LEMMA FitCommit ==
  ASSUME NEW c \in Call, NEW p \in Process, NEW m \in TransferValue,
         NEW d, NEW w, NEW K, NEW o, NEW n, NEW s, NEW t,
         Fit(c, p, m, d, w, K, o, n, s, t), s # <<>>, Head(s).do = "end", ~(n > 1),
         WellFormed(d), d[Earlier] \in {Gone, m}
  PROVE  /\ Legal(c, d) /\ View(d, w) = Effect(c, p, d)
         /\ WellFormed(View(d, w)) /\ View(d, w)[Earlier] \in {Gone, m}
         /\ t = "no" /\ n = 1 /\ d[p] = Gone /\ Guarded(p, d, w, K)
         /\ Sound(c, p, m, Done, Tail(s), Done)
<1>1. PICK a \in Label, b \in Label : FitFirst(c, p, m, d, w, K, o, n, s, t, a, b)
  BY FitStep
<1>2. a.stage = "ready" /\ n = 1 /\ b = Done
  BY <1>1 DEF Leads, Plans, FitFirst
<1>3. /\ Legal(c, d) /\ View(d, w) = Effect(c, p, d)
      /\ WellFormed(View(d, w)) /\ View(d, w)[Earlier] \in {Gone, m}
  BY <1>1, <1>2, HoldsCommit DEF FitFirst
<1>4. d[p] = Gone /\ Guarded(p, d, w, K)
  BY <1>1, <1>2 DEF Holds, FitFirst
<1> QED BY <1>1, <1>2, <1>3, <1>4 DEF FitFirst

\* The row r is there to be locked, and the objects o with r read again.
Exists(d, w, r) == View(d, w)[r] # Gone
Reread(o, d, w, r) == [o EXCEPT ![r] = View(d, w)[r]]

\* A row that a call comes to lock is one that it has not written.
LEMMA FitLock ==
  ASSUME NEW c \in Call, NEW p \in Process, NEW m \in TransferValue,
         NEW d, NEW w, NEW K, NEW o, NEW n, NEW s, NEW t,
         Fit(c, p, m, d, w, K, o, n, s, t), s # <<>>, Head(s).do = "lock",
         WellFormed(d), Exists(d, w, Head(s).row)
  PROVE  /\ Fit(c, p, m, d, w, K \union {Head(s).row}, Reread(o, d, w, Head(s).row), n, Tail(s), t)
         /\ Head(s).row \in Row
<1> DEFINE r == Head(s).row
<1>0. View(d, w)[r] # Gone
  BY DEF Exists
<1> DEFINE u == Reread(o, d, w, r)
<1> HIDE DEF r
<1>1. PICK a \in Label, b \in Label : FitFirst(c, p, m, d, w, K, o, n, s, t, a, b)
  BY FitStep
<1>2. MayLock(c, a, r) /\ b = Reads(a, {r})
  BY <1>1 DEF Leads, Plans, r, FitFirst
<1>3. /\ a.stage = "work" /\ n > 0 /\ n # 0 /\ r \in Row /\ r \notin a.saved
      /\ b.stage = "work" /\ b.deep = n
  BY <1>1, <1>2 DEF MayLock, Open, Reads, L, FitFirst
<1>4. a.fact \in Facts
  BY LabelIs
<1>5. View(d, w)[r] = d[r]
  <2>1. DOMAIN w = a.saved
    BY <1>1, <1>3, WorkHolds DEF Snap, FitFirst
  <2> QED BY <1>3, <2>1 DEF View
<1>6. Holds(c, p, m, b, d, w, K \union {r}, u)
  <2>1. d[r] # Gone /\ u = [o EXCEPT ![r] = d[r]]
    BY <1>0, <1>5 DEF Reread
  <2> HIDE DEF u
  <2> QED BY <1>1, <1>2, <1>3, <1>4, <2>1, HoldsLock DEF FitFirst
<1>7. Fit(c, p, m, d, w, K \union {r}, u, n, Tail(s), t)
  BY <1>1, <1>3, <1>6 DEF Fit, FitFirst
<1> QED BY <1>3, <1>7 DEF r

\* A row that a call comes to lock and that is gone.
LEMMA FitMissing ==
  ASSUME NEW c, NEW p, NEW m, NEW d, NEW w, NEW K, NEW o, NEW n, NEW s, NEW t,
         Fit(c, p, m, d, w, K, o, n, s, t), s # <<>>,
         Head(s).do \in {"begin", "lock", "check", "expect"}
  PROVE  t = "no"
<1>1. PICK a \in Label, b \in Label :
        (t = "no" <=> a.stage # "done") /\ Leads(c, p, m, a, Head(s), b)
  BY FitStep DEF FitFirst
<1>2. a.stage = "work"
  BY <1>1 DEF Leads, Plans, MayLock, ChecksTo, DecidesTo, Untouched, Open
<1> QED BY <1>1, <1>2

LEMMA FitLoad ==
  ASSUME NEW c \in Call, NEW p \in Process, NEW m \in TransferValue,
         NEW d, NEW w, NEW K, NEW o, NEW n, NEW s, NEW t, NEW S, NEW u,
         Fit(c, p, m, d, w, K, o, n, s, t), s # <<>>, Head(s).do = "load", Head(s).rows = S,
         WellFormed(d), u = [r \in Row |-> IF r \in S THEN View(d, w)[r] ELSE o[r]]
  PROVE  Fit(c, p, m, d, w, K, u, n, Tail(s), t)
<1>1. PICK a \in Label, b \in Label : FitFirst(c, p, m, d, w, K, o, n, s, t, a, b)
  BY FitStep
<1>2. LoadsTo(c, a, S, b)
  BY <1>1 DEF Leads, Plans, FitFirst
<1>3. b.deep = a.deep /\ a.stage # "done" /\ b.stage # "done"
  BY <1>2 DEF LoadsTo, Untouched, Open, Reads, Finds, At0, L
<1>4. a.fact \in Facts
  BY LabelIs
<1>5. PICK e : e = [r \in Row |-> IF r \in DOMAIN w THEN w[r] ELSE d[r]]
  OBVIOUS
<1>6. u = [r \in Row |-> IF r \in S THEN e[r] ELSE o[r]]
  BY <1>5 DEF View
<1>7. Holds(c, p, m, b, d, w, K, u)
  BY <1>1, <1>2, <1>4, <1>5, <1>6, HoldsLoad DEF FitFirst
<1> QED BY <1>1, <1>3, <1>7 DEF Fit, FitFirst

LEMMA FitCheck ==
  ASSUME NEW c \in Call, NEW p \in Process, NEW m \in TransferValue,
         NEW d, NEW w, NEW K, NEW o, NEW n, NEW s, NEW t,
         Fit(c, p, m, d, w, K, o, n, s, t), s # <<>>, Head(s).do = "check", Legal(c, o)
  PROVE  Fit(c, p, m, d, w, K, o, n, Tail(s), t)
<1>1. PICK a \in Label, b \in Label : FitFirst(c, p, m, d, w, K, o, n, s, t, a, b)
  BY FitStep
<1>2. ChecksTo(c, a, b)
  BY <1>1 DEF Leads, Plans, FitFirst
<1>3. b.deep = a.deep /\ a.stage # "done" /\ b.stage # "done"
  BY <1>2 DEF ChecksTo, Untouched, Open, Finds, L
<1>4. Holds(c, p, m, b, d, w, K, o)
  BY <1>1, <1>2, HoldsCheck DEF FitFirst
<1> QED BY <1>1, <1>3, <1>4 DEF Fit, FitFirst

LEMMA FitSave ==
  ASSUME NEW c \in Call, NEW p \in Process, NEW m \in TransferValue,
         NEW d, NEW w, NEW K, NEW o, NEW n, NEW s, NEW t,
         Fit(c, p, m, d, w, K, o, n, s, t), s # <<>>, Head(s).do = "save",
         WellFormed(d), d[Earlier] \in {Gone, m}
  PROVE  /\ Fit(c, p, m, d, Written(c, p, o, w, Head(s).rows), K \union Head(s).rows, o, n, Tail(s), t)
         /\ Head(s).rows \subseteq Row
<1> DEFINE S == Head(s).rows
           x == Written(c, p, o, w, S)
<1>0. x = Written(c, p, o, w, S)
  OBVIOUS
<1>1. PICK a \in Label, b \in Label : FitFirst(c, p, m, d, w, K, o, n, s, t, a, b)
  BY FitStep
<1>2. S \in SUBSET Row /\ SavesTo(c, p, m, a, S, b)
  BY <1>1 DEF Leads, Plans, S, FitFirst
<1>3. a.fact \in Facts
  BY LabelIs
<1> HIDE DEF S, x
<1>4. Holds(c, p, m, b, d, x, K \union S, o)
  BY <1>0, <1>1, <1>2, <1>3, HoldsSave DEF FitFirst
<1>5. b.deep = a.deep /\ (a.stage = "done" <=> b.stage = "done") /\ (n = 0 => K \union S = {})
  <2>1. CASE S = {} /\ b = a
    BY <1>1, <2>1 DEF FitFirst
  <2>2. CASE FirstSave(c, a, S) /\ b = Saves(a, S)
    BY <1>1, <2>2 DEF FirstSave, Untouched, Open, Saves, L, FitFirst
  <2>3. CASE LastSave(c, p, m, a, S) /\ b = Ready(a.deep)
    BY <1>1, <2>3 DEF LastSave, Open, Ready, At0, L, FitFirst
  <2>4. CASE Untouched(a) /\ b = At0("drained", a.deep)
    BY <1>1, <2>4 DEF Untouched, Open, At0, L, FitFirst
  <2>5. CASE a.stage = "reloaded" /\ a.deep > 0 /\ b = Ready(a.deep)
    BY <1>1, <2>5 DEF Ready, At0, L, FitFirst
  <2> QED BY <1>2, <2>1, <2>2, <2>3, <2>4, <2>5 DEF SavesTo
<1>6. x = [r \in DOMAIN x |-> x[r]]
  BY DEF x, Written
<1>7. Fit(c, p, m, d, x, K \union S, o, n, Tail(s), t)
  BY <1>1, <1>4, <1>5, <1>6 DEF Fit, FitFirst
<1> QED BY <1>2, <1>7 DEF S, x

LEMMA FitContinues ==
  ASSUME NEW c, NEW p, NEW m, NEW d, NEW w, NEW K, NEW o, NEW n, NEW g, NEW s, NEW b,
         Continues(c, p, m, d, w, K, o, n, g, b), Sound(c, p, m, b, s, Done),
         n = 0 => K = {}, w = [r \in DOMAIN w |-> w[r]]
  PROVE  Fit(c, p, m, d, w, K, o, n, g \o s, "no")
<1>1. PICK x \in Label : /\ x.deep = n /\ x.stage # "done"
                         /\ Holds(c, p, m, x, d, w, K, o) /\ Sound(c, p, m, x, g, b)
  BY DEF Continues
<1>2. Sound(c, p, m, x, g \o s, Done)
  BY <1>1, SoundConcat
<1> QED BY <1>1, <1>2 DEF Fit

LEMMA FitExpect ==
  ASSUME NEW c \in Call, NEW p \in Process, NEW m \in TransferValue,
         NEW d, NEW w, NEW K, NEW o, NEW n, NEW s, NEW t, NEW S, NEW i,
         Fit(c, p, m, d, w, K, o, n, s, t), s # <<>>, Head(s) = i, i.do = "expect",
         WellFormed(d), Counterparties(o, c.src) \subseteq i.rows \union {Unallocated},
         S = {c.src, Unallocated} \union i.rows \union Touching(o, c.src)
  PROVE  Fit(c, p, m, d, w, K, o, n, Save(S) \o Tail(s), t)
<1>1. PICK a \in Label, b \in Label :
        /\ a.deep = n /\ (t = "no" <=> a.stage # "done") /\ (n = 0 => K = {})
        /\ w = [r \in DOMAIN w |-> w[r]]
        /\ Holds(c, p, m, a, d, w, K, o)
        /\ Leads(c, p, m, a, i, b) /\ Sound(c, p, m, b, Tail(s), Done)
  BY FitStep DEF FitFirst
<1>2. /\ c.op = "drop" /\ Untouched(a) /\ a.fact = "checked"
      /\ i.rows \in SUBSET Budget /\ i.rows \union {c.src, Unallocated} \subseteq a.fresh
      /\ b = Ready(a.deep)
  BY <1>1 DEF Leads, Plans, DecidesTo
<1>3. Continues(c, p, m, d, w, K, o, n, Save(S), b)
  BY <1>1, <1>2, ExpectSaves
<1>4. t = "no"
  BY <1>1, <1>2 DEF Untouched, Open
<1> QED BY <1>1, <1>3, <1>4, FitContinues

LEMMA FitDecide ==
  ASSUME NEW c \in Call, NEW p \in Process, NEW m \in TransferValue,
         NEW d, NEW w, NEW K, NEW o, NEW n, NEW s, NEW t, NEW e, NEW i,
         Fit(c, p, m, d, w, K, o, n, s, t), s # <<>>, Head(s) = i, i.do \in Plans,
         WellFormed(d), call[p] = c, e = View(d, w)
  PROVE  Fit(c, p, m, d, w, K, o, n, Chosen(p, i, e) \o Tail(s), t)
<1>1. PICK a \in Label, b \in Label :
        /\ a.deep = n /\ (t = "no" <=> a.stage # "done") /\ (n = 0 => K = {})
        /\ w = [r \in DOMAIN w |-> w[r]]
        /\ Holds(c, p, m, a, d, w, K, o)
        /\ Leads(c, p, m, a, i, b) /\ Sound(c, p, m, b, Tail(s), Done)
  BY FitStep DEF FitFirst
<1>2. DecidesTo(c, a, i, b)
  BY <1>1 DEF Leads, Plans
<1>3. n \in 0..3
  BY <1>1, LabelIs
<1>4. Continues(c, p, m, d, w, K, o, n, Chosen(p, i, e), b) /\ a.stage # "done"
  <2>1. CASE /\ a = Working(a.deep) /\ a.deep < 2 /\ b = After(a.deep)
             /\ \/ i.do \in {"split", "delete", "drop"} /\ i.do = c.op
                \/ i.do = "recheck" /\ c.op = "drop" /\ i.rows \in SUBSET Budget
    <3>1. a.deep \in 0..1
      BY <1>1, <1>3, <2>1
    <3>2. a.stage # "done"
      BY <2>1 DEF Working, Work, L
    <3>3. Continues(c, p, m, d, w, K, o, a.deep, Chosen(p, i, e), b)
      BY <1>1, <2>1, <3>1, DecideFirst
    <3> QED BY <1>1, <3>2, <3>3
  <2>2. CASE /\ i.do = "reallocate" /\ c.op = "split" /\ Untouched(a) /\ a.deep < 3
             /\ a.fact = "checked" /\ {Tx, Allocation, c.dst} \subseteq a.fresh
             /\ b = Ready(a.deep)
    <3>1. Continues(c, p, m, d, w, K, o, a.deep, Chosen(p, i, e), b)
      BY <1>1, <2>2, DecideReallocate
    <3> QED BY <1>1, <2>2, <3>1 DEF Untouched, Open
  <2>3. CASE /\ i.do = "unallocate" /\ c.op = "delete" /\ Untouched(a) /\ a.deep < 3
             /\ {Account, Tx, Allocation} \subseteq a.fresh
             /\ b = Ready(a.deep)
    <3>1. Continues(c, p, m, d, w, K, o, a.deep, Chosen(p, i, e), b)
      BY <1>1, <2>3, DecideUnallocate
    <3> QED BY <1>1, <2>3, <3>1 DEF Untouched, Open
  <2>4. CASE /\ i.do = "drain" /\ c.op = "archive" /\ Untouched(a) /\ a.deep < 3
             /\ {c.src, Unallocated} \subseteq a.fresh
             /\ b = At0("drained", a.deep)
    <3>1. Continues(c, p, m, d, w, K, o, a.deep, Chosen(p, i, e), b)
      BY <1>1, <2>4, DecideDrain
    <3> QED BY <1>1, <2>4, <3>1 DEF Untouched, Open
  <2> QED BY <1>2, <2>1, <2>2, <2>3, <2>4 DEF DecidesTo, Plans
<1>5. t = "no"
  BY <1>1, <1>4
<1> QED BY <1>1, <1>4, <1>5, FitContinues

-----------------------------------------------------------------------------
(* The invariant: every process is at a point of its call, and what it has   *)
(* found still holds.  m is the transfer that a call may reverse.            *)

HeldBy(rl, p) == {r \in Row : rl[r] = p}

Core == {"transfer", "reverse", "create", "post", "resolve", "split", "delete", "archive",
         "edit", "drop"}

OnProcesses(f) == f = [p \in Process |-> f[p]]
Shaped ==
  /\ call \in [Process -> Call] /\ \A p \in Process : call[p].op \in Core
  /\ rowlock \in [Row -> Process \union {Nobody}]
  /\ OnProcesses(todo) /\ OnProcesses(mem) /\ OnProcesses(wrote)
  /\ OnProcesses(depth) /\ OnProcesses(ended)

InStep(m, p) ==
  Fit(call[p], p, m, db, wrote[p], HeldBy(rowlock, p), mem[p], depth[p], todo[p], ended[p])

Rows(m) == WellFormed(db) /\ db[Earlier] \in {Gone, m}

Inv(m) == Shaped /\ Rows(m) /\ \A p \in Process : InStep(m, p)

\* g differs from f at most in p.
Moved(p, f, g) == OnProcesses(g) /\ \A q \in Process \ {p} : g[q] = f[q]

LEMMA MovedSame ==
  ASSUME NEW p, NEW f, OnProcesses(f)
  PROVE  Moved(p, f, f)
BY DEF Moved

\* p takes the locks S.
Taken(rl, p, S) == [r \in Row |-> IF r \in S THEN p ELSE rl[r]]

LEMMA LocksTaken ==
  ASSUME NEW p \in Process, NEW rl \in [Row -> Process \union {Nobody}], NEW S \in SUBSET Row,
         \A r \in S : rl[r] \in {Nobody, p}
  PROVE  /\ Taken(rl, p, S) \in [Row -> Process \union {Nobody}]
         /\ HeldBy(Taken(rl, p, S), p) = HeldBy(rl, p) \union S
         /\ \A q \in Process \ {p} : HeldBy(Taken(rl, p, S), q) = HeldBy(rl, q)
<1> DEFINE g == Taken(rl, p, S)
<1>1. Nobody \notin Process
  BY NobodyAssumption
<1>2. g \in [Row -> Process \union {Nobody}] /\ \A r \in Row : g[r] = IF r \in S THEN p ELSE rl[r]
  BY DEF Taken
<1> HIDE DEF g
<1>3. HeldBy(g, p) = HeldBy(rl, p) \union S
  BY <1>2 DEF HeldBy
<1>4. ASSUME NEW q \in Process \ {p} PROVE HeldBy(g, q) = HeldBy(rl, q)
  BY <1>1, <1>2 DEF HeldBy
<1> QED BY <1>2, <1>3, <1>4 DEF g

\* p gives its locks back.
LEMMA LocksFreed ==
  ASSUME NEW p \in Process, NEW rl \in [Row -> Process \union {Nobody}], NEW g,
         g = [r \in Row |-> IF rl[r] = p THEN Nobody ELSE rl[r]]
  PROVE  /\ g \in [Row -> Process \union {Nobody}] /\ HeldBy(g, p) = {}
         /\ \A q \in Process \ {p} : HeldBy(g, q) = HeldBy(rl, q)
BY NobodyAssumption DEF HeldBy

LEMMA SparesSame ==
  ASSUME NEW p, NEW K, NEW d
  PROVE  Spares(p, K, d, d)
BY DEF Spares

\* What the rest of the system may rely on when p moves.
Moves(p) ==
  /\ call' = call /\ Moved(p, todo, todo') /\ Moved(p, mem, mem') /\ Moved(p, wrote, wrote')
  /\ Moved(p, depth, depth') /\ Moved(p, ended, ended')
  /\ rowlock' \in [Row -> Process \union {Nobody}]
  /\ \A q \in Process \ {p} : HeldBy(rowlock', q) = HeldBy(rowlock, q)

LEMMA OneMoves ==
  ASSUME NEW m \in TransferValue, NEW p \in Process, Inv(m), Moves(p), Rows(m)',
         \A q \in Process \ {p} : ended[q] = "no" => Spares(q, HeldBy(rowlock, q), db, db'),
         Fit(call[p], p, m, db', wrote'[p], HeldBy(rowlock', p), mem'[p], depth'[p], todo'[p],
             ended'[p])
  PROVE  Inv(m)'
<1>1. Shaped'
  BY DEF Inv, Shaped, Moves, Moved
<1>2. ASSUME NEW q \in Process, q # p
      PROVE  InStep(m, q)'
  <2>1. /\ call'[q] = call[q] /\ todo'[q] = todo[q] /\ mem'[q] = mem[q] /\ wrote'[q] = wrote[q]
        /\ depth'[q] = depth[q] /\ ended'[q] = ended[q]
        /\ HeldBy(rowlock', q) = HeldBy(rowlock, q)
    BY <1>2 DEF Moves, Moved
  <2>2. call[q] \in Call
    BY DEF Inv, Shaped
  <2>3. Fit(call[q], q, m, db, wrote[q], HeldBy(rowlock, q), mem[q], depth[q], todo[q], ended[q])
    BY DEF Inv, InStep
  <2>4. Fit(call[q], q, m, db', wrote[q], HeldBy(rowlock, q), mem[q], depth[q], todo[q], ended[q])
    BY <1>2, <2>2, <2>3, FitFrame
  <2> QED BY <2>1, <2>4 DEF InStep
<1>3. InStep(m, p)'
  <2>1. call'[p] = call[p]
    BY DEF Moves
  <2> QED BY <2>1 DEF InStep
<1> QED BY <1>1, <1>2, <1>3 DEF Inv

\* The committed rows stay as they are.
LEMMA OneMovesAlone ==
  ASSUME NEW m \in TransferValue, NEW p \in Process, Inv(m), Moves(p), db' = db,
         Fit(call[p], p, m, db, wrote'[p], HeldBy(rowlock', p), mem'[p], depth'[p], todo'[p],
             ended'[p])
  PROVE  Inv(m)'
<1>1. Rows(m)'
  BY DEF Inv, Rows
<1>2. \A q \in Process \ {p} : ended[q] = "no" => Spares(q, HeldBy(rowlock, q), db, db')
  BY SparesSame
<1> QED BY <1>1, <1>2, OneMoves

-----------------------------------------------------------------------------
(* Every step keeps the invariant, and is a step of SerialCalls or none.     *)

Stutters == db' = db /\ call' = call /\ ended' = ended
EndsNow(p) == ended[p] = "no" /\ call' = call /\ Moved(p, ended, ended') /\ ended'[p] # "no"
Fails(p) == EndsNow(p) /\ db' = db
Commits(p) == EndsNow(p) /\ Legal(call[p], db) /\ db' = Effect(call[p], p, db)

\* What holds of a process that runs.
LEMMA InvFacts ==
  ASSUME NEW m \in TransferValue, NEW p \in Process, Inv(m)
  PROVE  /\ call[p] \in Call /\ WellFormed(db) /\ db[Earlier] \in {Gone, m}
         /\ rowlock \in [Row -> Process \union {Nobody}]
         /\ Fit(call[p], p, m, db, wrote[p], HeldBy(rowlock, p), mem[p], depth[p], todo[p], ended[p])
         /\ OnProcesses(todo) /\ OnProcesses(mem) /\ OnProcesses(wrote)
         /\ OnProcesses(depth) /\ OnProcesses(ended)
         /\ Seen(p) = View(db, wrote[p])
BY DEF Inv, Shaped, Rows, InStep, Seen, View

LEMMA Passes ==
  ASSUME NEW m \in TransferValue, NEW p \in Process, Inv(m),
         Running(p), Now(p).do \in {"acquire", "release"}, Advance(p),
         UNCHANGED <<database, call, mem, ended>>
  PROVE  Inv(m)' /\ Stutters
<1>1. /\ OnProcesses(todo) /\ OnProcesses(mem) /\ OnProcesses(wrote)
      /\ OnProcesses(depth) /\ OnProcesses(ended)
      /\ rowlock \in [Row -> Process \union {Nobody}]
      /\ Fit(call[p], p, m, db, wrote[p], HeldBy(rowlock, p), mem[p], depth[p], todo[p], ended[p])
  BY InvFacts
<1>2. /\ call' = call /\ db' = db /\ mem' = mem /\ wrote' = wrote /\ depth' = depth
      /\ ended' = ended /\ rowlock' = rowlock
      /\ todo' = [todo EXCEPT ![p] = Tail(todo[p])]
  BY DEF database, Advance
<1>3. Moved(p, todo, todo') /\ todo'[p] = Tail(todo[p])
  BY <1>1, <1>2 DEF Moved, OnProcesses
<1>4. Moves(p)
  BY <1>1, <1>2, <1>3, MovedSame DEF Moves
<1>5. Fit(call[p], p, m, db, wrote[p], HeldBy(rowlock, p), mem[p], depth[p], Tail(todo[p]), ended[p])
  BY <1>1, FitPass DEF Running, Now
<1>6. Inv(m)'
  BY <1>2, <1>3, <1>4, <1>5, OneMovesAlone
<1> QED BY <1>2, <1>6 DEF Stutters

LEMMA AcquireStep ==
  ASSUME NEW m \in TransferValue, NEW p \in Process, Inv(m), Acquire(p)
  PROVE  Inv(m)' /\ Stutters
BY Passes DEF Acquire, At

LEMMA ReleaseStep ==
  ASSUME NEW m \in TransferValue, NEW p \in Process, Inv(m), Release(p)
  PROVE  Inv(m)' /\ Stutters
BY Passes DEF Release, At

LEMMA TryStep ==
  ASSUME NEW m \in TransferValue, NEW p \in Process, Inv(m), TryAcquire(p)
  PROVE  FALSE
<1>1. Running(p) /\ Now(p).do = "try"
  BY DEF TryAcquire, At
<1>2. Fit(call[p], p, m, db, wrote[p], HeldBy(rowlock, p), mem[p], depth[p], todo[p], ended[p])
  BY InvFacts
<1> QED BY <1>1, <1>2, FitAcquire DEF Running, Now

LEMMA BeginStep ==
  ASSUME NEW m \in TransferValue, NEW p \in Process, Inv(m), Begin(p)
  PROVE  Inv(m)' /\ Stutters
<1>1. /\ OnProcesses(todo) /\ OnProcesses(mem) /\ OnProcesses(wrote)
      /\ OnProcesses(depth) /\ OnProcesses(ended)
      /\ rowlock \in [Row -> Process \union {Nobody}]
      /\ Fit(call[p], p, m, db, wrote[p], HeldBy(rowlock, p), mem[p], depth[p], todo[p], ended[p])
  BY InvFacts
<1>2. /\ call' = call /\ db' = db /\ mem' = mem /\ wrote' = wrote /\ ended' = ended
      /\ depth' = [depth EXCEPT ![p] = depth[p] + 1]
      /\ todo' = [todo EXCEPT ![p] = Tail(todo[p])]
  BY DEF Begin, Advance
<1>3. /\ Moved(p, todo, todo') /\ todo'[p] = Tail(todo[p])
      /\ Moved(p, depth, depth') /\ depth'[p] = depth[p] + 1
  BY <1>1, <1>2 DEF Moved, OnProcesses
<1>4. /\ rowlock' \in [Row -> Process \union {Nobody}]
      /\ HeldBy(rowlock, p) \subseteq HeldBy(rowlock', p)
      /\ \A q \in Process \ {p} : HeldBy(rowlock', q) = HeldBy(rowlock, q)
  <2>1. CASE rowlock' = rowlock
    BY <1>1, <2>1
  <2>2. CASE (\A r \in Row : Available(r, p)) /\ rowlock' = [r \in Row |-> p]
    <3>1. \A r \in Row : rowlock[r] \in {Nobody, p}
      BY <2>2 DEF Available
    <3>2. rowlock' = Taken(rowlock, p, Row)
      BY <2>2 DEF Taken
    <3> QED BY <1>1, <3>1, <3>2, LocksTaken
  <2> QED BY <2>1, <2>2 DEF Begin
<1>5. Moves(p)
  BY <1>1, <1>2, <1>3, <1>4, MovedSame DEF Moves
<1>6. todo[p] # <<>> /\ Head(todo[p]).do = "begin"
  BY DEF Begin, At, Running, Now
<1>7. Fit(call[p], p, m, db, wrote[p], HeldBy(rowlock', p), mem[p], depth[p] + 1, Tail(todo[p]),
          ended[p])
  BY <1>1, <1>4, <1>6, FitBegin
<1>8. Inv(m)'
  BY <1>2, <1>3, <1>5, <1>7, OneMovesAlone
<1> QED BY <1>2, <1>8 DEF Stutters

\* A call that is rolled back.
LEMMA RollbackStep ==
  ASSUME NEW m \in TransferValue, NEW p \in Process, Inv(m), Rollback(p),
         Moved(p, ended, ended'), ended'[p] # "no"
  PROVE  Inv(m)' /\ call' = call /\ db' = db
<1>1. /\ OnProcesses(todo) /\ OnProcesses(mem) /\ OnProcesses(wrote) /\ OnProcesses(depth)
      /\ rowlock \in [Row -> Process \union {Nobody}]
  BY InvFacts
<1>2. /\ call' = call /\ db' = db /\ wrote' = [wrote EXCEPT ![p] = <<>>]
      /\ mem' = [mem EXCEPT ![p] = Unread] /\ depth' = [depth EXCEPT ![p] = 0]
      /\ todo' = [todo EXCEPT ![p] = <<>>]
      /\ rowlock' = [r \in Row |-> IF rowlock[r] = p THEN Nobody ELSE rowlock[r]]
  BY DEF Rollback
<1>3. /\ Moved(p, todo, todo') /\ todo'[p] = <<>> /\ Moved(p, mem, mem')
      /\ Moved(p, wrote, wrote') /\ wrote'[p] = <<>> /\ Moved(p, depth, depth') /\ depth'[p] = 0
  BY <1>1, <1>2 DEF Moved, OnProcesses
<1>4. /\ rowlock' \in [Row -> Process \union {Nobody}] /\ HeldBy(rowlock', p) = {}
      /\ \A q \in Process \ {p} : HeldBy(rowlock', q) = HeldBy(rowlock, q)
  BY <1>1, <1>2, LocksFreed
<1>5. Moves(p)
  BY <1>2, <1>3, <1>4 DEF Moves
<1>6. Fit(call[p], p, m, db, wrote'[p], HeldBy(rowlock', p), mem'[p], depth'[p], todo'[p], ended'[p])
  BY <1>3, <1>4, FitFailed
<1> QED BY <1>2, <1>5, <1>6, OneMovesAlone

LEMMA RaiseStep ==
  ASSUME NEW m \in TransferValue, NEW p \in Process, Inv(m), NEW why, Raise(p, why), why # "no",
         Running(p), Now(p).do \in {"begin", "lock", "check", "expect"}
  PROVE  Inv(m)' /\ Fails(p)
<1>1. OnProcesses(ended) /\ ended' = [ended EXCEPT ![p] = why] /\ Rollback(p)
  BY InvFacts DEF Raise
<1>2. Moved(p, ended, ended') /\ ended'[p] # "no"
  BY <1>1 DEF Moved, OnProcesses
<1>3. ended[p] = "no"
  <2>1. Fit(call[p], p, m, db, wrote[p], HeldBy(rowlock, p), mem[p], depth[p], todo[p], ended[p])
    BY InvFacts
  <2> QED BY <2>1, FitMissing DEF Running, Now
<1> QED BY <1>1, <1>2, <1>3, RollbackStep DEF Fails, EndsNow

LEMMA CrashStep ==
  ASSUME NEW m \in TransferValue, NEW p \in Process, Inv(m), Crash(p)
  PROVE  Inv(m)' /\ (Stutters \/ Fails(p))
<1>1. /\ OnProcesses(ended) /\ Rollback(p)
      /\ ended' = [ended EXCEPT ![p] = IF ended[p] = "no" THEN "crashed" ELSE ended[p]]
  BY InvFacts DEF Crash
<1>2. Moved(p, ended, ended') /\ ended'[p] = IF ended[p] = "no" THEN "crashed" ELSE ended[p]
  BY <1>1 DEF Moved, OnProcesses
<1>3. ended'[p] # "no"
  BY <1>2
<1>4. Inv(m)' /\ call' = call /\ db' = db
  BY <1>1, <1>2, <1>3, RollbackStep
<1>5. CASE ended[p] = "no"
  BY <1>2, <1>3, <1>4, <1>5 DEF Fails, EndsNow
<1>6. CASE ended[p] # "no"
  <2>1. ended' = ended
    BY <1>1, <1>2, <1>6 DEF Moved, OnProcesses
  <2> QED BY <1>4, <2>1 DEF Stutters
<1> QED BY <1>5, <1>6

LEMMA LockStep ==
  ASSUME NEW m \in TransferValue, NEW p \in Process, Inv(m), LockRow(p)
  PROVE  Inv(m)' /\ (Stutters \/ Fails(p))
<1>1. /\ OnProcesses(todo) /\ OnProcesses(mem) /\ OnProcesses(wrote)
      /\ OnProcesses(depth) /\ OnProcesses(ended) /\ call[p] \in Call /\ WellFormed(db)
      /\ rowlock \in [Row -> Process \union {Nobody}]
      /\ Fit(call[p], p, m, db, wrote[p], HeldBy(rowlock, p), mem[p], depth[p], todo[p], ended[p])
      /\ Seen(p) = View(db, wrote[p])
  BY InvFacts
<1>2. PICK r : r = Now(p).row
  OBVIOUS
<1>3. todo[p] # <<>> /\ Head(todo[p]).do = "lock" /\ Head(todo[p]).row = r
  BY <1>2 DEF LockRow, At, Running, Now
<1>4. CASE Seen(p)[r] = Gone
  <2>1. Raise(p, "refused")
    BY <1>2, <1>4 DEF LockRow
  <2> QED BY <1>3, <2>1, RaiseStep DEF Running, Now
<1>5. CASE Seen(p)[r] # Gone
  <2>1. /\ call' = call /\ db' = db /\ wrote' = wrote /\ depth' = depth /\ ended' = ended
        /\ todo' = [todo EXCEPT ![p] = Tail(todo[p])]
        /\ mem' = [mem EXCEPT ![p] = [mem[p] EXCEPT ![r] = Seen(p)[r]]]
        /\ rowlock' = [rowlock EXCEPT ![r] = p]
        /\ Available(r, p)
    BY <1>2, <1>5 DEF LockRow, Advance, Refreshed
  <2>2. PICK u : u = Reread(mem[p], db, wrote[p], r)
    OBVIOUS
  <2>3. Moved(p, todo, todo') /\ todo'[p] = Tail(todo[p]) /\ Moved(p, mem, mem') /\ mem'[p] = u
    BY <1>1, <2>1, <2>2 DEF Moved, OnProcesses, Reread
  <2>4. /\ Fit(call[p], p, m, db, wrote[p], HeldBy(rowlock, p) \union {r}, u, depth[p],
               Tail(todo[p]), ended[p])
        /\ r \in Row
    <3>1. PICK h : h = Head(todo[p]).row
      OBVIOUS
    <3>2. Exists(db, wrote[p], h)
      BY <1>1, <1>3, <1>5, <3>1 DEF Exists
    <3>3. /\ Fit(call[p], p, m, db, wrote[p], HeldBy(rowlock, p) \union {h},
                 Reread(mem[p], db, wrote[p], h), depth[p], Tail(todo[p]), ended[p])
          /\ h \in Row
      BY <1>1, <1>3, <3>1, <3>2, FitLock
    <3> QED BY <1>3, <2>2, <3>1, <3>3
  <2>5. rowlock' = Taken(rowlock, p, {r}) /\ {r} \in SUBSET Row /\ rowlock[r] \in {Nobody, p}
    BY <1>1, <2>1, <2>4 DEF Taken, Available
  <2>6. /\ rowlock' \in [Row -> Process \union {Nobody}]
        /\ HeldBy(rowlock', p) = HeldBy(rowlock, p) \union {r}
        /\ \A q \in Process \ {p} : HeldBy(rowlock', q) = HeldBy(rowlock, q)
    BY <1>1, <2>5, LocksTaken
  <2>7. Moves(p)
    BY <1>1, <2>1, <2>3, <2>6, MovedSame DEF Moves
  <2>8. Inv(m)'
    BY <2>1, <2>3, <2>4, <2>6, <2>7, OneMovesAlone
  <2> QED BY <2>1, <2>8 DEF Stutters
<1> QED BY <1>4, <1>5

LEMMA LoadStep ==
  ASSUME NEW m \in TransferValue, NEW p \in Process, Inv(m), LoadRows(p)
  PROVE  Inv(m)' /\ Stutters
<1>1. /\ OnProcesses(todo) /\ OnProcesses(mem) /\ OnProcesses(wrote)
      /\ OnProcesses(depth) /\ OnProcesses(ended) /\ call[p] \in Call /\ WellFormed(db)
      /\ rowlock \in [Row -> Process \union {Nobody}]
      /\ Fit(call[p], p, m, db, wrote[p], HeldBy(rowlock, p), mem[p], depth[p], todo[p], ended[p])
      /\ Seen(p) = View(db, wrote[p])
  BY InvFacts
<1>2. PICK S : S = Now(p).rows
  OBVIOUS
<1>3. todo[p] # <<>> /\ Head(todo[p]).do = "load" /\ Head(todo[p]).rows = S
  BY <1>2 DEF LoadRows, At, Running, Now
<1>4. PICK u : u = [r \in Row |-> IF r \in S THEN View(db, wrote[p])[r] ELSE mem[p][r]]
  OBVIOUS
<1>5. /\ call' = call /\ db' = db /\ wrote' = wrote /\ depth' = depth /\ ended' = ended
      /\ rowlock' = rowlock
      /\ todo' = [todo EXCEPT ![p] = Tail(todo[p])]
      /\ mem' = [mem EXCEPT ![p] = u]
  BY <1>1, <1>2, <1>4 DEF LoadRows, Advance, database
<1>6. Moved(p, todo, todo') /\ todo'[p] = Tail(todo[p]) /\ Moved(p, mem, mem') /\ mem'[p] = u
  BY <1>1, <1>5 DEF Moved, OnProcesses
<1>7. Moves(p)
  BY <1>1, <1>5, <1>6, MovedSame DEF Moves
<1>8. Fit(call[p], p, m, db, wrote[p], HeldBy(rowlock, p), u, depth[p], Tail(todo[p]), ended[p])
  BY <1>1, <1>3, <1>4, FitLoad
<1>9. Inv(m)'
  BY <1>5, <1>6, <1>7, <1>8, OneMovesAlone
<1> QED BY <1>5, <1>9 DEF Stutters

\* A step that changes nothing but what is left to do.
LEMMA Rewrites ==
  ASSUME NEW m \in TransferValue, NEW p \in Process, Inv(m), NEW s,
         todo' = [todo EXCEPT ![p] = s], UNCHANGED <<database, call, mem, redis, scopes, ended>>,
         Fit(call[p], p, m, db, wrote[p], HeldBy(rowlock, p), mem[p], depth[p], s, ended[p])
  PROVE  Inv(m)' /\ Stutters
<1>1. /\ OnProcesses(todo) /\ OnProcesses(mem) /\ OnProcesses(wrote)
      /\ OnProcesses(depth) /\ OnProcesses(ended)
      /\ rowlock \in [Row -> Process \union {Nobody}]
  BY InvFacts
<1>2. /\ call' = call /\ db' = db /\ mem' = mem /\ wrote' = wrote /\ depth' = depth
      /\ ended' = ended /\ rowlock' = rowlock
  BY DEF database
<1>3. Moved(p, todo, todo') /\ todo'[p] = s
  BY <1>1 DEF Moved, OnProcesses
<1>4. Moves(p)
  BY <1>1, <1>2, <1>3, MovedSame DEF Moves
<1>5. Inv(m)'
  BY <1>2, <1>3, <1>4, OneMovesAlone
<1> QED BY <1>2, <1>5 DEF Stutters

LEMMA CheckStep ==
  ASSUME NEW m \in TransferValue, NEW p \in Process, Inv(m), CheckRows(p)
  PROVE  Inv(m)' /\ (Stutters \/ Fails(p))
<1>1. /\ call[p] \in Call
      /\ Fit(call[p], p, m, db, wrote[p], HeldBy(rowlock, p), mem[p], depth[p], todo[p], ended[p])
  BY InvFacts
<1>2. todo[p] # <<>> /\ Head(todo[p]).do = "check"
  BY DEF CheckRows, At, Running, Now
<1>3. CASE Legal(call[p], mem[p])
  <2>1. todo' = [todo EXCEPT ![p] = Tail(todo[p])] /\ UNCHANGED <<database, call, mem, redis, scopes, ended>>
    BY <1>3 DEF CheckRows, Advance
  <2>2. Fit(call[p], p, m, db, wrote[p], HeldBy(rowlock, p), mem[p], depth[p], Tail(todo[p]), ended[p])
    BY <1>1, <1>2, <1>3, FitCheck
  <2> QED BY <2>1, <2>2, Rewrites
<1>4. CASE ~Legal(call[p], mem[p])
  <2>1. Raise(p, "refused")
    BY <1>4 DEF CheckRows
  <2> QED BY <1>2, <2>1, RaiseStep DEF Running, Now
<1> QED BY <1>3, <1>4

LEMMA ExpectStep ==
  ASSUME NEW m \in TransferValue, NEW p \in Process, Inv(m), ExpectKnown(p)
  PROVE  Inv(m)' /\ (Stutters \/ Fails(p))
<1>1. /\ call[p] \in Call /\ WellFormed(db)
      /\ Fit(call[p], p, m, db, wrote[p], HeldBy(rowlock, p), mem[p], depth[p], todo[p], ended[p])
  BY InvFacts
<1>2. PICK i : i = Now(p)
  OBVIOUS
<1>3. todo[p] # <<>> /\ Head(todo[p]) = i /\ i.do = "expect"
  BY <1>2 DEF ExpectKnown, At, Running, Now
<1>4. CASE Counterparties(mem[p], call[p].src) \subseteq i.rows \union {Unallocated}
  <2>1. PICK S : S = {call[p].src, Unallocated} \union i.rows \union Touching(mem[p], call[p].src)
    OBVIOUS
  <2>2. todo' = [todo EXCEPT ![p] = Save(S) \o Tail(todo[p])] /\ UNCHANGED <<database, call, mem, redis, scopes, ended>>
    BY <1>2, <1>4, <2>1 DEF ExpectKnown
  <2>3. Fit(call[p], p, m, db, wrote[p], HeldBy(rowlock, p), mem[p], depth[p], Save(S) \o Tail(todo[p]), ended[p])
    BY <1>1, <1>3, <1>4, <2>1, FitExpect
  <2> QED BY <2>2, <2>3, Rewrites
<1>5. CASE ~(Counterparties(mem[p], call[p].src) \subseteq i.rows \union {Unallocated})
  <2>1. Raise(p, "KeyError")
    BY <1>2, <1>5 DEF ExpectKnown
  <2> QED BY <1>3, <2>1, RaiseStep DEF Running, Now
<1> QED BY <1>4, <1>5

LEMMA DecideStep ==
  ASSUME NEW m \in TransferValue, NEW p \in Process, Inv(m), Decide(p)
  PROVE  Inv(m)' /\ Stutters
<1>1. /\ call[p] \in Call /\ WellFormed(db) /\ Seen(p) = View(db, wrote[p])
      /\ Fit(call[p], p, m, db, wrote[p], HeldBy(rowlock, p), mem[p], depth[p], todo[p], ended[p])
  BY InvFacts
<1>2. PICK i : i = Now(p)
  OBVIOUS
<1>3. PICK e : e = Seen(p)
  OBVIOUS
<1>4. PICK c : c = call[p]
  OBVIOUS
<1>5. todo[p] # <<>> /\ Head(todo[p]) = i /\ i.do \in Plans
  BY <1>2 DEF Decide, Running, Now
<1>6. Fit(c, p, m, db, wrote[p], HeldBy(rowlock, p), mem[p], depth[p],
          Chosen(p, i, e) \o Tail(todo[p]), ended[p])
  BY <1>1, <1>3, <1>4, <1>5, FitDecide
<1>7. todo' = [todo EXCEPT ![p] = Chosen(p, i, e) \o Tail(todo[p])] /\ UNCHANGED <<database, call, mem, redis, scopes, ended>>
  BY <1>2, <1>3 DEF Decide
<1> QED BY <1>4, <1>6, <1>7, Rewrites

LEMMA SaveStep ==
  ASSUME NEW m \in TransferValue, NEW p \in Process, Inv(m), SaveRows(p)
  PROVE  Inv(m)' /\ Stutters
<1>1. /\ OnProcesses(todo) /\ OnProcesses(mem) /\ OnProcesses(wrote)
      /\ OnProcesses(depth) /\ OnProcesses(ended) /\ call[p] \in Call /\ WellFormed(db)
      /\ db[Earlier] \in {Gone, m}
      /\ rowlock \in [Row -> Process \union {Nobody}]
      /\ Fit(call[p], p, m, db, wrote[p], HeldBy(rowlock, p), mem[p], depth[p], todo[p], ended[p])
  BY InvFacts
<1>2. PICK S : S = Now(p).rows
  OBVIOUS
<1>3. todo[p] # <<>> /\ Head(todo[p]).do = "save" /\ Head(todo[p]).rows = S
  BY <1>2 DEF SaveRows, At, Running, Now
<1>4. PICK x : x = Written(call[p], p, mem[p], wrote[p], S)
  OBVIOUS
<1>5. /\ call' = call /\ db' = db /\ mem' = mem /\ depth' = depth /\ ended' = ended
      /\ todo' = [todo EXCEPT ![p] = Tail(todo[p])]
      /\ wrote' = [wrote EXCEPT ![p] = x]
      /\ rowlock' = Taken(rowlock, p, S)
      /\ \A r \in S : rowlock[r] \in {Nobody, p}
  BY <1>2, <1>4 DEF SaveRows, Advance, Written, Taken, Available
<1>6. Moved(p, todo, todo') /\ todo'[p] = Tail(todo[p]) /\ Moved(p, wrote, wrote') /\ wrote'[p] = x
  BY <1>1, <1>5 DEF Moved, OnProcesses
<1>7. /\ Fit(call[p], p, m, db, x, HeldBy(rowlock, p) \union S, mem[p], depth[p],
             Tail(todo[p]), ended[p])
      /\ S \subseteq Row
  <2>1. PICK h : h = Head(todo[p]).rows
    OBVIOUS
  <2>2. /\ Fit(call[p], p, m, db, Written(call[p], p, mem[p], wrote[p], h), HeldBy(rowlock, p) \union h,
               mem[p], depth[p], Tail(todo[p]), ended[p])
        /\ h \subseteq Row
    BY <1>1, <1>3, <2>1, FitSave
  <2> QED BY <1>3, <1>4, <2>1, <2>2
<1>8. /\ rowlock' \in [Row -> Process \union {Nobody}]
      /\ HeldBy(rowlock', p) = HeldBy(rowlock, p) \union S
      /\ \A q \in Process \ {p} : HeldBy(rowlock', q) = HeldBy(rowlock, q)
  <2>1. S \in SUBSET Row
    BY <1>7
  <2> QED BY <1>1, <1>5, <2>1, LocksTaken
<1>9. Moves(p)
  BY <1>1, <1>5, <1>6, <1>8, MovedSame DEF Moves
<1>10. Inv(m)'
  BY <1>5, <1>6, <1>7, <1>8, <1>9, OneMovesAlone
<1> QED BY <1>5, <1>10 DEF Stutters

LEMMA FitWaits ==
  ASSUME NEW c, NEW p, NEW m, NEW d, NEW w, NEW K, NEW o, NEW n, NEW s,
         Fit(c, p, m, d, w, K, o, n, s, "no")
  PROVE  d[p] = Gone
BY DEF Fit, Holds

LEMMA EndStep ==
  ASSUME NEW m \in TransferValue, NEW p \in Process, Inv(m), End(p)
  PROVE  Inv(m)' /\ (Stutters \/ Commits(p))
<1>1. /\ OnProcesses(todo) /\ OnProcesses(mem) /\ OnProcesses(wrote)
      /\ OnProcesses(depth) /\ OnProcesses(ended) /\ call[p] \in Call /\ WellFormed(db)
      /\ db[Earlier] \in {Gone, m}
      /\ rowlock \in [Row -> Process \union {Nobody}]
      /\ Fit(call[p], p, m, db, wrote[p], HeldBy(rowlock, p), mem[p], depth[p], todo[p], ended[p])
      /\ Seen(p) = View(db, wrote[p])
  BY InvFacts
<1>2. todo[p] # <<>> /\ Head(todo[p]).do = "end"
  BY DEF End, At, Running, Now
<1>3. /\ call' = call /\ todo' = [todo EXCEPT ![p] = Tail(todo[p])]
      /\ depth' = [depth EXCEPT ![p] = depth[p] - 1]
  BY DEF End, Advance
<1>4. /\ Moved(p, todo, todo') /\ todo'[p] = Tail(todo[p])
      /\ Moved(p, depth, depth') /\ depth'[p] = depth[p] - 1
  BY <1>1, <1>3 DEF Moved, OnProcesses
<1>5. CASE depth[p] > 1
  <2>1. db' = db /\ wrote' = wrote /\ rowlock' = rowlock /\ mem' = mem /\ ended' = ended
    BY <1>5 DEF End
  <2>2. Moves(p)
    BY <1>1, <1>3, <1>4, <2>1, MovedSame DEF Moves
  <2>3. Fit(call[p], p, m, db, wrote[p], HeldBy(rowlock, p), mem[p], depth[p] - 1, Tail(todo[p]),
            ended[p])
    BY <1>1, <1>2, <1>5, FitEndInner
  <2>4. Inv(m)'
    BY <1>4, <2>1, <2>2, <2>3, OneMovesAlone
  <2> QED BY <1>3, <2>1, <2>4 DEF Stutters
<1>6. CASE ~(depth[p] > 1)
  <2>1. /\ db' = View(db, wrote[p]) /\ wrote' = [wrote EXCEPT ![p] = <<>>]
        /\ mem' = [mem EXCEPT ![p] = Unread]
        /\ rowlock' = [r \in Row |-> IF rowlock[r] = p THEN Nobody ELSE rowlock[r]]
        /\ ended' = [ended EXCEPT ![p] = "committed"]
    BY <1>1, <1>6 DEF End
  <2>2. /\ Moved(p, wrote, wrote') /\ wrote'[p] = <<>> /\ Moved(p, mem, mem')
        /\ Moved(p, ended, ended') /\ ended'[p] = "committed"
    BY <1>1, <2>1 DEF Moved, OnProcesses
  <2>3. /\ rowlock' \in [Row -> Process \union {Nobody}] /\ HeldBy(rowlock', p) = {}
        /\ \A q \in Process \ {p} : HeldBy(rowlock', q) = HeldBy(rowlock, q)
    BY <1>1, <2>1, LocksFreed
  <2>4. Moves(p)
    BY <1>3, <1>4, <2>2, <2>3 DEF Moves
  <2>5. ended'[p] # "no"
    BY <2>2
  <2>6. /\ Legal(call[p], db) /\ View(db, wrote[p]) = Effect(call[p], p, db)
        /\ WellFormed(View(db, wrote[p])) /\ View(db, wrote[p])[Earlier] \in {Gone, m}
        /\ ended[p] = "no" /\ depth[p] = 1 /\ db[p] = Gone
        /\ Guarded(p, db, wrote[p], HeldBy(rowlock, p))
        /\ Sound(call[p], p, m, Done, Tail(todo[p]), Done)
    BY <1>1, <1>2, <1>6, FitCommit
  <2>7. Rows(m)'
    <3>1. WellFormed(db') /\ db'[Earlier] \in {Gone, m}
      BY <2>1, <2>6
    <3> QED BY <3>1 DEF Rows
  <2>8. ASSUME NEW q \in Process, q # p, ended[q] = "no"
        PROVE  Spares(q, HeldBy(rowlock, q), db, db')
    <3>1. Fit(call[q], q, m, db, wrote[q], HeldBy(rowlock, q), mem[q], depth[q], todo[q], "no")
      BY <2>8, InvFacts
    <3>2. db[q] = Gone
      BY <3>1, FitWaits
    <3>3. HeldBy(rowlock, q) \intersect HeldBy(rowlock, p) = {}
      BY <2>8 DEF HeldBy
    <3>4. HeldBy(rowlock, q) \subseteq Row /\ HeldBy(rowlock, p) \subseteq Row
      BY DEF HeldBy
    <3>5. db' = [r \in Row |-> IF r \in DOMAIN wrote[p] THEN wrote[p][r] ELSE db[r]]
      BY <2>1 DEF View
    <3> QED BY <1>1, <2>6, <2>8, <3>2, <3>3, <3>4, <3>5, CommitSpares
  <2>9. depth'[p] = 0
    BY <1>4, <2>6
  <2>10. Fit(call[p], p, m, db', wrote'[p], HeldBy(rowlock', p), mem'[p], 0, Tail(todo[p]), ended'[p])
    BY <2>2, <2>3, <2>5, <2>6, FitGone
  <2>11. Inv(m)'
    BY <1>4, <2>4, <2>7, <2>8, <2>9, <2>10, OneMoves
  <2>12. Commits(p)
    BY <1>3, <2>1, <2>2, <2>5, <2>6 DEF Commits, EndsNow
  <2> QED BY <2>11, <2>12
<1> QED BY <1>5, <1>6

LEMMA Unmoved ==
  ASSUME NEW m \in TransferValue, Inv(m), UNCHANGED <<database, call, todo, mem, ended>>
  PROVE  Inv(m)' /\ Stutters
<1>1. /\ call' = call /\ db' = db /\ mem' = mem /\ wrote' = wrote /\ depth' = depth
      /\ ended' = ended /\ rowlock' = rowlock /\ todo' = todo
  BY DEF database
<1>2. Shaped' /\ Rows(m)'
  BY <1>1 DEF Inv, Shaped, Rows
<1>3. \A q \in Process : InStep(m, q)'
  BY <1>1 DEF Inv, InStep
<1> QED BY <1>1, <1>2, <1>3 DEF Inv, Stutters

LEMMA NextStep ==
  ASSUME NEW m \in TransferValue, Inv(m), [Next]_vars
  PROVE  Inv(m)' /\ (Stutters \/ \E p \in Process : Fails(p) \/ Commits(p))
<1>1. ASSUME NEW p \in Process, Step(p)
      PROVE  Inv(m)' /\ (Stutters \/ Fails(p) \/ Commits(p))
  <2>1. CASE Acquire(p)
    BY <2>1, AcquireStep
  <2>2. CASE TryAcquire(p)
    BY <2>2, TryStep
  <2>3. CASE Release(p)
    BY <2>3, ReleaseStep
  <2>4. CASE Begin(p)
    BY <2>4, BeginStep
  <2>5. CASE End(p)
    BY <2>5, EndStep
  <2>6. CASE LockRow(p)
    BY <2>6, LockStep
  <2>7. CASE LoadRows(p)
    BY <2>7, LoadStep
  <2>8. CASE SaveRows(p)
    BY <2>8, SaveStep
  <2>9. CASE CheckRows(p)
    BY <2>9, CheckStep
  <2>10. CASE ExpectKnown(p)
    BY <2>10, ExpectStep
  <2>11. CASE Decide(p)
    BY <2>11, DecideStep
  <2> QED BY <1>1, <2>1, <2>2, <2>3, <2>4, <2>5, <2>6, <2>7, <2>8, <2>9, <2>10, <2>11 DEF Step
<1>2. ASSUME NEW p \in Process, BusyTimeout(p)
      PROVE  Inv(m)' /\ Fails(p)
  <2>1. Running(p) /\ Now(p).do = "begin" /\ Raise(p, "refused")
    BY <1>2 DEF BusyTimeout, At
  <2> QED BY <2>1, RaiseStep
<1>3. ASSUME NEW p \in Process, Crash(p)
      PROVE  Inv(m)' /\ (Stutters \/ Fails(p))
  BY <1>3, CrashStep
<1>4. ASSUME NEW k \in Lockable, Expire(k)
      PROVE  Inv(m)' /\ Stutters
  BY <1>4, Unmoved DEF Expire
<1>5. ASSUME UNCHANGED vars
      PROVE  Inv(m)' /\ Stutters
  BY <1>5, Unmoved DEF vars
<1> QED BY <1>1, <1>2, <1>3, <1>4, <1>5 DEF Next, Finished

\* Every process knows the transfer that a call may reverse.
IInv == \E m \in TransferValue : Inv(m)

LEMMA FitStart ==
  ASSUME NEW c \in Call, NEW p \in Process, NEW m \in TransferValue, NEW d, NEW o, NEW s,
         d[p] = Gone, o = [r \in Row |-> o[r]], Sound(c, p, m, Working(0), s, Done)
  PROVE  Fit(c, p, m, d, <<>>, {}, o, 0, s, "no")
<1>1. PICK a \in Label : a = Working(0)
  BY PlainLabels
<1>2. /\ a.stage = "work" /\ a.deep = 0 /\ a.fresh = {} /\ a.saved = {} /\ a.fact = "none"
  BY <1>1, WorkFields DEF Working
<1>3. PICK w : w = <<>>
  OBVIOUS
<1>4. DOMAIN w = {} /\ w = [r \in DOMAIN w |-> w[r]]
  BY <1>3
<1>5. Guarded(p, d, w, {})
  BY <1>4 DEF Guarded
<1>6. Snap(c, p, a.fresh, a.saved, o, d, w, {})
  BY <1>2, <1>4 DEF Snap
<1>7. Found(c, a, o, d)
  BY <1>2 DEF Found
<1>8. Holds(c, p, m, a, d, w, {}, o)
  BY <1>2, <1>5, <1>6, <1>7, WorkHolds
<1> QED BY <1>1, <1>2, <1>3, <1>4, <1>8 DEF Fit

LEMMA InitInv ==
  ASSUME \A s \in Start : LocksItsRows(s), Init
  PROVE  IInv
<1>1. PICK s \in Start : db = s.db /\ call = s.call
  BY DEF Init
<1>2. /\ WellFormed(db) /\ call \in [Process -> Call]
      /\ \A p \in Process : /\ db[p] = Gone /\ call[p].op \notin {"fund", "rename", "unpost"}
                            /\ call[p].op = "reverse" => db[Earlier] # Gone
  BY <1>1 DEF LocksItsRows
<1>3. PICK m \in TransferValue : db[Earlier] \in {Gone, m} /\ (db[Earlier] # Gone => db[Earlier] = m)
  <2>1. CASE db[Earlier] = Gone
    <3>1. Move(Unallocated, Unallocated, 0) \in TransferValue
      BY RowKinds DEF Move, TransferValue
    <3> QED BY <2>1, <3>1
  <2>2. CASE db[Earlier] # Gone
    <3>1. db[Earlier] \in TransferValue
      BY <1>2, <2>2, WellFormedRows, RowKinds
    <3> QED BY <2>2, <3>1
  <2> QED BY <2>1, <2>2
<1>4. Unread = [r \in Row |-> Unread[r]]
  <2>1. LocksItsRows(CHOOSE x \in Start : TRUE)
    BY <1>1
  <2> QED BY <2>1, WellFormedRows DEF LocksItsRows, Unread
<1>5. /\ todo = [p \in Process |-> Run(call[p], p)] /\ mem = [p \in Process |-> Unread]
      /\ wrote = [p \in Process |-> <<>>] /\ rowlock = [r \in Row |-> Nobody]
      /\ depth = [p \in Process |-> 0] /\ ended = [p \in Process |-> "no"]
  BY DEF Init
<1>6. Shaped
  <2>1. \A p \in Process : call[p].op \in Core
    BY <1>2 DEF Core, Call
  <2>2. rowlock \in [Row -> Process \union {Nobody}]
    BY <1>5
  <2>3. /\ OnProcesses(todo) /\ OnProcesses(mem) /\ OnProcesses(wrote)
        /\ OnProcesses(depth) /\ OnProcesses(ended)
    BY <1>5 DEF OnProcesses
  <2> QED BY <1>2, <2>1, <2>2, <2>3 DEF Shaped
<1>7. Rows(m)
  BY <1>2, <1>3 DEF Rows
<1>8. ASSUME NEW p \in Process PROVE InStep(m, p)
  <2>1. Sound(call[p], p, m, Working(0), Run(call[p], p), Done)
    BY <1>2, <1>3, SoundRun
  <2>2. HeldBy(rowlock, p) = {}
    BY <1>5, NobodyAssumption DEF HeldBy
  <2>3. todo[p] = Run(call[p], p) /\ mem[p] = Unread /\ wrote[p] = <<>> /\ depth[p] = 0 /\ ended[p] = "no"
    BY <1>5
  <2>4. call[p] \in Call /\ db[p] = Gone
    BY <1>2
  <2>5. Fit(call[p], p, m, db, <<>>, {}, Unread, 0, Run(call[p], p), "no")
    BY <1>4, <2>1, <2>4, FitStart
  <2> QED BY <2>2, <2>3, <2>5 DEF InStep
<1> QED BY <1>6, <1>7, <1>8 DEF IInv, Inv

LEMMA StepInv ==
  ASSUME IInv, [Next]_vars
  PROVE  IInv' /\ (Stutters \/ \E p \in Process : Fails(p) \/ Commits(p))
BY NextStep DEF IInv

-----------------------------------------------------------------------------
(* SerialCalls speaks of the same calls.                                     *)

LEMMA SerialSum ==
  ASSUME NEW f
  PROVE  Serial!SumFunction(f) = SumFunction(f)
BY DEF Serial!SumFunction, SumFunction, Serial!SumFunctionOnSet, SumFunctionOnSet,
       Serial!FoldFunctionOnSet, FoldFunctionOnSet, Serial!MapThenFoldSet, MapThenFoldSet

LEMMA SerialRows ==
  /\ Serial!Row = Row
  /\ \A s, t, n : Serial!Move(s, t, n) = Move(s, t, n)
  /\ \A m : Serial!Ends(m) = Ends(m)
  /\ \A m, b : Serial!Gain(m, b) = Gain(m, b)
  /\ \A v, b : Serial!Touching(v, b) = Touching(v, b)
  /\ \A v, b : Serial!Counterparties(v, b) = Counterparties(v, b)
BY DEF Serial!Row, Row, Serial!Transfers, Transfers, Serial!Move, Move, Serial!Ends, Ends,
       Serial!Gain, Gain, Serial!Touching, Touching, Serial!Counterparties, Counterparties

LEMMA SerialEffect ==
  ASSUME NEW c, NEW p, NEW v
  PROVE  Serial!Effect(c, p, v) = Effect(c, p, v)
<1>1. Serial!AfterDrop(v, c.src) = AfterDrop(v, c.src)
  BY SerialRows, SerialSum DEF Serial!AfterDrop, AfterDrop
<1>2. \A m : Serial!AfterMove(v, p, m) = AfterMove(v, p, m)
  BY SerialRows DEF Serial!AfterMove, AfterMove
<1>3. Serial!AfterReverse(v) = AfterReverse(v)
  BY SerialRows DEF Serial!AfterReverse, AfterReverse
<1>4. Serial!AfterPost(v) = AfterPost(v)
  BY DEF Serial!AfterPost, AfterPost
<1>5. Serial!AfterArchive(v, p, c.src) = AfterArchive(v, p, c.src)
  BY <1>2, SerialRows DEF Serial!AfterArchive, AfterArchive
<1>6. Serial!AfterFund(v) = AfterFund(v)
  BY SerialRows DEF Serial!AfterFund, AfterFund
<1>7. Serial!AfterCreate(v) = AfterCreate(v)
  BY DEF Serial!AfterCreate, AfterCreate
<1>8. Serial!AfterResolve(v) = AfterResolve(v)
  BY DEF Serial!AfterResolve, AfterResolve
<1>9. Serial!AfterSplit(v, c.dst) = AfterSplit(v, c.dst)
  BY SerialRows DEF Serial!AfterSplit, AfterSplit
<1>10. Serial!AfterDelete(v) = AfterDelete(v)
  BY DEF Serial!AfterDelete, AfterDelete
<1> QED BY <1>1, <1>2, <1>3, <1>4, <1>5, <1>6, <1>7, <1>8, <1>9, <1>10, SerialRows
        DEF Serial!Effect, Effect

LEMMA SerialLegal ==
  ASSUME NEW c, NEW v
  PROVE  Serial!Legal(c, v) = Legal(c, v)
BY DEF Serial!Legal, Legal

Unended == {p \in Process : ended[p] = "no"}

LEMMA EndsOnce ==
  ASSUME NEW p \in Process, EndsNow(p)
  PROVE  p \in Unended /\ Unended' = Unended \ {p} /\ call' = call
BY DEF EndsNow, Moved, Unended

LEMMA SerialStep ==
  ASSUME IInv, [Next]_vars
  PROVE  [Serial!Next]_<<db, call, Unended>>
<1>1. CASE Stutters
  BY <1>1 DEF Stutters, Unended
<1>2. ASSUME NEW p \in Process, Fails(p) \/ Commits(p)
      PROVE  Serial!Next
  <2>1. p \in Unended /\ Unended' = Unended \ {p} /\ call' = call
    BY <1>2, EndsOnce DEF Fails, Commits
  <2>2. Serial!Perform(p) \/ Serial!Fail(p)
    <3>1. CASE Fails(p)
      BY <3>1 DEF Fails, Serial!Fail
    <3>2. CASE Commits(p)
      BY <3>2, SerialEffect, SerialLegal DEF Commits, Serial!Perform
    <3> QED BY <1>2, <3>1, <3>2
  <2> QED BY <2>1, <2>2 DEF Serial!Next, Unended
<1> QED BY <1>1, <1>2, StepInv

\* "Correctness of balances rests on the database locks" (locks.py:25): any number of
\* calls that lock the rows they save, run by processes that may crash, with Redis locks
\* that may lapse and on either engine, leave what they leave when performed one after
\* another in some order; a call that fails leaves nothing.
THEOREM SerializableCorrect ==
  ASSUME \A s \in Start : LocksItsRows(s)
  PROVE  Spec => Serializable
<1>1. Init => IInv
  BY InitInv
<1>2. IInv /\ [Next]_vars => IInv'
  BY StepInv
<1>3. Init => Serial!Init
  BY DEF Init, Serial!Init
<1>4. IInv /\ [Next]_vars => [Serial!Next]_<<db, call, {p \in Process : ended[p] = "no"}>>
  BY SerialStep DEF Unended
<1> QED BY <1>1, <1>2, <1>3, <1>4, PTL DEF Spec, Serializable, Serial!Spec

\* No transaction ends with row locks left behind, and no row is written that the
\* transaction has not locked.
LEMMA FitLocks ==
  ASSUME NEW c, NEW p, NEW m, NEW d, NEW w, NEW K, NEW o, NEW n, NEW s, NEW t,
         Fit(c, p, m, d, w, K, o, n, s, t)
  PROVE  n \in 0..3 /\ (n = 0 => K = {}) /\ DOMAIN w \subseteq K
<1>1. PICK a \in Label : a.deep = n /\ (n = 0 => K = {}) /\ Holds(c, p, m, a, d, w, K, o)
  BY DEF Fit
<1>2. DOMAIN w \subseteq K
  BY <1>1 DEF Holds, Guarded
<1> QED BY <1>1, <1>2, LabelIs

LEMMA RowLocksHeld ==
  ASSUME IInv
  PROVE  WritesLocked /\ depth \in [Process -> 0..3]
<1> SUFFICES ASSUME NEW m \in TransferValue, Inv(m)
             PROVE  WritesLocked /\ depth \in [Process -> 0..3]
  BY DEF IInv
<1>1. rowlock \in [Row -> Process \union {Nobody}] /\ OnProcesses(depth)
  BY DEF Inv, Shaped
<1>2. ASSUME NEW p \in Process
      PROVE  /\ depth[p] \in 0..3 /\ (depth[p] = 0 => HeldBy(rowlock, p) = {})
             /\ DOMAIN wrote[p] \subseteq HeldBy(rowlock, p)
  BY FitLocks DEF Inv, InStep
<1>3. ASSUME NEW r \in Row, rowlock[r] # Nobody PROVE depth[rowlock[r]] > 0
  <2>1. rowlock[r] \in Process /\ r \in HeldBy(rowlock, rowlock[r])
    BY <1>1, <1>3 DEF HeldBy
  <2>2. depth[rowlock[r]] \in 0..3 /\ depth[rowlock[r]] # 0
    BY <1>2, <2>1
  <2> QED BY <2>2
<1>4. ASSUME NEW p \in Process, NEW r \in DOMAIN wrote[p] PROVE rowlock[r] = p
  BY <1>2 DEF HeldBy
<1>5. depth \in [Process -> 0..3]
  BY <1>1, <1>2 DEF OnProcesses
<1> QED BY <1>3, <1>4, <1>5 DEF WritesLocked

-----------------------------------------------------------------------------
(* The Redis locks of a program: every block it opens it also leaves.        *)

\* With n blocks open before instruction i of call c, k are open after it; a recheck goes
\* on with a program that leaves the blocks of the budgets it knows.
Opens(c, i, n, k) ==
  \/ i.do = "acquire" /\ i.row \in Lockable /\ k = n + 1
  \/ i.do = "release" /\ n > 0 /\ k = n - 1
  \/ i.do = "recheck" /\ i.rows \in SUBSET Budget /\ n = k + Len(Doomed(c.src, i.rows))
  \/ i.do \in Opcodes \ {"acquire", "release", "recheck"} /\ k = n

\* Program s leads from n open blocks to k, by the numbers f at its points.
Blocks(c, s, f) ==
  /\ f \in [0..Len(s) -> Nat]
  /\ \A j \in 1..Len(s) : Opens(c, s[j], f[j - 1], f[j])
Nested(c, n, s, k) ==
  /\ s \in Seq(Instruction)
  /\ \E f : Blocks(c, s, f) /\ f[0] = n /\ f[Len(s)] = k

\* A program that leaves what it opens, whatever is open around it.
Balanced(c, s) == \A n \in Nat : Nested(c, n, s, n)

LEMMA NestedEnds ==
  ASSUME NEW c, NEW n, NEW s, NEW k, Nested(c, n, s, k)
  PROVE  n \in Nat /\ k \in Nat /\ s \in Seq(Instruction) /\ (s = <<>> => n = k)
<1>1. s \in Seq(Instruction) /\ Len(s) \in Nat
  BY LenProperties DEF Nested
<1>2. PICK f : Blocks(c, s, f) /\ f[0] = n /\ f[Len(s)] = k
  BY DEF Nested
<1>3. f \in [0..Len(s) -> Nat] /\ 0 \in 0..Len(s) /\ Len(s) \in 0..Len(s)
  BY <1>1, <1>2 DEF Blocks
<1>4. s = <<>> => Len(s) = 0
  BY <1>1
<1> QED BY <1>1, <1>2, <1>3, <1>4

LEMMA NestedEmpty ==
  ASSUME NEW c, NEW n \in Nat
  PROVE  Nested(c, n, <<>>, n)
<1>1. <<>> \in Seq(Instruction) /\ Len(<<>>) = 0
  BY EmptySeq
<1> DEFINE f == [k \in 0..0 |-> n]
<1>2. f \in [0..Len(<<>>) -> Nat] /\ f[0] = n /\ f[Len(<<>>)] = n
  BY <1>1
<1>3. 1..Len(<<>>) = {}
  BY <1>1
<1>4. Blocks(c, <<>>, f)
  BY <1>2, <1>3 DEF Blocks
<1> QED BY <1>1, <1>2, <1>4 DEF Nested

LEMMA NestedOne ==
  ASSUME NEW c, NEW n \in Nat, NEW k \in Nat, NEW i \in Instruction, Opens(c, i, n, k)
  PROVE  Nested(c, n, <<i>>, k)
<1>1. <<i>> \in Seq(Instruction) /\ Len(<<i>>) = 1 /\ <<i>>[1] = i
  OBVIOUS
<1> DEFINE f == [j \in 0..1 |-> IF j = 0 THEN n ELSE k]
<1>2. f \in [0..Len(<<i>>) -> Nat] /\ f[0] = n /\ f[1] = k /\ f[Len(<<i>>)] = k
  BY <1>1
<1>3. ASSUME NEW j \in 1..Len(<<i>>) PROVE j = 1 /\ j - 1 = 0
  BY <1>1
<1> HIDE DEF f
<1>4. Blocks(c, <<i>>, f)
  <2>1. ASSUME NEW j \in 1..Len(<<i>>) PROVE Opens(c, <<i>>[j], f[j - 1], f[j])
    <3>1. f[j - 1] = n /\ f[j] = k /\ <<i>>[j] = i
      BY <1>1, <1>2, <1>3
    <3> QED BY <3>1
  <2> QED BY <1>2, <2>1 DEF Blocks
<1> QED BY <1>1, <1>2, <1>4 DEF Nested

LEMMA NestedConcat ==
  ASSUME NEW c, NEW n, NEW k, NEW l, NEW s, NEW t, Nested(c, n, s, k), Nested(c, k, t, l)
  PROVE  Nested(c, n, s \o t, l)
<1>1. /\ s \in Seq(Instruction) /\ t \in Seq(Instruction)
      /\ Len(s) \in Nat /\ Len(t) \in Nat
  BY LenProperties DEF Nested
<1>2. /\ s \o t \in Seq(Instruction) /\ Len(s \o t) = Len(s) + Len(t)
      /\ \A j \in 1..Len(s) + Len(t) :
           (s \o t)[j] = IF j <= Len(s) THEN s[j] ELSE t[j - Len(s)]
  BY <1>1, ConcatProperties
<1>3. PICK f : Blocks(c, s, f) /\ f[0] = n /\ f[Len(s)] = k
  BY DEF Nested
<1>4. PICK g : Blocks(c, t, g) /\ g[0] = k /\ g[Len(t)] = l
  BY DEF Nested
<1>5. /\ f \in [0..Len(s) -> Nat] /\ g \in [0..Len(t) -> Nat]
      /\ \A j \in 1..Len(s) : Opens(c, s[j], f[j - 1], f[j])
      /\ \A j \in 1..Len(t) : Opens(c, t[j], g[j - 1], g[j])
  BY <1>3, <1>4 DEF Blocks
<1> DEFINE h == [j \in 0..Len(s) + Len(t) |-> IF j <= Len(s) THEN f[j] ELSE g[j - Len(s)]]
<1>6. h \in [0..Len(s) + Len(t) -> Nat]
  <2>1. ASSUME NEW j \in 0..Len(s) + Len(t)
        PROVE (IF j <= Len(s) THEN f[j] ELSE g[j - Len(s)]) \in Nat
    <3>1. CASE j <= Len(s)
      BY <1>1, <1>5, <3>1
    <3>2. CASE ~(j <= Len(s))
      <4>1. j - Len(s) \in 0..Len(t)
        BY <1>1, <3>2
      <4> QED BY <1>5, <3>2, <4>1
    <3> QED BY <3>1, <3>2
  <2> QED BY <2>1
<1>7. ASSUME NEW j \in 1..Len(s) + Len(t)
      PROVE  Opens(c, (s \o t)[j], h[j - 1], h[j])
  <2>1. CASE j <= Len(s)
    <3>1. j \in 1..Len(s) /\ j - 1 <= Len(s) /\ j - 1 \in 0..Len(s) + Len(t)
      BY <1>1, <2>1
    <3>2. h[j - 1] = f[j - 1] /\ h[j] = f[j] /\ (s \o t)[j] = s[j]
      BY <1>1, <1>2, <2>1, <3>1
    <3> QED BY <1>5, <3>1, <3>2
  <2>2. CASE j = Len(s) + 1
    <3>1. 1 \in 1..Len(t) /\ ~(j <= Len(s)) /\ j - Len(s) = 1 /\ j - 1 = Len(s)
      BY <1>1, <2>2
    <3>2. h[j - 1] = g[0] /\ h[j] = g[1] /\ (s \o t)[j] = t[1]
      BY <1>1, <1>2, <1>3, <1>4, <3>1
    <3>3. Opens(c, t[1], g[1 - 1], g[1])
      BY <1>5, <3>1
    <3> QED BY <3>2, <3>3
  <2>3. CASE j > Len(s) + 1
    <3> DEFINE i == j - Len(s)
    <3>1. /\ i \in 1..Len(t) /\ ~(j <= Len(s)) /\ ~(j - 1 <= Len(s))
          /\ j - 1 - Len(s) = i - 1 /\ j - 1 \in 0..Len(s) + Len(t)
      BY <1>1, <2>3
    <3>2. h[j - 1] = g[i - 1] /\ h[j] = g[i] /\ (s \o t)[j] = t[i]
      BY <1>1, <1>2, <3>1
    <3>3. Opens(c, t[i], g[i - 1], g[i])
      BY <1>5, <3>1
    <3> QED BY <3>2, <3>3
  <2> QED BY <1>1, <2>1, <2>2, <2>3
<1>8. h[0] = n /\ h[Len(s) + Len(t)] = l
  <2>1. h[0] = f[0]
    BY <1>1
  <2>2. CASE Len(t) = 0
    BY <1>1, <1>3, <1>4, <2>2
  <2>3. CASE Len(t) # 0
    <3>1. /\ ~(Len(s) + Len(t) <= Len(s)) /\ Len(s) + Len(t) - Len(s) = Len(t)
          /\ Len(s) + Len(t) \in 0..Len(s) + Len(t)
      BY <1>1, <2>3
    <3>2. h[Len(s) + Len(t)] = g[Len(t)]
      BY <3>1
    <3> QED BY <1>3, <1>4, <2>1, <3>2
  <2> QED BY <1>3, <2>1, <2>2, <2>3
<1> HIDE DEF h
<1>9. Blocks(c, s \o t, h)
  BY <1>2, <1>6, <1>7 DEF Blocks
<1> QED BY <1>2, <1>8, <1>9 DEF Nested

LEMMA NestedStep ==
  ASSUME NEW c, NEW n, NEW k, NEW s, s # <<>>, Nested(c, n, s, k)
  PROVE  /\ Head(s) \in Instruction
         /\ \E l \in Nat : Opens(c, Head(s), n, l) /\ Nested(c, l, Tail(s), k)
<1>1. s \in Seq(Instruction)
  BY DEF Nested
<1>2. /\ Head(s) \in Instruction /\ Tail(s) \in Seq(Instruction)
      /\ Len(Tail(s)) = Len(s) - 1 /\ Len(s) \in Nat \ {0} /\ Head(s) = s[1]
      /\ \A j \in 1..Len(Tail(s)) : Tail(s)[j] = s[j + 1]
  BY <1>1, HeadTailProperties, EmptySeq
<1>3. PICK f : Blocks(c, s, f) /\ f[0] = n /\ f[Len(s)] = k
  BY DEF Nested
<1>4. /\ f \in [0..Len(s) -> Nat]
      /\ \A j \in 1..Len(s) : Opens(c, s[j], f[j - 1], f[j])
  BY <1>3 DEF Blocks
<1>5. f[1] \in Nat /\ Opens(c, Head(s), n, f[1])
  <2>1. 1 \in 1..Len(s) /\ 1 \in 0..Len(s)
    BY <1>2
  <2>2. Opens(c, s[1], f[1 - 1], f[1])
    BY <1>4, <2>1
  <2> QED BY <1>2, <1>3, <1>4, <2>1, <2>2
<1> DEFINE g == [j \in 0..Len(Tail(s)) |-> f[j + 1]]
<1>6. g \in [0..Len(Tail(s)) -> Nat] /\ g[0] = f[1] /\ g[Len(Tail(s))] = k
  BY <1>2, <1>3, <1>4
<1>7. ASSUME NEW j \in 1..Len(Tail(s)) PROVE Opens(c, Tail(s)[j], g[j - 1], g[j])
  <2>1. j + 1 \in 1..Len(s) /\ j + 1 - 1 = j /\ j - 1 + 1 = j
    BY <1>2
  <2>2. Opens(c, s[j + 1], f[j], f[j + 1])
    BY <1>4, <2>1
  <2>3. g[j - 1] = f[j] /\ g[j] = f[j + 1] /\ Tail(s)[j] = s[j + 1]
    BY <1>2, <2>1
  <2> QED BY <2>2, <2>3
<1> HIDE DEF g
<1>8. Blocks(c, Tail(s), g)
  BY <1>6, <1>7 DEF Blocks
<1> QED BY <1>2, <1>5, <1>6, <1>8 DEF Nested

\* Locks of Redis, taken and given back.
LEMMA NestedAcquires ==
  ASSUME NEW c, NEW n \in Nat, NEW s \in Seq(Row), \A j \in 1..Len(s) : s[j] \in Lockable
  PROVE  Nested(c, n, Each("acquire", s), n + Len(s))
<1>1. /\ Each("acquire", s) \in Seq(Instruction) /\ Len(Each("acquire", s)) = Len(s)
      /\ \A j \in 1..Len(s) : Each("acquire", s)[j] = Do("acquire", s[j]) /\ s[j] \in Row
  <2>1. "acquire" \in Opcodes
    BY DEF Opcodes
  <2> QED BY <2>1, EachInstruction
<1>2. Len(s) \in Nat
  BY LenProperties
<1> DEFINE f == [j \in 0..Len(s) |-> n + j]
<1>3. f \in [0..Len(s) -> Nat] /\ f[0] = n /\ f[Len(s)] = n + Len(s)
  BY <1>2
<1>4. ASSUME NEW j \in 1..Len(s) PROVE Opens(c, Each("acquire", s)[j], f[j - 1], f[j])
  <2>1. f[j - 1] + 1 = f[j]
    BY <1>2
  <2> HIDE DEF f
  <2>2. Opens(c, Do("acquire", s[j]), f[j - 1], f[j])
    BY <2>1 DEF Opens, Do
  <2> QED BY <1>1, <2>2
<1> HIDE DEF f
<1>5. Blocks(c, Each("acquire", s), f)
  BY <1>1, <1>3, <1>4 DEF Blocks
<1> QED BY <1>1, <1>3, <1>5 DEF Nested

LEMMA NestedReleases ==
  ASSUME NEW c, NEW n \in Nat, NEW s \in Seq(Row)
  PROVE  Nested(c, n + Len(s), Each("release", s), n)
<1>1. /\ Each("release", s) \in Seq(Instruction) /\ Len(Each("release", s)) = Len(s)
      /\ \A j \in 1..Len(s) : Each("release", s)[j] = Do("release", s[j]) /\ s[j] \in Row
  <2>1. "release" \in Opcodes
    BY DEF Opcodes
  <2> QED BY <2>1, EachInstruction
<1>2. Len(s) \in Nat
  BY LenProperties
<1> DEFINE f == [j \in 0..Len(s) |-> n + Len(s) - j]
<1>3. f \in [0..Len(s) -> Nat] /\ f[0] = n + Len(s) /\ f[Len(s)] = n
  BY <1>2
<1>4. ASSUME NEW j \in 1..Len(s) PROVE Opens(c, Each("release", s)[j], f[j - 1], f[j])
  <2>1. f[j - 1] > 0 /\ f[j] = f[j - 1] - 1
    BY <1>2
  <2> HIDE DEF f
  <2>2. Opens(c, Do("release", s[j]), f[j - 1], f[j])
    BY <2>1 DEF Opens, Do
  <2> QED BY <1>1, <2>2
<1> HIDE DEF f
<1>5. Blocks(c, Each("release", s), f)
  BY <1>1, <1>3, <1>4 DEF Blocks
<1> QED BY <1>1, <1>3, <1>5 DEF Nested

LEMMA BalancedEmpty ==
  ASSUME NEW c
  PROVE  Balanced(c, <<>>)
BY NestedEmpty DEF Balanced

LEMMA BalancedConcat ==
  ASSUME NEW c, NEW s, NEW t, Balanced(c, s), Balanced(c, t)
  PROVE  Balanced(c, s \o t)
BY NestedConcat DEF Balanced

\* Instructions that no Redis lock is about.
Plain == Opcodes \ {"acquire", "release", "recheck"}

LEMMA BalancedOne ==
  ASSUME NEW c, NEW i \in Instruction, i.do \in Plain
  PROVE  Balanced(c, <<i>>)
<1>1. ASSUME NEW n \in Nat PROVE Opens(c, i, n, n)
  BY DEF Opens, Plain
<1> QED BY <1>1, NestedOne DEF Balanced

LEMMA BalancedEach ==
  ASSUME NEW c, NEW what \in Plain, NEW s \in Seq(Row)
  PROVE  Balanced(c, Each(what, s))
<1>1. /\ Each(what, s) \in Seq(Instruction) /\ Len(Each(what, s)) = Len(s)
      /\ \A j \in 1..Len(s) : Each(what, s)[j] = Do(what, s[j]) /\ s[j] \in Row
  <2>1. what \in Opcodes
    BY DEF Plain
  <2> QED BY <2>1, EachInstruction
<1>2. Len(s) \in Nat
  BY LenProperties
<1> SUFFICES ASSUME NEW n \in Nat PROVE Nested(c, n, Each(what, s), n)
  BY DEF Balanced
<1> DEFINE f == [j \in 0..Len(s) |-> n]
<1>3. f \in [0..Len(s) -> Nat] /\ f[0] = n /\ f[Len(s)] = n
  BY <1>2
<1>4. ASSUME NEW j \in 1..Len(s) PROVE Opens(c, Each(what, s)[j], f[j - 1], f[j])
  <2>1. f[j - 1] = n /\ f[j] = n
    BY <1>2
  <2> HIDE DEF f
  <2>2. Opens(c, Do(what, s[j]), n, n)
    BY DEF Opens, Do, Plain
  <2> QED BY <1>1, <2>1, <2>2
<1> HIDE DEF f
<1>5. Blocks(c, Each(what, s), f)
  BY <1>1, <1>3, <1>4 DEF Blocks
<1> QED BY <1>1, <1>3, <1>5 DEF Nested

LEMMA BalancedScope ==
  ASSUME NEW c, NEW s, NEW keys \in Seq(Lockable), Balanced(c, s)
  PROVE  Balanced(c, Scope(keys, s))
<1>1. keys \in Seq(Row) /\ Len(keys) \in Nat /\ \A j \in 1..Len(keys) : keys[j] \in Lockable
  BY KeyLists, LenProperties
<1>2. Reverse(keys) \in Seq(Row) /\ Len(Reverse(keys)) = Len(keys)
  BY ReversedKeys
<1> SUFFICES ASSUME NEW n \in Nat PROVE Nested(c, n, Scope(keys, s), n)
  BY DEF Balanced
<1>3. PICK k \in Nat : k = n + Len(keys)
  BY <1>1
<1>4. Nested(c, n, Each("acquire", keys), k)
  BY <1>1, <1>3, NestedAcquires
<1>5. Nested(c, k, Each("release", Reverse(keys)), n)
  BY <1>2, <1>3, NestedReleases
<1>6. Nested(c, k, s, k)
  BY DEF Balanced
<1> QED BY <1>4, <1>5, <1>6, NestedConcat DEF Scope

LEMMA BalancedParts ==
  ASSUME NEW c
  PROVE  /\ \A S \in SUBSET Row : Balanced(c, Save(S)) /\ Balanced(c, Load(S))
         /\ Balanced(c, Check)
         /\ \A what \in Plain, S \in SUBSET Row : Balanced(c, <<DoAll(what, S)>>)
         /\ \A s : Balanced(c, s) => Balanced(c, Atomic(s))
<1>1. ASSUME NEW what \in Plain, NEW S \in SUBSET Row PROVE Balanced(c, <<DoAll(what, S)>>)
  <2>1. DoAll(what, S) \in Instruction /\ DoAll(what, S).do = what
    BY DEF DoAll, Instruction, Plain
  <2> QED BY <2>1, BalancedOne
<1>2. {"save", "load", "check", "begin", "end"} \subseteq Plain /\ {} \in SUBSET Row
  BY DEF Plain, Opcodes
<1>3. \A S \in SUBSET Row : Balanced(c, Save(S)) /\ Balanced(c, Load(S))
  BY <1>1, <1>2 DEF Save, Load
<1>4. Balanced(c, Check)
  BY <1>1, <1>2 DEF Check
<1>5. ASSUME NEW s, Balanced(c, s) PROVE Balanced(c, Atomic(s))
  <2>1. Balanced(c, <<DoAll("begin", {})>>) /\ Balanced(c, <<DoAll("end", {})>>)
    BY <1>1, <1>2
  <2> QED BY <1>5, <2>1, BalancedConcat DEF Atomic
<1> QED BY <1>1, <1>3, <1>4, <1>5

LEMMA BalancedLocks ==
  ASSUME NEW c, NEW s \in Seq(Row)
  PROVE  Balanced(c, Each("lock", s))
<1>1. "lock" \in Plain
  BY DEF Plain, Opcodes
<1> QED BY <1>1, BalancedEach

LEMMA BalancedLocked ==
  ASSUME NEW c, NEW s, NEW keys \in Seq(Lockable), Balanced(c, s)
  PROVE  Balanced(c, Locked(keys, s))
<1>1. Balanced(c, Each("lock", keys))
  BY KeyLists, BalancedLocks
<1>2. Balanced(c, Atomic(Each("lock", keys) \o s))
  BY <1>1, BalancedConcat, BalancedParts
<1> QED BY <1>2, BalancedScope DEF Locked

-----------------------------------------------------------------------------
(* ... and that of the calls and their plans.                                *)

LEMMA KnownKeys ==
  /\ \A r \in {Account, Tx, Allocation, Earlier} : r \in Row
  /\ Account \in Lockable /\ Tx \in Lockable /\ Budget \subseteq Lockable /\ Budget \subseteq Row
  /\ Process \subseteq Row /\ Unallocated \in Budget /\ Transfers \subseteq Row
  /\ \A r \in Lockable : r \in Row /\ <<r>> \in Seq(Row) /\ <<r>> \in Seq(Lockable)
  /\ <<Account, Tx>> \in Seq(Row) /\ <<Account, Unallocated>> \in Seq(Lockable)
  /\ <<Earlier>> \in Seq(Row) /\ <<Allocation>> \in Seq(Row)
<1>1. \A r \in {Account, Tx, Allocation, Earlier} : r \in Row
  BY DEF Row, Transfers
<1>2. /\ Account \in Lockable /\ Tx \in Lockable /\ Budget \subseteq Lockable
      /\ Budget \subseteq Row /\ Process \subseteq Row /\ Transfers \subseteq Row
      /\ Lockable \subseteq Row
  BY DEF Lockable, Row, Transfers
<1>3. Unallocated \in Budget
  BY RowsApart
<1>4. \A r \in Row : <<r>> \in Seq(Row)
  OBVIOUS
<1>5. \A r \in Lockable : <<r>> \in Seq(Lockable)
  OBVIOUS
<1>6. <<Account, Tx>> \in Seq(Row) /\ <<Account, Unallocated>> \in Seq(Lockable)
  BY <1>1, <1>2, <1>3
<1> QED BY <1>1, <1>2, <1>3, <1>4, <1>5, <1>6

LEMMA BalancedTransfer ==
  ASSUME NEW c, NEW p \in Process, NEW s \in Budget, NEW d \in Budget
  PROVE  Balanced(c, Transferring(p, s, d))
<1>1. {s, d} \in SUBSET Budget /\ {s, d, p} \in SUBSET Row
  BY KnownKeys
<1>2. Balanced(c, Save({s, d, p}))
  BY <1>1, BalancedParts
<1>3. Sorted({s, d}) \in Seq(Lockable)
  BY <1>1, SortedLocks
<1> QED BY <1>2, <1>3, BalancedLocked DEF Transferring

LEMMA BalancedReverse ==
  ASSUME NEW c, NEW m \in TransferValue
  PROVE  Balanced(c, Reversing(m))
<1>1. Ends(m) \in SUBSET Budget
  BY DEF Ends, TransferValue
<1>2. PICK keys \in Seq(Lockable) : keys = Sorted(Ends(m)) /\ keys \in Seq(Row)
  BY <1>1, SortedLocks
<1>3. Ends(m) \union {Earlier} \in SUBSET Row
  BY <1>1, KnownKeys
<1>4. /\ Balanced(c, Each("lock", keys)) /\ Balanced(c, Each("lock", <<Earlier>>))
      /\ Balanced(c, Save(Ends(m) \union {Earlier}))
  BY <1>2, <1>3, KnownKeys, BalancedLocks, BalancedParts
<1>5. Balanced(c, Each("lock", keys) \o Each("lock", <<Earlier>>) \o Save(Ends(m) \union {Earlier}))
  BY <1>4, BalancedConcat
<1>6. Balanced(c, Atomic(Each("lock", keys) \o Each("lock", <<Earlier>>)
                           \o Save(Ends(m) \union {Earlier})))
  BY <1>5, BalancedParts
<1> QED BY <1>2, <1>6, BalancedScope DEF Reversing

LEMMA BalancedCreate ==
  ASSUME NEW c
  PROVE  Balanced(c, Creating)
<1>1. /\ {Account} \in SUBSET Row /\ {Unallocated} \in SUBSET Row
      /\ <<Account>> \in Seq(Lockable) /\ <<Unallocated>> \in Seq(Lockable)
  BY KnownKeys
<1>2. Balanced(c, Save({Account})) /\ Balanced(c, Save({Unallocated}))
  BY <1>1, BalancedParts
<1>3. Balanced(c, Locked(<<Unallocated>>, Save({Unallocated})))
  BY <1>1, <1>2, BalancedLocked
<1>4. Balanced(c, Save({Account}) \o Locked(<<Unallocated>>, Save({Unallocated})))
  BY <1>2, <1>3, BalancedConcat
<1> QED BY <1>1, <1>4, BalancedLocked DEF Creating

LEMMA BalancedUpdate ==
  ASSUME NEW c, NEW S \in SUBSET Row
  PROVE  Balanced(c, Updating(S))
<1>1. <<Account>> \in Seq(Lockable) /\ <<Account, Tx>> \in Seq(Row)
  BY KnownKeys
<1>2. Balanced(c, Each("lock", <<Account, Tx>>)) /\ Balanced(c, Save(S))
  BY <1>1, BalancedLocks, BalancedParts
<1>3. Balanced(c, Atomic(Each("lock", <<Account, Tx>>) \o Save(S)))
  BY <1>2, BalancedConcat, BalancedParts
<1> QED BY <1>1, <1>3, BalancedScope DEF Updating

LEMMA BalancedResolve ==
  ASSUME NEW c
  PROVE  Balanced(c, Resolving)
<1>1. /\ <<Account, Unallocated>> \in Seq(Lockable) /\ <<Account, Tx>> \in Seq(Row)
      /\ <<Unallocated>> \in Seq(Lockable) /\ <<Allocation>> \in Seq(Row)
      /\ {Account, Tx} \in SUBSET Row /\ {Unallocated, Allocation} \in SUBSET Row
  BY KnownKeys
<1>2. /\ Balanced(c, Each("lock", <<Account, Tx>>)) /\ Balanced(c, Each("lock", <<Allocation>>))
      /\ Balanced(c, Check) /\ Balanced(c, Save({Account, Tx}))
      /\ Balanced(c, Save({Unallocated, Allocation}))
  BY <1>1, BalancedLocks, BalancedParts
<1>3. Balanced(c, Locked(<<Unallocated>>, Each("lock", <<Allocation>>)
                                            \o Save({Unallocated, Allocation})))
  BY <1>1, <1>2, BalancedConcat, BalancedLocked
<1>4. Balanced(c, Each("lock", <<Account, Tx>>) \o Check)
  BY <1>2, BalancedConcat
<1>5. Balanced(c, Each("lock", <<Account, Tx>>) \o Check \o Save({Account, Tx}))
  BY <1>2, <1>4, BalancedConcat
<1>6. Balanced(c, Each("lock", <<Account, Tx>>) \o Check \o Save({Account, Tx})
                    \o Locked(<<Unallocated>>, Each("lock", <<Allocation>>)
                                                 \o Save({Unallocated, Allocation})))
  BY <1>3, <1>5, BalancedConcat
<1>7. Balanced(c, Atomic(Each("lock", <<Account, Tx>>) \o Check \o Save({Account, Tx})
                           \o Locked(<<Unallocated>>, Each("lock", <<Allocation>>)
                                                        \o Save({Unallocated, Allocation}))))
  BY <1>6, BalancedParts
<1> QED BY <1>1, <1>7, BalancedScope DEF Resolving

LEMMA BalancedPlan ==
  ASSUME NEW c, NEW name \in Plans \ {"recheck"}
  PROVE  Balanced(c, Plan(name, {}))
<1>1. name \in Plain /\ {} \in SUBSET Row
  BY DEF Plain, Opcodes, Plans
<1> QED BY <1>1, BalancedParts DEF Plan

LEMMA BalancedSplit ==
  ASSUME NEW c, NEW v, NEW d \in Budget, Holders(v) \in SUBSET Budget
  PROVE  Balanced(c, Splitting(v, d))
<1>1. {Unallocated, d} \union Holders(v) \in SUBSET Budget
  BY KnownKeys
<1>2. PICK bs \in Seq(Lockable) : /\ bs = Sorted({Unallocated, d} \union Holders(v))
                                  /\ bs \in Seq(Row)
  BY <1>1, SortedLocks
<1>3. <<Tx>> \o bs \in Seq(Lockable) /\ <<Tx>> \in Seq(Row) /\ {Allocation} \in SUBSET Row
  BY KnownKeys, KeyLists
<1>4. /\ Balanced(c, Each("lock", <<Tx>>)) /\ Balanced(c, Check) /\ Balanced(c, Each("lock", bs))
      /\ Balanced(c, Load({Allocation})) /\ Balanced(c, Plan("reallocate", {}))
  <2>1. "reallocate" \in Plans \ {"recheck"}
    BY DEF Plans
  <2> QED BY <1>2, <1>3, <2>1, BalancedLocks, BalancedParts, BalancedPlan
<1>5. Balanced(c, Each("lock", <<Tx>>) \o Check \o Each("lock", bs))
  BY <1>4, BalancedConcat
<1>6. Balanced(c, Each("lock", <<Tx>>) \o Check \o Each("lock", bs) \o Load({Allocation})
                    \o Plan("reallocate", {}))
  BY <1>4, <1>5, BalancedConcat
<1>7. Balanced(c, Atomic(Each("lock", <<Tx>>) \o Check \o Each("lock", bs) \o Load({Allocation})
                           \o Plan("reallocate", {})))
  BY <1>6, BalancedParts
<1>8. Balanced(c, Scope(<<Tx>> \o bs,
        Atomic(Each("lock", <<Tx>>) \o Check \o Each("lock", bs) \o Load({Allocation})
                 \o Plan("reallocate", {}))))
  BY <1>3, <1>7, BalancedScope
<1> QED BY <1>2, <1>8 DEF Splitting

LEMMA BalancedUnallocate ==
  ASSUME NEW c, NEW v, NEW S \in SUBSET Row, v[Allocation].budget \in Budget
  PROVE  Balanced(c, Unallocating(v, S))
<1>1. PICK old \in Budget : old = v[Allocation].budget
  OBVIOUS
<1>2. <<old>> \in Seq(Lockable) /\ <<Allocation>> \in Seq(Row) /\ {old, Allocation} \in SUBSET Row
  BY KnownKeys
<1>3. /\ Balanced(c, Each("lock", <<Allocation>>)) /\ Balanced(c, Save({old, Allocation}))
      /\ Balanced(c, Save(S))
  BY <1>2, BalancedLocks, BalancedParts
<1>4. Balanced(c, Locked(<<old>>, Each("lock", <<Allocation>>) \o Save({old, Allocation})))
  BY <1>2, <1>3, BalancedConcat, BalancedLocked
<1> QED BY <1>1, <1>3, <1>4, BalancedConcat DEF Unallocating

LEMMA BalancedReallocate ==
  ASSUME NEW c, NEW v, NEW d \in Budget, v[Allocation].budget \in Budget
  PROVE  Balanced(c, Reallocating(v, d))
<1>1. <<d>> \in Seq(Lockable) /\ {d} \in SUBSET Row /\ {} \in SUBSET Row
  BY KnownKeys
<1>2. Balanced(c, Locked(<<d>>, Save({d})))
  BY <1>1, BalancedParts, BalancedLocked
<1>3. Balanced(c, Unallocating(v, {}))
  BY <1>1, BalancedUnallocate
<1> QED BY <1>2, <1>3, BalancedEmpty, BalancedConcat DEF Reallocating

LEMMA BalancedDelete ==
  ASSUME NEW c, NEW v, Holders(v) \in SUBSET Budget
  PROVE  Balanced(c, Deleting(v))
<1>1. PICK bs \in Seq(Lockable) : bs = Sorted(Holders(v)) /\ bs \in Seq(Row)
  BY SortedLocks
<1>2. /\ <<Account>> \o bs \in Seq(Lockable) /\ <<Account, Tx>> \o bs \in Seq(Row)
      /\ {Allocation} \in SUBSET Row
  BY KnownKeys, KeyLists
<1>3. /\ Balanced(c, Each("lock", <<Account, Tx>> \o bs)) /\ Balanced(c, Load({Allocation}))
      /\ Balanced(c, Plan("unallocate", {}))
  <2>1. "unallocate" \in Plans \ {"recheck"}
    BY DEF Plans
  <2> QED BY <1>2, <2>1, BalancedLocks, BalancedParts, BalancedPlan
<1>4. Balanced(c, Each("lock", <<Account, Tx>> \o bs) \o Load({Allocation})
                    \o Plan("unallocate", {}))
  BY <1>3, BalancedConcat
<1>5. Balanced(c, Atomic(Each("lock", <<Account, Tx>> \o bs) \o Load({Allocation})
                           \o Plan("unallocate", {})))
  BY <1>4, BalancedParts
<1>6. Balanced(c, Scope(<<Account>> \o bs,
        Atomic(Each("lock", <<Account, Tx>> \o bs) \o Load({Allocation})
                 \o Plan("unallocate", {}))))
  BY <1>2, <1>5, BalancedScope
<1> QED BY <1>1, <1>6 DEF Deleting

LEMMA BalancedArchive ==
  ASSUME NEW c, NEW b \in Budget
  PROVE  Balanced(c, Archiving(b))
<1>1. Sorted({b, Unallocated}) \in Seq(Lockable) /\ {b} \in SUBSET Row
  <2>1. {b, Unallocated} \in SUBSET Budget
    BY KnownKeys
  <2> QED BY <2>1, SortedLocks, KnownKeys
<1>2. Balanced(c, Plan("drain", {})) /\ Balanced(c, Load({b})) /\ Balanced(c, Save({b}))
  <2>1. "drain" \in Plans \ {"recheck"}
    BY DEF Plans
  <2> QED BY <1>1, <2>1, BalancedParts, BalancedPlan
<1>3. Balanced(c, Plan("drain", {}) \o Load({b}) \o Save({b}))
  BY <1>2, BalancedConcat
<1> QED BY <1>1, <1>3, BalancedLocked DEF Archiving

LEMMA BalancedEdit ==
  ASSUME NEW c, NEW b \in Budget
  PROVE  Balanced(c, Locked(<<b>>, Save({b})))
<1>1. <<b>> \in Seq(Lockable) /\ {b} \in SUBSET Row
  BY KnownKeys
<1> QED BY <1>1, BalancedParts, BalancedLocked

\* budget.delete leaves the blocks of all the budgets it knows, those of a first try too.
LEMMA DoomedKeys ==
  ASSUME NEW b \in Budget, NEW K \in SUBSET Budget
  PROVE  /\ Doomed(b, K) \in Seq(Lockable) /\ Doomed(b, K) \in Seq(Row)
         /\ Len(Doomed(b, K)) \in Nat
         /\ \A j \in 1..Len(Doomed(b, K)) : Doomed(b, K)[j] \in Lockable
<1>1. {b, Unallocated} \union K \in SUBSET Budget
  BY KnownKeys
<1>2. Doomed(b, K) \in Seq(Lockable) /\ Doomed(b, K) \in Seq(Row)
  BY <1>1, SortedLocks DEF Doomed
<1> HIDE DEF Doomed
<1> QED BY <1>2, LenProperties

LEMMA BalancedDrop ==
  ASSUME NEW c, c.src \in Budget, NEW K \in SUBSET Budget
  PROVE  Balanced(c, Dropping(c.src, K))
<1>1. PICK keys : keys = Doomed(c.src, K)
  OBVIOUS
<1>2. /\ keys \in Seq(Row) /\ Len(keys) \in Nat
      /\ \A j \in 1..Len(keys) : keys[j] \in Lockable
  BY <1>1, DoomedKeys
<1> SUFFICES ASSUME NEW n \in Nat PROVE Nested(c, n, Dropping(c.src, K), n)
  BY DEF Balanced
<1>3. PICK k \in Nat : k = n + Len(keys)
  BY <1>2
<1>4. Nested(c, n, Each("acquire", keys), k)
  BY <1>2, <1>3, NestedAcquires
<1>5. Nested(c, k, Plan("recheck", K), n)
  <2>1. K \in SUBSET Row
    BY KnownKeys
  <2>2. DoAll("recheck", K) \in Instruction
    BY <2>1 DEF DoAll, Instruction, Opcodes, Plans
  <2>3. Opens(c, DoAll("recheck", K), k, n)
    BY <1>1, <1>3 DEF Opens, DoAll
  <2> QED BY <2>2, <2>3, NestedOne DEF Plan
<1> QED BY <1>1, <1>4, <1>5, NestedConcat DEF Dropping

LEMMA BalancedDropLocked ==
  ASSUME NEW c, NEW b \in Budget, NEW K \in SUBSET Budget
  PROVE  Balanced(c, DroppingLocked(b, K))
<1>1. K \in SUBSET Row /\ Transfers \union {Allocation} \in SUBSET Row /\ "expect" \in Plain
  BY KnownKeys DEF Plain, Opcodes, Plans
<1>2. /\ Balanced(c, Each("lock", Doomed(b, K))) /\ Balanced(c, Load(Transfers \union {Allocation}))
      /\ Balanced(c, Check) /\ Balanced(c, <<DoAll("expect", K)>>)
  BY <1>1, DoomedKeys, BalancedLocks, BalancedParts
<1>3. Balanced(c, Each("lock", Doomed(b, K)) \o Load(Transfers \union {Allocation}) \o Check
                    \o <<DoAll("expect", K)>>)
  BY <1>2, BalancedConcat
<1> QED BY <1>3, BalancedParts DEF DroppingLocked

LEMMA NestedRecheck ==
  ASSUME NEW c, c.src \in Budget, NEW K \in SUBSET Budget, NEW now \in SUBSET Budget,
         NEW n \in Nat, NEW k \in Nat, n = k + Len(Doomed(c.src, K))
  PROVE  Nested(c, n, Rechecking(c.src, K, now), k)
<1>1. PICK leave : leave = Each("release", Reverse(Doomed(c.src, K)))
  OBVIOUS
<1>2. Nested(c, n, leave, k)
  <2>1. PICK keys : keys = Doomed(c.src, K)
    OBVIOUS
  <2>2. Reverse(keys) \in Seq(Row) /\ Len(Reverse(keys)) = Len(keys)
    BY <2>1, DoomedKeys, ReversedKeys
  <2>3. Nested(c, k + Len(Reverse(keys)), Each("release", Reverse(keys)), k)
    BY <2>2, NestedReleases
  <2> QED BY <1>1, <2>1, <2>2, <2>3
<1>3. Nested(c, n, DroppingLocked(c.src, K), n)
  BY BalancedDropLocked DEF Balanced
<1>4. Nested(c, k, Dropping(c.src, K \union now), k)
  <2>1. K \union now \in SUBSET Budget
    OBVIOUS
  <2> QED BY <2>1, BalancedDrop DEF Balanced
<1>5. Nested(c, n, DroppingLocked(c.src, K) \o leave, k)
  BY <1>2, <1>3, NestedConcat
<1>6. Nested(c, n, leave \o Dropping(c.src, K \union now), k)
  BY <1>2, <1>4, NestedConcat
<1>7. CASE now \subseteq K
  BY <1>1, <1>5, <1>7 DEF Rechecking
<1>8. CASE ~(now \subseteq K)
  BY <1>1, <1>6, <1>8 DEF Rechecking
<1> QED BY <1>7, <1>8

LEMMA BalancedRun ==
  ASSUME NEW c \in Call, NEW p \in Process,
         c.op \notin {"fund", "rename", "unpost"}, c.op = "reverse" => db[Earlier] \in TransferValue
  PROVE  Balanced(c, Run(c, p))
<1>1. c.src \in Budget /\ c.dst \in Budget
  BY DEF Call
<1>2. Balanced(c, Program(c, p))
  <2>1. CASE c.op = "transfer"
    BY <1>1, <2>1, BalancedTransfer DEF Program
  <2>2. CASE c.op = "reverse"
    BY <2>2, BalancedReverse DEF Program
  <2>3. CASE c.op = "create"
    BY <2>3, BalancedCreate DEF Program
  <2>4. CASE c.op = "post"
    <3>1. {Account, Tx} \in SUBSET Row
      BY KnownKeys
    <3> QED BY <2>4, <3>1, BalancedUpdate DEF Program
  <2>5. CASE c.op = "resolve"
    BY <2>5, BalancedResolve DEF Program
  <2>6. CASE c.op \in {"split", "delete", "drop"}
    <3>1. c.op \in Plans \ {"recheck"}
      BY <2>6 DEF Plans
    <3>2. Balanced(c, Plan(c.op, {}))
      BY <3>1, BalancedPlan
    <3> QED BY <2>6, <3>2 DEF Program
  <2>7. CASE c.op = "archive"
    BY <1>1, <2>7, BalancedArchive DEF Program
  <2>8. CASE c.op = "edit"
    BY <1>1, <2>8, BalancedEdit DEF Program
  <2> QED BY <2>1, <2>2, <2>3, <2>4, <2>5, <2>6, <2>7, <2>8 DEF Call
<1> QED BY <1>2, BalancedParts DEF Run

\* What a plan puts before the rest of the call leaves as many blocks as the plan.
LEMMA NestedChosen ==
  ASSUME NEW c \in Call, NEW p \in Process, call[p] = c, NEW i, NEW v, NEW n \in Nat, NEW k \in Nat,
         i.do \in Plans, Opens(c, i, n, k),
         Holders(v) \in SUBSET Budget, Counterparties(v, c.src) \in SUBSET Budget,
         i.do \in {"reallocate", "unallocate"} => v[Allocation].budget \in Budget
  PROVE  Nested(c, n, Chosen(p, i, v), k)
<1>1. c.src \in Budget /\ c.dst \in Budget /\ Unallocated \in Budget
  BY KnownKeys DEF Call
<1>2. i.do # "recheck" => n = k
  BY DEF Opens, Plans
<1>3. CASE i.do = "split"
  BY <1>1, <1>2, <1>3, BalancedSplit DEF Chosen, Balanced
<1>4. CASE i.do = "reallocate"
  BY <1>1, <1>2, <1>4, BalancedReallocate DEF Chosen, Balanced
<1>5. CASE i.do = "delete"
  BY <1>2, <1>5, BalancedDelete DEF Chosen, Balanced
<1>6. CASE i.do = "unallocate"
  <2>1. {Account, Tx} \in SUBSET Row
    BY KnownKeys
  <2> QED BY <1>2, <1>6, <2>1, BalancedUnallocate DEF Chosen, Balanced
<1>7. CASE i.do = "drain"
  <2>1. Balanced(c, Draining(v, p, c.src))
    BY <1>1, BalancedTransfer, BalancedEmpty DEF Draining
  <2> QED BY <1>2, <1>7, <2>1 DEF Chosen, Balanced
<1>8. CASE i.do = "drop"
  BY <1>1, <1>2, <1>8, BalancedDrop DEF Chosen, Balanced
<1>9. CASE i.do = "recheck"
  <2>1. i.rows \in SUBSET Budget /\ n = k + Len(Doomed(c.src, i.rows))
    BY <1>9 DEF Opens
  <2>2. Nested(c, n, Rechecking(c.src, i.rows, Counterparties(v, c.src)), k)
    BY <1>1, <2>1, NestedRecheck
  <2> QED BY <1>9, <2>2 DEF Chosen
<1> QED BY <1>3, <1>4, <1>5, <1>6, <1>7, <1>8, <1>9 DEF Plans

-----------------------------------------------------------------------------
(* The invariant for Redis locks.                                            *)

\* A process's Redis locks are those of its open blocks, until it is gone.
HeldWhileOpen ==
  \A k \in Lockable : redis[k] # Nobody => Contains(scopes[redis[k]], k) \/ ~Running(redis[k])
OpenHolds == Lapses \/ \A p \in Process : \A k \in ToSet(scopes[p]) : redis[k] = p

Bracketed ==
  /\ redis \in [Lockable -> Process \union {Nobody}] /\ scopes \in [Process -> Seq(Lockable)]
  /\ ended \in [Process -> Outcomes]
  /\ \A p \in Process : Nested(call[p], Len(scopes[p]), todo[p], 0)
  /\ HeldWhileOpen /\ OpenHolds

LEMMA OpenKeys ==
  ASSUME NEW s \in Seq(Lockable)
  PROVE  /\ Len(s) \in Nat /\ ToSet(s) \in SUBSET Lockable
         /\ \A k : Contains(s, k) <=> k \in ToSet(s)
         /\ ToSet(<<>>) = {} /\ (Len(s) = 0 => s = <<>>)
<1>1. Len(s) \in Nat /\ DOMAIN s = 1..Len(s) /\ \A j \in 1..Len(s) : s[j] \in Lockable
  BY LenProperties
<1>2. ToSet(s) \in SUBSET Lockable
  BY <1>1 DEF ToSet
<1>3. \A k : Contains(s, k) <=> k \in ToSet(s)
  BY DEF Contains, ToSet
<1>4. ToSet(<<>>) = {}
  BY DEF ToSet
<1>5. Len(s) = 0 => s = <<>>
  BY EmptySeq
<1> QED BY <1>1, <1>2, <1>3, <1>4, <1>5

LEMMA OpenedKeys ==
  ASSUME NEW s \in Seq(Lockable), NEW k \in Lockable
  PROVE  /\ Append(s, k) \in Seq(Lockable) /\ Len(Append(s, k)) = Len(s) + 1
         /\ ToSet(Append(s, k)) = ToSet(s) \union {k}
<1>1. /\ Append(s, k) \in Seq(Lockable) /\ Len(Append(s, k)) = Len(s) + 1
      /\ \A i \in 1..Len(s) : Append(s, k)[i] = s[i]
      /\ Append(s, k)[Len(s) + 1] = k
  BY AppendProperties
<1>2. /\ Len(s) \in Nat /\ DOMAIN s = 1..Len(s)
      /\ DOMAIN Append(s, k) = 1..Len(s) + 1
  BY <1>1, LenProperties
<1>3. 1..Len(s) + 1 = 1..Len(s) \union {Len(s) + 1}
  BY <1>2
<1>4. /\ ToSet(s) = {s[i] : i \in 1..Len(s)}
      /\ ToSet(Append(s, k)) = {Append(s, k)[i] : i \in 1..Len(s) \union {Len(s) + 1}}
  BY <1>2, <1>3 DEF ToSet
<1>5. ToSet(Append(s, k)) = {Append(s, k)[i] : i \in 1..Len(s)} \union {Append(s, k)[Len(s) + 1]}
  BY <1>4
<1>6. {Append(s, k)[i] : i \in 1..Len(s)} = {s[i] : i \in 1..Len(s)}
  BY <1>1
<1> QED BY <1>1, <1>4, <1>5, <1>6

LEMMA LeftKeys ==
  ASSUME NEW s \in Seq(Lockable), Len(s) > 0
  PROVE  /\ Front(s) \in Seq(Lockable) /\ Len(Front(s)) = Len(s) - 1 /\ Last(s) \in Lockable
         /\ ToSet(s) = ToSet(Front(s)) \union {Last(s)}
<1>1. /\ Len(s) \in Nat /\ DOMAIN s = 1..Len(s) /\ Last(s) = s[Len(s)]
      /\ \A i \in 1..Len(s) : s[i] \in Lockable
  BY LenProperties DEF Last
<1>2. Front(s) = SubSeq(s, 1, Len(s) - 1)
  BY DEF Front
<1>3. /\ Front(s) \in Seq(Lockable) /\ Len(Front(s)) = Len(s) - 1
      /\ \A i \in 1..Len(s) - 1 : Front(s)[i] = s[i]
  BY <1>1, <1>2
<1>4. DOMAIN Front(s) = 1..Len(s) - 1
  BY <1>3, LenProperties
<1>5. 1..Len(s) = 1..Len(s) - 1 \union {Len(s)} /\ Len(s) \in 1..Len(s)
  BY <1>1
<1>6. /\ ToSet(s) = {s[i] : i \in 1..Len(s) - 1 \union {Len(s)}}
      /\ ToSet(Front(s)) = {Front(s)[i] : i \in 1..Len(s) - 1}
  BY <1>1, <1>4, <1>5 DEF ToSet
<1>7. {s[i] : i \in 1..Len(s) - 1 \union {Len(s)}} = {s[i] : i \in 1..Len(s) - 1} \union {s[Len(s)]}
  OBVIOUS
<1>8. {Front(s)[i] : i \in 1..Len(s) - 1} = {s[i] : i \in 1..Len(s) - 1}
  BY <1>3
<1> QED BY <1>1, <1>3, <1>5, <1>6, <1>7, <1>8

LEMMA BracketedFacts ==
  ASSUME NEW p \in Process, Bracketed
  PROVE  /\ redis \in [Lockable -> Process \union {Nobody}] /\ ended \in [Process -> Outcomes]
         /\ scopes \in [Process -> Seq(Lockable)] /\ scopes[p] \in Seq(Lockable)
         /\ Nested(call[p], Len(scopes[p]), todo[p], 0)
         /\ \A k \in Lockable : redis[k] = p => k \in ToSet(scopes[p]) \/ todo[p] = <<>>
         /\ Lapses \/ \A k \in ToSet(scopes[p]) : redis[k] = p
<1>1. /\ redis \in [Lockable -> Process \union {Nobody}] /\ ended \in [Process -> Outcomes]
      /\ scopes \in [Process -> Seq(Lockable)] /\ scopes[p] \in Seq(Lockable)
      /\ Nested(call[p], Len(scopes[p]), todo[p], 0)
  BY DEF Bracketed
<1>2. Lapses \/ \A k \in ToSet(scopes[p]) : redis[k] = p
  BY DEF Bracketed, OpenHolds
<1>3. ASSUME NEW k \in Lockable, redis[k] = p PROVE k \in ToSet(scopes[p]) \/ todo[p] = <<>>
  <2>1. Contains(scopes[p], k) \/ ~Running(p)
    BY <1>3, NobodyAssumption DEF Bracketed, HeldWhileOpen
  <2> QED BY <1>1, <2>1, OpenKeys DEF Running
<1> QED BY <1>1, <1>2, <1>3

\* p's step leaves the locks of the others alone, and p the locks of its open blocks.
LEMMA BracketStep ==
  ASSUME NEW p \in Process, Bracketed, call' = call, Moved(p, todo, todo'),
         NEW s \in Seq(Lockable), scopes' = [scopes EXCEPT ![p] = s],
         Nested(call[p], Len(s), todo'[p], 0), ended' \in [Process -> Outcomes],
         redis' \in [Lockable -> Process \union {Nobody}],
         \A k \in Lockable, q \in Process \ {p} : redis'[k] = q <=> redis[k] = q,
         \A k \in Lockable : redis'[k] = p => k \in ToSet(s) \/ todo'[p] = <<>>,
         Lapses \/ \A k \in ToSet(s) : redis'[k] = p
  PROVE  Bracketed'
<1>1. /\ scopes' \in [Process -> Seq(Lockable)] /\ scopes'[p] = s
      /\ \A q \in Process \ {p} : scopes'[q] = scopes[q]
  BY DEF Bracketed
<1>2. ASSUME NEW q \in Process \ {p} PROVE todo'[q] = todo[q]
  BY DEF Moved
<1>3. ASSUME NEW q \in Process PROVE Nested(call'[q], Len(scopes'[q]), todo'[q], 0)
  BY <1>1, <1>2 DEF Bracketed
<1>4. HeldWhileOpen'
  <2> SUFFICES ASSUME NEW k \in Lockable, redis'[k] # Nobody
               PROVE  Contains(scopes'[redis'[k]], k) \/ todo'[redis'[k]] = <<>>
    BY DEF HeldWhileOpen, Running
  <2>1. PICK q \in Process : redis'[k] = q
    OBVIOUS
  <2>2. CASE q = p
    BY <1>1, <2>1, <2>2, OpenKeys
  <2>3. CASE q # p
    <3>1. redis[k] = q
      BY <2>1, <2>3
    <3>2. k \in ToSet(scopes[q]) \/ todo[q] = <<>>
      BY <3>1, BracketedFacts
    <3>3. scopes[q] \in Seq(Lockable)
      BY BracketedFacts
    <3>4. Contains(scopes[q], k) \/ todo[q] = <<>>
      BY <3>2, <3>3, OpenKeys
    <3> QED BY <1>1, <1>2, <2>1, <2>3, <3>4
  <2> QED BY <2>2, <2>3
<1>5. OpenHolds'
  <2> SUFFICES ASSUME ~Lapses, NEW q \in Process, NEW k \in ToSet(scopes'[q])
               PROVE  redis'[k] = q
    BY DEF OpenHolds
  <2>1. CASE q = p
    BY <1>1, <2>1
  <2>2. CASE q # p
    <3>1. k \in ToSet(scopes[q]) /\ scopes[q] \in Seq(Lockable)
      BY <1>1, <2>2, BracketedFacts
    <3>2. k \in Lockable /\ redis[k] = q
      BY <3>1, OpenKeys, BracketedFacts
    <3> QED BY <2>2, <3>2
  <2> QED BY <2>1, <2>2
<1> QED BY <1>1, <1>3, <1>4, <1>5 DEF Bracketed

\* A step of p that leaves the Redis locks as they are.
LEMMA QuietStep ==
  ASSUME NEW p \in Process, Bracketed, Running(p), OnProcesses(todo), call' = call,
         NEW s, todo' = [todo EXCEPT ![p] = s], redis' = redis, scopes' = scopes,
         Nested(call[p], Len(scopes[p]), s, 0), ended' \in [Process -> Outcomes]
  PROVE  Bracketed'
<1>1. Moved(p, todo, todo') /\ todo'[p] = s
  BY DEF Moved, OnProcesses
<1>2. PICK x \in Seq(Lockable) : x = scopes[p]
  BY BracketedFacts
<1>3. scopes' = [scopes EXCEPT ![p] = x]
  BY <1>2 DEF Bracketed
<1>4. \A k \in Lockable : redis'[k] = p => k \in ToSet(x) \/ todo'[p] = <<>>
  BY <1>2, BracketedFacts DEF Running
<1>5. Lapses \/ \A k \in ToSet(x) : redis'[k] = p
  BY <1>2, BracketedFacts
<1>6. redis' \in [Lockable -> Process \union {Nobody}]
  BY DEF Bracketed
<1>7. Nested(call[p], Len(x), todo'[p], 0)
  BY <1>1, <1>2
<1> QED BY <1>1, <1>3, <1>4, <1>5, <1>6, <1>7, BracketStep

\* An instruction that is not about Redis locks is over.
LEMMA QuietAdvance ==
  ASSUME NEW p \in Process, Bracketed, Running(p), OnProcesses(todo), call' = call, Advance(p),
         redis' = redis, scopes' = scopes, ended' \in [Process -> Outcomes], Now(p).do \in Plain
  PROVE  Bracketed'
<1>1. Nested(call[p], Len(scopes[p]), todo[p], 0)
  BY BracketedFacts
<1>2. PICK l \in Nat : Opens(call[p], Now(p), Len(scopes[p]), l) /\ Nested(call[p], l, Tail(todo[p]), 0)
  BY <1>1, NestedStep DEF Running, Now
<1>3. l = Len(scopes[p])
  BY <1>2 DEF Opens, Plain
<1>4. Nested(call[p], Len(scopes[p]), Tail(todo[p]), 0)
  BY <1>2, <1>3
<1> QED BY <1>4, QuietStep DEF Advance

\* p's call is over, at the end of all its blocks or because it died.
LEMMA LeaveStep ==
  ASSUME NEW p \in Process, Bracketed, OnProcesses(todo), Rollback(p), ended' \in [Process -> Outcomes],
         redis' = redis \/ Unlock(p, ToSet(scopes[p]))
  PROVE  Bracketed'
<1>1. /\ call' = call /\ todo' = [todo EXCEPT ![p] = <<>>] /\ scopes' = [scopes EXCEPT ![p] = <<>>]
  BY DEF Rollback
<1>2. Moved(p, todo, todo') /\ todo'[p] = <<>>
  BY <1>1 DEF Moved, OnProcesses
<1>3. <<>> \in Seq(Lockable) /\ Len(<<>>) = 0 /\ ToSet(<<>>) = {}
  BY EmptySeq, OpenKeys
<1>4. redis \in [Lockable -> Process \union {Nobody}]
  BY DEF Bracketed
<1>5. /\ redis' \in [Lockable -> Process \union {Nobody}]
      /\ \A k \in Lockable, q \in Process \ {p} : redis'[k] = q <=> redis[k] = q
  <2>1. CASE redis' = redis
    BY <1>4, <2>1
  <2>2. CASE redis' = [k \in Lockable |-> IF k \in ToSet(scopes[p]) /\ redis[k] = p
                                            THEN Nobody ELSE redis[k]]
    BY <1>4, <2>2, NobodyAssumption
  <2> QED BY <2>1, <2>2 DEF Unlock
<1>6. Nested(call[p], Len(<<>>), todo'[p], 0)
  BY <1>2, <1>3, NestedEmpty
<1> QED BY <1>1, <1>2, <1>3, <1>5, <1>6, BracketStep

LEMMA AcquireBlock ==
  ASSUME NEW p \in Process, Bracketed, OnProcesses(todo), Acquire(p)
  PROVE  Bracketed'
<1>1. PICK k : k = Now(p).row
  OBVIOUS
<1>2. /\ Running(p) /\ Now(p).do = "acquire" /\ call' = call /\ ended' = ended
      /\ scopes' = [scopes EXCEPT ![p] = Append(scopes[p], k)]
      /\ todo' = [todo EXCEPT ![p] = Tail(todo[p])]
      /\ \/ Contains(scopes[p], k) /\ redis' = redis
         \/ ~Contains(scopes[p], k) /\ redis[k] = Nobody /\ redis' = [redis EXCEPT ![k] = p]
  BY <1>1 DEF Acquire, At, Advance
<1>3. PICK l \in Nat : Opens(call[p], Now(p), Len(scopes[p]), l) /\ Nested(call[p], l, Tail(todo[p]), 0)
  BY <1>2, BracketedFacts, NestedStep DEF Running, Now
<1>4. k \in Lockable /\ l = Len(scopes[p]) + 1
  BY <1>1, <1>2, <1>3 DEF Opens
<1>5. PICK s \in Seq(Lockable) : s = Append(scopes[p], k) /\ Len(s) = l
                                 /\ ToSet(s) = ToSet(scopes[p]) \union {k}
  BY <1>4, BracketedFacts, OpenedKeys
<1>6. Moved(p, todo, todo') /\ todo'[p] = Tail(todo[p])
  BY <1>2 DEF Moved, OnProcesses
<1>7. Nested(call[p], Len(s), todo'[p], 0)
  BY <1>3, <1>5, <1>6
<1>8. /\ redis \in [Lockable -> Process \union {Nobody}] /\ ended' \in [Process -> Outcomes]
      /\ \A j \in Lockable : redis[j] = p => j \in ToSet(scopes[p])
      /\ Lapses \/ \A j \in ToSet(scopes[p]) : redis[j] = p
      /\ ToSet(scopes[p]) \in SUBSET Lockable
      /\ Contains(scopes[p], k) <=> k \in ToSet(scopes[p])
  BY <1>2, BracketedFacts, OpenKeys DEF Running
<1>9. /\ redis' \in [Lockable -> Process \union {Nobody}]
      /\ \A j \in Lockable, q \in Process \ {p} : redis'[j] = q <=> redis[j] = q
      /\ \A j \in Lockable : redis'[j] = p => j \in ToSet(s)
      /\ Lapses \/ \A j \in ToSet(s) : redis'[j] = p
  <2>1. CASE k \in ToSet(scopes[p]) /\ redis' = redis
    <3>1. ToSet(s) = ToSet(scopes[p])
      BY <1>5, <2>1
    <3> QED BY <1>8, <2>1, <3>1
  <2>2. CASE k \notin ToSet(scopes[p]) /\ redis[k] = Nobody /\ redis' = [redis EXCEPT ![k] = p]
    <3>1. redis'[k] = p /\ \A j \in Lockable : j # k => redis'[j] = redis[j]
      BY <1>4, <1>8, <2>2
    <3>2. redis' \in [Lockable -> Process \union {Nobody}]
      BY <1>4, <1>8, <2>2
    <3>3. \A q \in Process : redis[k] # q
      BY <2>2, NobodyAssumption
    <3> HIDE <2>2
    <3> QED BY <1>4, <1>5, <1>8, <3>1, <3>2, <3>3
  <2> QED BY <1>2, <1>8, <2>1, <2>2
<1> QED BY <1>2, <1>5, <1>6, <1>7, <1>8, <1>9, BracketStep

LEMMA ReleaseBlock ==
  ASSUME NEW p \in Process, Bracketed, OnProcesses(todo), Release(p)
  PROVE  Bracketed'
<1>1. /\ Running(p) /\ Now(p).do = "release" /\ call' = call /\ ended' = ended
      /\ scopes' = [scopes EXCEPT ![p] = Front(scopes[p])]
      /\ todo' = [todo EXCEPT ![p] = Tail(todo[p])]
      /\ Unlock(p, Released(p))
  BY DEF Release, At, Advance
<1>2. PICK l \in Nat : Opens(call[p], Now(p), Len(scopes[p]), l) /\ Nested(call[p], l, Tail(todo[p]), 0)
  BY <1>1, BracketedFacts, NestedStep DEF Running, Now
<1>3. Len(scopes[p]) > 0 /\ l = Len(scopes[p]) - 1
  BY <1>1, <1>2 DEF Opens
<1>4. PICK s \in Seq(Lockable) : /\ s = Front(scopes[p]) /\ Len(s) = l /\ Last(scopes[p]) \in Lockable
                                 /\ ToSet(scopes[p]) = ToSet(s) \union {Last(scopes[p])}
  BY <1>3, BracketedFacts, LeftKeys
<1>5. Moved(p, todo, todo') /\ todo'[p] = Tail(todo[p])
  BY <1>1 DEF Moved, OnProcesses
<1>6. Nested(call[p], Len(s), todo'[p], 0)
  BY <1>2, <1>4, <1>5
<1>7. /\ redis \in [Lockable -> Process \union {Nobody}] /\ ended' \in [Process -> Outcomes]
      /\ \A j \in Lockable : redis[j] = p => j \in ToSet(scopes[p])
      /\ Lapses \/ \A j \in ToSet(scopes[p]) : redis[j] = p
      /\ ToSet(s) \in SUBSET Lockable
  BY <1>1, BracketedFacts, OpenKeys DEF Running
<1>8. PICK R : R = Released(p)
  OBVIOUS
<1>9. R = ToSet(scopes[p]) \ ToSet(s)
  BY <1>4, <1>8 DEF Released
<1>10. redis' = [j \in Lockable |-> IF j \in R /\ redis[j] = p THEN Nobody ELSE redis[j]]
  BY <1>1, <1>8 DEF Unlock
<1>11. /\ redis' \in [Lockable -> Process \union {Nobody}]
       /\ \A j \in Lockable, q \in Process \ {p} : redis'[j] = q <=> redis[j] = q
       /\ \A j \in Lockable : redis'[j] = p => redis[j] = p /\ j \notin R
       /\ \A j \in Lockable \ R : redis'[j] = redis[j]
  BY <1>7, <1>10, NobodyAssumption
<1>12. /\ \A j \in Lockable : redis'[j] = p => j \in ToSet(s)
       /\ Lapses \/ \A j \in ToSet(s) : redis'[j] = p
  <2> HIDE <1>10
  <2> QED BY <1>4, <1>7, <1>9, <1>11
<1> QED BY <1>1, <1>4, <1>5, <1>6, <1>7, <1>11, <1>12, BracketStep

LEMMA ExpireBlock ==
  ASSUME Bracketed, NEW k \in Lockable, Expire(k)
  PROVE  Bracketed'
<1>1. /\ redis[k] # Nobody /\ (Lapses \/ ~Running(redis[k]))
      /\ redis' = [redis EXCEPT ![k] = Nobody]
      /\ call' = call /\ todo' = todo /\ scopes' = scopes /\ ended' = ended
  BY DEF Expire, Expires
<1>2. redis \in [Lockable -> Process \union {Nobody}]
  BY DEF Bracketed
<1>3. /\ redis' \in [Lockable -> Process \union {Nobody}] /\ redis'[k] = Nobody
      /\ \A j \in Lockable \ {k} : redis'[j] = redis[j]
  BY <1>1, <1>2
<1>4. HeldWhileOpen'
  <2> SUFFICES ASSUME NEW j \in Lockable, redis'[j] # Nobody
               PROVE  Contains(scopes[redis'[j]], j) \/ todo[redis'[j]] = <<>>
    BY <1>1 DEF HeldWhileOpen, Running
  <2>1. redis'[j] = redis[j]
    BY <1>3
  <2> QED BY <2>1 DEF Bracketed, HeldWhileOpen, Running
<1>5. OpenHolds'
  <2> SUFFICES ASSUME ~Lapses, NEW q \in Process, NEW j \in ToSet(scopes[q])
               PROVE  redis'[j] = q
    BY <1>1 DEF OpenHolds
  <2>1. /\ scopes[q] \in Seq(Lockable) /\ Nested(call[q], Len(scopes[q]), todo[q], 0)
    BY BracketedFacts
  <2>2. j \in Lockable /\ redis[j] = q
    BY <2>1, OpenKeys, BracketedFacts
  <2>3. CASE j = k
    <3>1. todo[q] = <<>>
      BY <1>1, <2>2, <2>3 DEF Running
    <3>2. Len(scopes[q]) = 0
      BY <2>1, <3>1, NestedEnds
    <3>3. ToSet(scopes[q]) = {}
      BY <2>1, <3>2, OpenKeys
    <3> QED BY <3>3
  <2> QED BY <1>3, <2>2, <2>3
<1>6. ASSUME NEW q \in Process PROVE Nested(call'[q], Len(scopes'[q]), todo'[q], 0)
  BY <1>1 DEF Bracketed
<1>7. scopes' \in [Process -> Seq(Lockable)] /\ ended' \in [Process -> Outcomes]
  BY <1>1 DEF Bracketed
<1> QED BY <1>3, <1>4, <1>5, <1>6, <1>7 DEF Bracketed

\* What a call decides on are the committed rows: it has saved none yet.
LEMMA DecidesOnRows ==
  ASSUME NEW c \in Call, NEW p \in Process, NEW m \in TransferValue,
         NEW d, NEW w, NEW K, NEW o, NEW n, NEW s, NEW t, NEW i,
         Fit(c, p, m, d, w, K, o, n, s, t), s # <<>>, Head(s) = i, i.do \in Plans, WellFormed(d)
  PROVE  /\ View(d, w) = d
         /\ i.do \in {"reallocate", "unallocate"} => d[Allocation] # Gone
<1>1. PICK a \in Label, b \in Label :
        /\ a.deep = n /\ Holds(c, p, m, a, d, w, K, o) /\ Leads(c, p, m, a, i, b)
  BY FitStep DEF FitFirst
<1>2. DecidesTo(c, a, i, b)
  BY <1>1 DEF Leads, Plans
<1>3. a.stage = "work" /\ a.saved = {}
  <2>1. CASE a = Working(a.deep)
    <3>1. PICK x : x = a.deep
      OBVIOUS
    <3>2. a = Work(x, {}, {}, "none", Nobody)
      BY <2>1, <3>1 DEF Working
    <3> QED BY <3>2, WorkFields
  <2>2. CASE Untouched(a)
    BY <2>2 DEF Untouched, Open
  <2> QED BY <1>2, <2>1, <2>2 DEF DecidesTo
<1>4. View(d, w) = d /\ \A r \in a.fresh : d[r] # Gone
  BY <1>1, <1>3, NothingSaved
<1>5. i.do \in {"reallocate", "unallocate"} => Allocation \in a.fresh
  BY <1>2 DEF DecidesTo
<1> QED BY <1>4, <1>5

LEMMA DecideBlocks ==
  ASSUME NEW m \in TransferValue, Inv(m), NEW p \in Process, Bracketed, Decide(p)
  PROVE  Bracketed'
<1>1. /\ call[p] \in Call /\ WellFormed(db) /\ Seen(p) = View(db, wrote[p]) /\ OnProcesses(todo)
      /\ Fit(call[p], p, m, db, wrote[p], HeldBy(rowlock, p), mem[p], depth[p], todo[p], ended[p])
  BY InvFacts
<1>2. PICK i : i = Now(p)
  OBVIOUS
<1>3. PICK c \in Call : c = call[p]
  BY <1>1
<1>4. todo[p] # <<>> /\ Head(todo[p]) = i /\ i.do \in Plans
  BY <1>2 DEF Decide, Running, Now
<1>5. Seen(p) = db /\ (i.do \in {"reallocate", "unallocate"} => db[Allocation] # Gone)
  BY <1>1, <1>4, DecidesOnRows
<1>6. /\ todo' = [todo EXCEPT ![p] = Chosen(p, i, db) \o Tail(todo[p])]
      /\ call' = call /\ redis' = redis /\ scopes' = scopes /\ ended' = ended
  BY <1>2, <1>5 DEF Decide
<1>7. PICK n \in Nat : n = Len(scopes[p])
  BY BracketedFacts, OpenKeys
<1>8. PICK l \in Nat : Opens(c, i, n, l) /\ Nested(c, l, Tail(todo[p]), 0)
  BY <1>3, <1>4, <1>7, BracketedFacts, NestedStep
<1>9. Holders(db) \in SUBSET Budget
  BY <1>1 DEF Holders, WellFormed, AllocationValue
<1>10. Counterparties(db, c.src) \in SUBSET Budget
  <2>1. \A j \in Touching(db, c.src) : Ends(db[j]) \subseteq Budget
    BY <1>1 DEF Touching, WellFormed, TransferValue, Ends
  <2> QED BY <2>1 DEF Counterparties
<1>11. i.do \in {"reallocate", "unallocate"} => db[Allocation].budget \in Budget
  BY <1>1, <1>5 DEF WellFormed, AllocationValue
<1>12. Nested(c, n, Chosen(p, i, db), l)
  BY <1>3, <1>4, <1>8, <1>9, <1>10, <1>11, NestedChosen
<1>13. PICK s : s = Chosen(p, i, db) \o Tail(todo[p])
  OBVIOUS
<1>14. Nested(c, n, s, 0)
  BY <1>8, <1>12, <1>13, NestedConcat
<1>15. ended' \in [Process -> Outcomes] /\ Nested(call[p], Len(scopes[p]), s, 0) /\ Running(p)
  BY <1>3, <1>4, <1>6, <1>7, <1>14, BracketedFacts DEF Running
<1> QED BY <1>1, <1>6, <1>13, <1>15, QuietStep

LEMMA ExpectBlocks ==
  ASSUME NEW m \in TransferValue, Inv(m), NEW p \in Process, Bracketed, ExpectKnown(p)
  PROVE  Bracketed'
<1>1. /\ call[p] \in Call /\ WellFormed(db) /\ OnProcesses(todo)
      /\ Fit(call[p], p, m, db, wrote[p], HeldBy(rowlock, p), mem[p], depth[p], todo[p], ended[p])
  BY InvFacts
<1>2. PICK i : i = Now(p)
  OBVIOUS
<1>3. todo[p] # <<>> /\ Head(todo[p]) = i /\ i.do = "expect" /\ Running(p)
  BY <1>2 DEF ExpectKnown, At, Running, Now
<1>4. CASE Counterparties(mem[p], call[p].src) \subseteq i.rows \union {Unallocated}
  <2>1. PICK S : S = {call[p].src, Unallocated} \union i.rows \union Touching(mem[p], call[p].src)
    OBVIOUS
  <2>2. PICK s : s = Save(S) \o Tail(todo[p])
    OBVIOUS
  <2>3. /\ todo' = [todo EXCEPT ![p] = s]
        /\ call' = call /\ redis' = redis /\ scopes' = scopes /\ ended' = ended
    BY <1>2, <1>4, <2>1, <2>2 DEF ExpectKnown
  <2>4. PICK l \in Nat : Opens(call[p], i, Len(scopes[p]), l) /\ Nested(call[p], l, Tail(todo[p]), 0)
    BY <1>3, BracketedFacts, NestedStep
  <2>5. l = Len(scopes[p])
    BY <1>3, <2>4 DEF Opens
  <2>6. S \in SUBSET Row
    <3>1. Head(todo[p]) \in Instruction
      BY <1>3, BracketedFacts, NestedStep
    <3>2. i.rows \in SUBSET Row
      BY <1>3, <3>1 DEF Instruction
    <3>3. call[p].src \in Row /\ Unallocated \in Row /\ Transfers \subseteq Row
      BY <1>1, KnownKeys DEF Call
    <3> QED BY <2>1, <3>2, <3>3 DEF Touching
  <2>7. Nested(call[p], Len(scopes[p]), Save(S), l)
    BY <2>4, <2>5, <2>6, BalancedParts DEF Balanced
  <2>8. Nested(call[p], Len(scopes[p]), s, 0)
    BY <2>2, <2>4, <2>7, NestedConcat
  <2>9. ended' \in [Process -> Outcomes]
    BY <2>3, BracketedFacts
  <2> QED BY <1>1, <1>3, <2>3, <2>8, <2>9, QuietStep
<1>5. CASE ~(Counterparties(mem[p], call[p].src) \subseteq i.rows \union {Unallocated})
  <2>1. Raise(p, "KeyError")
    BY <1>2, <1>5 DEF ExpectKnown
  <2>2. ended' \in [Process -> Outcomes]
    <3>1. "KeyError" \in Outcomes
      BY DEF Outcomes
    <3> QED BY <2>1, <3>1, BracketedFacts DEF Raise
  <2> QED BY <1>1, <2>1, <2>2, LeaveStep DEF Raise
<1> QED BY <1>4, <1>5

LEMMA RefusedBlocks ==
  ASSUME NEW m \in TransferValue, Inv(m), NEW p \in Process, Bracketed, Raise(p, "refused")
  PROVE  Bracketed'
<1>1. OnProcesses(todo)
  BY InvFacts
<1>2. "refused" \in Outcomes
  BY DEF Outcomes
<1>3. ended' \in [Process -> Outcomes]
  BY <1>2, BracketedFacts DEF Raise
<1> QED BY <1>1, <1>3, LeaveStep DEF Raise

LEMMA BracketNext ==
  ASSUME NEW m \in TransferValue, Inv(m), Bracketed, [Next]_vars
  PROVE  Bracketed'
<1>1. ASSUME NEW p \in Process, Step(p) PROVE Bracketed'
  <2>1. OnProcesses(todo) /\ ended \in [Process -> Outcomes]
    BY InvFacts, BracketedFacts
  <2>2. {"begin", "end", "lock", "load", "check", "save"} \subseteq Plain
    BY DEF Plain, Opcodes
  <2>3. CASE Acquire(p)
    BY <2>1, <2>3, AcquireBlock
  <2>4. CASE TryAcquire(p)
    BY <2>4, TryStep
  <2>5. CASE Release(p)
    BY <2>1, <2>5, ReleaseBlock
  <2>6. CASE Begin(p)
    <3>1. /\ Running(p) /\ Now(p).do = "begin" /\ Advance(p) /\ call' = call /\ redis' = redis
          /\ scopes' = scopes /\ ended' = ended
      BY <2>6 DEF Begin, At
    <3> QED BY <2>1, <2>2, <3>1, QuietAdvance
  <2>7. CASE End(p)
    <3>1. /\ Running(p) /\ Now(p).do = "end" /\ Advance(p) /\ call' = call /\ redis' = redis
          /\ scopes' = scopes
          /\ ended' = ended \/ ended' = [ended EXCEPT ![p] = "committed"]
      BY <2>7 DEF End, At
    <3>2. ended' \in [Process -> Outcomes]
      <4>1. "committed" \in Outcomes
        BY DEF Outcomes
      <4> QED BY <2>1, <3>1, <4>1
    <3> QED BY <2>1, <2>2, <3>1, <3>2, QuietAdvance
  <2>8. CASE LockRow(p)
    <3>1. CASE Raise(p, "refused")
      BY <3>1, RefusedBlocks
    <3>2. CASE ~Raise(p, "refused")
      <4>1. /\ Running(p) /\ Now(p).do = "lock" /\ Advance(p) /\ call' = call /\ redis' = redis
            /\ scopes' = scopes /\ ended' = ended
        BY <2>8, <3>2 DEF LockRow, At
      <4> QED BY <2>1, <2>2, <4>1, QuietAdvance
    <3> QED BY <3>1, <3>2
  <2>9. CASE LoadRows(p)
    <3>1. /\ Running(p) /\ Now(p).do = "load" /\ Advance(p) /\ call' = call /\ redis' = redis
          /\ scopes' = scopes /\ ended' = ended
      BY <2>9 DEF LoadRows, At
    <3> QED BY <2>1, <2>2, <3>1, QuietAdvance
  <2>10. CASE SaveRows(p)
    <3>1. /\ Running(p) /\ Now(p).do = "save" /\ Advance(p) /\ call' = call /\ redis' = redis
          /\ scopes' = scopes /\ ended' = ended
      BY <2>10 DEF SaveRows, At
    <3> QED BY <2>1, <2>2, <3>1, QuietAdvance
  <2>11. CASE CheckRows(p)
    <3>1. CASE Raise(p, "refused")
      BY <3>1, RefusedBlocks
    <3>2. CASE ~Raise(p, "refused")
      <4>1. /\ Running(p) /\ Now(p).do = "check" /\ Advance(p) /\ call' = call /\ redis' = redis
            /\ scopes' = scopes /\ ended' = ended
        BY <2>11, <3>2 DEF CheckRows, At
      <4> QED BY <2>1, <2>2, <4>1, QuietAdvance
    <3> QED BY <3>1, <3>2
  <2>12. CASE ExpectKnown(p)
    BY <2>12, ExpectBlocks
  <2>13. CASE Decide(p)
    BY <2>13, DecideBlocks
  <2> QED BY <1>1, <2>3, <2>4, <2>5, <2>6, <2>7, <2>8, <2>9, <2>10, <2>11, <2>12, <2>13 DEF Step
<1>2. ASSUME NEW p \in Process, BusyTimeout(p) PROVE Bracketed'
  BY <1>2, RefusedBlocks DEF BusyTimeout
<1>3. ASSUME NEW p \in Process, Crash(p) PROVE Bracketed'
  <2>1. OnProcesses(todo) /\ Rollback(p) /\ redis' = redis
    BY <1>3, InvFacts DEF Crash
  <2>2. ended' = [ended EXCEPT ![p] = IF ended[p] = "no" THEN "crashed" ELSE ended[p]]
    BY <1>3 DEF Crash
  <2>3. ended' \in [Process -> Outcomes]
    BY <2>2, BracketedFacts DEF Outcomes
  <2> QED BY <2>1, <2>3, LeaveStep
<1>4. ASSUME NEW k \in Lockable, Expire(k) PROVE Bracketed'
  BY <1>4, ExpireBlock
<1>5. ASSUME UNCHANGED vars PROVE Bracketed'
  BY <1>5 DEF vars, Bracketed, HeldWhileOpen, OpenHolds, Running
<1> QED BY <1>1, <1>2, <1>3, <1>4, <1>5 DEF Next, Finished

LEMMA BracketInit ==
  ASSUME \A s \in Start : LocksItsRows(s), Init
  PROVE  Bracketed
<1>1. PICK s \in Start : db = s.db /\ call = s.call
  BY DEF Init
<1>2. /\ WellFormed(db) /\ call \in [Process -> Call]
      /\ \A p \in Process : /\ call[p].op \notin {"fund", "rename", "unpost"}
                            /\ call[p].op = "reverse" => db[Earlier] # Gone
  BY <1>1 DEF LocksItsRows
<1>3. /\ todo = [p \in Process |-> Run(call[p], p)] /\ redis = [k \in Lockable |-> Nobody]
      /\ scopes = [p \in Process |-> <<>>] /\ ended = [p \in Process |-> "no"]
  BY DEF Init
<1>4. /\ redis \in [Lockable -> Process \union {Nobody}] /\ \A k \in Lockable : redis[k] = Nobody
      /\ scopes \in [Process -> Seq(Lockable)] /\ ended \in [Process -> Outcomes]
  BY <1>3 DEF Outcomes
<1>5. ASSUME NEW p \in Process PROVE Nested(call[p], Len(scopes[p]), todo[p], 0)
  <2>1. call[p].op = "reverse" => db[Earlier] \in TransferValue
    BY <1>2, WellFormedRows, RowKinds
  <2>2. Balanced(call[p], Run(call[p], p))
    BY <1>2, <2>1, BalancedRun
  <2>3. Nested(call[p], 0, Run(call[p], p), 0)
    BY <2>2 DEF Balanced
  <2>4. Len(scopes[p]) = 0 /\ todo[p] = Run(call[p], p)
    BY <1>3, EmptySeq
  <2> QED BY <2>3, <2>4
<1>6. HeldWhileOpen
  BY <1>4 DEF HeldWhileOpen
<1>7. OpenHolds
  <2>1. \A p \in Process : ToSet(scopes[p]) = {}
    BY <1>3 DEF ToSet
  <2> QED BY <2>1 DEF OpenHolds
<1> QED BY <1>4, <1>5, <1>6, <1>7 DEF Bracketed

LEMMA BracketedLocks ==
  ASSUME Bracketed
  PROVE  /\ redis \in [Lockable -> Process \union {Nobody}] /\ ended \in [Process -> Outcomes]
         /\ HeldWhileOpen /\ OpenHolds
BY DEF Bracketed

\* Every lock belongs to work in progress: a row lock to an open transaction, a Redis
\* lock to an open `with acquire_lock` block or to a process that is gone, and every open
\* block has its lock unless locks may lapse (common/locks.py).
THEOREM TypeCorrect ==
  ASSUME \A s \in Start : LocksItsRows(s)
  PROVE  Spec => []TypeOK
<1>1. Init => IInv /\ Bracketed
  BY InitInv, BracketInit
<1>2. IInv /\ Bracketed /\ [Next]_vars => IInv' /\ Bracketed'
  <2>1. IInv /\ [Next]_vars => IInv'
    BY StepInv
  <2>2. IInv /\ Bracketed /\ [Next]_vars => Bracketed'
    BY BracketNext DEF IInv
  <2> QED BY <2>1, <2>2
<1>3. IInv /\ Bracketed => TypeOK
  <2> SUFFICES ASSUME NEW m \in TransferValue, Inv(m), IInv, Bracketed
               PROVE  TypeOK
    BY DEF IInv
  <2>1. DOMAIN db = Row /\ call \in [Process -> Call]
    <3>1. db = [r \in Row |-> db[r]]
      BY DEF Inv, Rows, WellFormed
    <3> QED BY <3>1 DEF Inv, Shaped
  <2>2. rowlock \in [Row -> Process \union {Nobody}]
    BY DEF Inv, Shaped
  <2>3. WritesLocked /\ depth \in [Process -> 0..3]
    BY RowLocksHeld
  <2> QED BY <2>1, <2>2, <2>3, BracketedLocks DEF TypeOK, HeldWhileOpen, OpenHolds
<1> QED BY <1>1, <1>2, <1>3, PTL DEF Spec

-----------------------------------------------------------------------------
(* The order of the locks.                                                   *)

\* A start on PostgreSQL with calls that lock budgets in their order, then transfers, and
\* that wait for the account, at their commit, after those.  The others are left out for
\* what they do: a call on SQLite takes the whole database with its first lock; create,
\* resolve, split and delete lock budgets with the account's or the transaction's row
\* locked.
KeepsLockOrder(s) ==
  /\ s.engine = "postgresql"
  /\ \A p \in Process :
       s.call[p].op \in {"transfer", "reverse", "post", "archive", "edit", "drop"}

\* The locks that a process may wait for while it holds the Redis locks K or the rows A.
NextKey(k, K) == IF k \in Budget THEN K \subseteq {x \in Budget : x < k} ELSE K = {}
NextRow(r, A) ==
  \/ r \in Budget /\ A \subseteq {x \in Budget : x < r}
  \/ r \in Transfers /\ A \subseteq Budget
  \/ r = Account /\ Account \notin A /\ Tx \notin A
  \/ r = Tx /\ A \subseteq {Account}

\* What a process holds at a point of its program: its open blocks, the keys that they
\* surely (open) and at most (keys) have, its open transactions, and the rows that they
\* surely (rows) and at most (all) have locked.
Holding == [blocks : Nat, open : SUBSET Lockable, keys : SUBSET Lockable,
            deep : Nat, rows : SUBSET Row, all : SUBSET Row]
Hold(n, O, K, d, R, A) ==
  [blocks |-> n, open |-> O, keys |-> K, deep |-> d, rows |-> R, all |-> A]
Idle(d) == Hold(0, {}, {}, d, {}, {})

\* What a says of the locks implies what b says of them.
Surer(a, b) ==
  /\ a.blocks = b.blocks /\ b.open \subseteq a.open /\ a.keys \subseteq b.keys
  /\ a.deep = b.deep /\ b.rows \subseteq a.rows /\ a.all \subseteq b.all

\* Instruction i of call c by process p waits only for what comes after all that p holds,
\* as a says it, and leaves p with what b says.
Goes(c, p, i, a, b) ==
  \/ /\ i.do = "acquire" /\ i.row \in Lockable
     /\ i.row \in a.open \/ (a.all = {} /\ NextKey(i.row, a.keys))
     /\ Surer(Hold(a.blocks + 1, a.open \union {i.row}, a.keys \union {i.row},
                   a.deep, a.rows, a.all), b)
  \/ /\ i.do = "release" /\ a.blocks > 1
     /\ Surer(Hold(a.blocks - 1, {}, a.keys, a.deep, a.rows, a.all), b)
  \/ /\ i.do = "release" /\ a.blocks = 1
     /\ Surer(Hold(0, {}, {}, a.deep, a.rows, a.all), b)
  \/ /\ i.do = "begin"
     /\ Surer(Hold(a.blocks, a.open, a.keys, a.deep + 1, a.rows, a.all), b)
  \/ /\ i.do = "end" /\ a.deep > 1
     /\ Surer(Hold(a.blocks, a.open, a.keys, a.deep - 1, a.rows, a.all), b)
  \/ /\ i.do = "end" /\ a.deep = 1 /\ (p \notin a.all \/ NextRow(Account, a.all))
     /\ Surer(Hold(a.blocks, a.open, a.keys, 0, {}, {}), b)
  \/ /\ i.do = "lock" /\ i.row \in Row /\ (i.row \in a.rows \/ NextRow(i.row, a.all))
     /\ Surer(Hold(a.blocks, a.open, a.keys, a.deep, a.rows \union {i.row},
                   a.all \union {i.row}), b)
  \/ /\ i.do = "save" /\ i.rows \in SUBSET Row
     /\ \A r \in i.rows : r \in a.rows \/ NextRow(r, a.all)
     /\ Surer(Hold(a.blocks, a.open, a.keys, a.deep, a.rows \union i.rows,
                   a.all \union i.rows), b)
  \/ i.do \in {"load", "check"} /\ Surer(a, b)
  \/ /\ i.do = "expect" /\ i.rows \union {c.src, Unallocated} \subseteq a.rows
     /\ a.all \subseteq Budget
     /\ Surer(Hold(a.blocks, a.open, a.keys, a.deep, a.rows, a.all \union Transfers), b)
  \/ /\ i.do = "drain" /\ {c.src, Unallocated} \subseteq a.open
     /\ {c.src, Unallocated} \subseteq a.rows /\ a.all \subseteq Budget /\ a.deep > 0
     /\ Surer(Hold(a.blocks, {}, a.keys \union {c.src, Unallocated}, a.deep, a.rows,
                   a.all \union {c.src, Unallocated, p}), b)
  \/ /\ i.do = "drop" /\ a.blocks = 0 /\ a.keys = {} /\ a.all = {}
     /\ Surer(Hold(0, {}, {}, a.deep, {}, IF a.deep = 0 THEN {} ELSE Budget \union Transfers), b)
  \/ /\ i.do = "recheck" /\ i.rows \in SUBSET Budget /\ a.all = {}
     /\ a.blocks = Len(Doomed(c.src, i.rows))
     /\ Surer(Hold(0, {}, {}, a.deep, {}, IF a.deep = 0 THEN {} ELSE Budget \union Transfers), b)

\* Program s, from what a says to what b says, keeps to the order.
Goings(c, p, s, f) ==
  /\ f \in [0..Len(s) -> Holding]
  /\ \A j \in 1..Len(s) : Goes(c, p, s[j], f[j - 1], f[j])
Ordered(c, p, a, s, b) ==
  /\ s \in Seq(Instruction)
  /\ \E f : Goings(c, p, s, f) /\ Surer(a, f[0]) /\ Surer(f[Len(s)], b)

LEMMA SurerFacts ==
  /\ \A a : Surer(a, a)
  /\ \A a, b, e : Surer(a, b) /\ Surer(b, e) => Surer(a, e)
<1>1. ASSUME NEW a PROVE Surer(a, a)
  BY DEF Surer
<1>2. ASSUME NEW a, NEW b, NEW e, Surer(a, b), Surer(b, e) PROVE Surer(a, e)
  BY <1>2 DEF Surer
<1> QED BY <1>1, <1>2

LEMMA GoesOn ==
  ASSUME NEW c, NEW p, NEW i, NEW a, NEW b, NEW e, Goes(c, p, i, a, b), Surer(b, e)
  PROVE  Goes(c, p, i, a, e)
BY SurerFacts DEF Goes

LEMMA HoldingIs ==
  ASSUME NEW n \in Nat, NEW O \in SUBSET Lockable, NEW K \in SUBSET Lockable, NEW d \in Nat,
         NEW R \in SUBSET Row, NEW A \in SUBSET Row
  PROVE  Hold(n, O, K, d, R, A) \in Holding
BY DEF Hold, Holding

LEMMA OrderedFrom ==
  ASSUME NEW c, NEW p, NEW a, NEW b, NEW s, NEW e, Surer(e, a), Ordered(c, p, a, s, b)
  PROVE  Ordered(c, p, e, s, b)
<1>1. PICK f : Goings(c, p, s, f) /\ Surer(a, f[0]) /\ Surer(f[Len(s)], b)
  BY DEF Ordered
<1>2. Surer(e, f[0])
  BY <1>1, SurerFacts
<1> QED BY <1>1, <1>2 DEF Ordered

LEMMA OrderedTo ==
  ASSUME NEW c, NEW p, NEW a, NEW b, NEW s, NEW e, Ordered(c, p, a, s, b), Surer(b, e)
  PROVE  Ordered(c, p, a, s, e)
<1>1. PICK f : Goings(c, p, s, f) /\ Surer(a, f[0]) /\ Surer(f[Len(s)], b)
  BY DEF Ordered
<1>2. Surer(f[Len(s)], e)
  BY <1>1, SurerFacts
<1> QED BY <1>1, <1>2 DEF Ordered

LEMMA OrderedEmpty ==
  ASSUME NEW c, NEW p, NEW a \in Holding
  PROVE  Ordered(c, p, a, <<>>, a)
<1>1. <<>> \in Seq(Instruction) /\ Len(<<>>) = 0
  BY EmptySeq
<1> DEFINE f == [k \in 0..0 |-> a]
<1>2. f \in [0..Len(<<>>) -> Holding] /\ f[0] = a /\ f[Len(<<>>)] = a
  BY <1>1
<1>3. 1..Len(<<>>) = {}
  BY <1>1
<1>4. Goings(c, p, <<>>, f)
  BY <1>2, <1>3 DEF Goings
<1> QED BY <1>1, <1>2, <1>4, SurerFacts DEF Ordered

LEMMA OrderedOne ==
  ASSUME NEW c, NEW p, NEW a \in Holding, NEW b \in Holding, NEW i \in Instruction,
         Goes(c, p, i, a, b)
  PROVE  Ordered(c, p, a, <<i>>, b)
<1>1. <<i>> \in Seq(Instruction) /\ Len(<<i>>) = 1 /\ <<i>>[1] = i
  OBVIOUS
<1> DEFINE f == [j \in 0..1 |-> IF j = 0 THEN a ELSE b]
<1>2. f \in [0..Len(<<i>>) -> Holding] /\ f[0] = a /\ f[1] = b /\ f[Len(<<i>>)] = b
  BY <1>1
<1>3. ASSUME NEW j \in 1..Len(<<i>>) PROVE j = 1 /\ j - 1 = 0
  BY <1>1
<1> HIDE DEF f
<1>4. Goings(c, p, <<i>>, f)
  <2>1. ASSUME NEW j \in 1..Len(<<i>>) PROVE Goes(c, p, <<i>>[j], f[j - 1], f[j])
    <3>1. f[j - 1] = a /\ f[j] = b /\ <<i>>[j] = i
      BY <1>1, <1>2, <1>3
    <3> QED BY <3>1
  <2> QED BY <1>2, <2>1 DEF Goings
<1> QED BY <1>1, <1>2, <1>4, SurerFacts DEF Ordered

LEMMA OrderedConcat ==
  ASSUME NEW c, NEW p, NEW a, NEW b, NEW e, NEW s, NEW t,
         Ordered(c, p, a, s, b), Ordered(c, p, b, t, e)
  PROVE  Ordered(c, p, a, s \o t, e)
<1>1. /\ s \in Seq(Instruction) /\ t \in Seq(Instruction)
      /\ Len(s) \in Nat /\ Len(t) \in Nat
  BY LenProperties DEF Ordered
<1>2. /\ s \o t \in Seq(Instruction) /\ Len(s \o t) = Len(s) + Len(t)
      /\ \A j \in 1..Len(s) + Len(t) :
           (s \o t)[j] = IF j <= Len(s) THEN s[j] ELSE t[j - Len(s)]
  BY <1>1, ConcatProperties
<1>3. PICK f : Goings(c, p, s, f) /\ Surer(a, f[0]) /\ Surer(f[Len(s)], b)
  BY DEF Ordered
<1>4. PICK g : Goings(c, p, t, g) /\ Surer(b, g[0]) /\ Surer(g[Len(t)], e)
  BY DEF Ordered
<1>5. /\ f \in [0..Len(s) -> Holding] /\ g \in [0..Len(t) -> Holding]
      /\ \A j \in 1..Len(s) : Goes(c, p, s[j], f[j - 1], f[j])
      /\ \A j \in 1..Len(t) : Goes(c, p, t[j], g[j - 1], g[j])
  BY <1>3, <1>4 DEF Goings
<1>6. Surer(f[Len(s)], g[0])
  BY <1>3, <1>4, SurerFacts
<1> DEFINE h == [j \in 0..Len(s) + Len(t) |-> IF j < Len(s) THEN f[j] ELSE g[j - Len(s)]]
<1>7. h \in [0..Len(s) + Len(t) -> Holding]
  <2>1. ASSUME NEW j \in 0..Len(s) + Len(t)
        PROVE (IF j < Len(s) THEN f[j] ELSE g[j - Len(s)]) \in Holding
    <3>1. CASE j < Len(s)
      <4>1. j \in 0..Len(s)
        BY <1>1, <3>1
      <4>2. f[j] \in Holding
        BY <1>5, <4>1
      <4> QED BY <3>1, <4>2
    <3>2. CASE ~(j < Len(s))
      <4>1. j - Len(s) \in 0..Len(t)
        BY <1>1, <3>2
      <4> QED BY <1>5, <3>2, <4>1
    <3> QED BY <3>1, <3>2
  <2> QED BY <2>1
<1>8. ASSUME NEW j \in 1..Len(s) + Len(t)
      PROVE  Goes(c, p, (s \o t)[j], h[j - 1], h[j])
  <2>1. CASE j < Len(s)
    <3>1. j \in 1..Len(s) /\ j - 1 < Len(s) /\ j - 1 \in 0..Len(s) + Len(t)
      BY <1>1, <2>1
    <3>2. h[j - 1] = f[j - 1] /\ h[j] = f[j] /\ (s \o t)[j] = s[j]
      BY <1>1, <1>2, <2>1, <3>1
    <3> QED BY <1>5, <3>1, <3>2
  <2>2. CASE j = Len(s)
    <3>1. j \in 1..Len(s) /\ j - 1 < Len(s) /\ j - 1 \in 0..Len(s) + Len(t) /\ j - Len(s) = 0
      BY <1>1, <2>2
    <3>2. h[j - 1] = f[j - 1] /\ h[j] = g[0] /\ (s \o t)[j] = s[j]
      BY <1>1, <1>2, <2>2, <3>1
    <3>3. Goes(c, p, s[j], f[j - 1], f[j]) /\ Surer(f[j], g[0])
      BY <1>5, <1>6, <2>2, <3>1
    <3>4. Goes(c, p, s[j], f[j - 1], g[0])
      BY <3>3, GoesOn
    <3> QED BY <3>2, <3>4
  <2>3. CASE j > Len(s)
    <3> DEFINE i == j - Len(s)
    <3>1. /\ i \in 1..Len(t) /\ ~(j < Len(s)) /\ ~(j - 1 < Len(s)) /\ ~(j <= Len(s))
          /\ j - 1 - Len(s) = i - 1 /\ j - 1 \in 0..Len(s) + Len(t)
      BY <1>1, <2>3
    <3>2. h[j - 1] = g[i - 1] /\ h[j] = g[i] /\ (s \o t)[j] = t[i]
      BY <1>1, <1>2, <3>1
    <3>3. Goes(c, p, t[i], g[i - 1], g[i])
      BY <1>5, <3>1
    <3> QED BY <3>2, <3>3
  <2> QED BY <1>1, <2>1, <2>2, <2>3
<1>9. Surer(a, h[0]) /\ Surer(h[Len(s) + Len(t)], e)
  <2>1. h[Len(s) + Len(t)] = g[Len(t)]
    <3>1. ~(Len(s) + Len(t) < Len(s)) /\ Len(s) + Len(t) - Len(s) = Len(t)
          /\ Len(s) + Len(t) \in 0..Len(s) + Len(t)
      BY <1>1
    <3> QED BY <3>1
  <2>2. CASE Len(s) = 0
    <3>1. h[0] = g[0]
      BY <1>1, <2>2
    <3>2. Surer(a, g[0])
      BY <1>3, <1>6, <2>2, SurerFacts
    <3> QED BY <1>4, <2>1, <3>1, <3>2
  <2>3. CASE Len(s) # 0
    <3>1. h[0] = f[0]
      BY <1>1, <2>3
    <3> QED BY <1>3, <1>4, <2>1, <3>1
  <2> QED BY <2>2, <2>3
<1> HIDE DEF h
<1>10. Goings(c, p, s \o t, h)
  BY <1>2, <1>7, <1>8 DEF Goings
<1> QED BY <1>2, <1>9, <1>10 DEF Ordered

LEMMA OrderedStep ==
  ASSUME NEW c, NEW p, NEW a, NEW b, NEW s, s # <<>>, Ordered(c, p, a, s, b)
  PROVE  /\ Head(s) \in Instruction
         /\ \E x, y \in Holding : /\ Surer(a, x) /\ Goes(c, p, Head(s), x, y)
                                  /\ Ordered(c, p, y, Tail(s), b)
<1>1. s \in Seq(Instruction)
  BY DEF Ordered
<1>2. /\ Head(s) \in Instruction /\ Tail(s) \in Seq(Instruction)
      /\ Len(Tail(s)) = Len(s) - 1 /\ Len(s) \in Nat \ {0} /\ Head(s) = s[1]
      /\ \A j \in 1..Len(Tail(s)) : Tail(s)[j] = s[j + 1]
  BY <1>1, HeadTailProperties, EmptySeq
<1>3. PICK f : Goings(c, p, s, f) /\ Surer(a, f[0]) /\ Surer(f[Len(s)], b)
  BY DEF Ordered
<1>4. /\ f \in [0..Len(s) -> Holding]
      /\ \A j \in 1..Len(s) : Goes(c, p, s[j], f[j - 1], f[j])
  BY <1>3 DEF Goings
<1>5. f[0] \in Holding /\ f[1] \in Holding /\ Goes(c, p, Head(s), f[0], f[1])
  <2>1. 1 \in 1..Len(s) /\ 1 \in 0..Len(s) /\ 0 \in 0..Len(s)
    BY <1>2
  <2>2. Goes(c, p, s[1], f[1 - 1], f[1])
    BY <1>4, <2>1
  <2> QED BY <1>2, <1>4, <2>1, <2>2
<1> DEFINE g == [j \in 0..Len(Tail(s)) |-> f[j + 1]]
<1>6. g \in [0..Len(Tail(s)) -> Holding] /\ g[0] = f[1] /\ g[Len(Tail(s))] = f[Len(s)]
  BY <1>2, <1>4
<1>7. ASSUME NEW j \in 1..Len(Tail(s)) PROVE Goes(c, p, Tail(s)[j], g[j - 1], g[j])
  <2>1. j + 1 \in 1..Len(s) /\ j + 1 - 1 = j /\ j - 1 + 1 = j
    BY <1>2
  <2>2. Goes(c, p, s[j + 1], f[j], f[j + 1])
    BY <1>4, <2>1
  <2>3. g[j - 1] = f[j] /\ g[j] = f[j + 1] /\ Tail(s)[j] = s[j + 1]
    BY <1>2, <2>1
  <2> QED BY <2>2, <2>3
<1> HIDE DEF g
<1>8. Goings(c, p, Tail(s), g)
  BY <1>6, <1>7 DEF Goings
<1>9. Ordered(c, p, f[1], Tail(s), b)
  BY <1>2, <1>3, <1>6, <1>8, SurerFacts DEF Ordered
<1> QED BY <1>2, <1>3, <1>5, <1>9

\* A loop over rows goes on from f at each.
LEMMA OrderedEach ==
  ASSUME NEW c, NEW p, NEW what \in Opcodes, NEW s \in Seq(Row), NEW f,
         f \in [0..Len(s) -> Holding],
         \A j \in 1..Len(s) : Goes(c, p, Do(what, s[j]), f[j - 1], f[j])
  PROVE  Ordered(c, p, f[0], Each(what, s), f[Len(s)])
<1>1. /\ Each(what, s) \in Seq(Instruction) /\ Len(Each(what, s)) = Len(s)
      /\ \A j \in 1..Len(s) : Each(what, s)[j] = Do(what, s[j])
  BY EachInstruction
<1>2. Goings(c, p, Each(what, s), f)
  BY <1>1 DEF Goings
<1> QED BY <1>1, <1>2, SurerFacts DEF Ordered

-----------------------------------------------------------------------------
(* Programs that keep to the order.                                          *)

\* The elements of s before its j-th.
Before(s, j) == {s[i] : i \in 1..j - 1}

LEMMA BeforeFacts ==
  ASSUME NEW T, NEW s \in Seq(T)
  PROVE  /\ Len(s) \in Nat /\ \A j \in 1..Len(s) : s[j] \in T
         /\ \A j \in 1..Len(s) + 1 : Before(s, j) \in SUBSET T
         /\ Before(s, 1) = {} /\ Before(s, Len(s) + 1) = ToSet(s)
         /\ \A j \in 1..Len(s) : Before(s, j + 1) = Before(s, j) \union {s[j]}
<1>1. Len(s) \in Nat /\ DOMAIN s = 1..Len(s) /\ \A j \in 1..Len(s) : s[j] \in T
  BY LenProperties
<1>2. ASSUME NEW j \in 1..Len(s) + 1 PROVE Before(s, j) \in SUBSET T
  <2>1. \A i \in 1..j - 1 : i \in 1..Len(s)
    BY <1>1
  <2> QED BY <1>1, <2>1 DEF Before
<1>3. Before(s, 1) = {}
  <2>1. 1..1 - 1 = {}
    OBVIOUS
  <2> QED BY <2>1 DEF Before
<1>4. Before(s, Len(s) + 1) = ToSet(s)
  <2>1. 1..Len(s) + 1 - 1 = DOMAIN s
    BY <1>1
  <2> QED BY <2>1 DEF Before, ToSet
<1>5. ASSUME NEW j \in 1..Len(s) PROVE Before(s, j + 1) = Before(s, j) \union {s[j]}
  <2>1. 1..j + 1 - 1 = (1..j - 1) \union {j}
    BY <1>1
  <2>2. Before(s, j + 1) = {s[i] : i \in (1..j - 1) \union {j}}
    BY <2>1 DEF Before
  <2> QED BY <2>2 DEF Before
<1> QED BY <1>1, <1>2, <1>3, <1>4, <1>5

\* Rows locked in order, or again.
LEMMA OrderLocks ==
  ASSUME NEW c, NEW p, NEW a \in Holding, NEW s \in Seq(Row),
         \A j \in 1..Len(s) : s[j] \in a.rows \/ NextRow(s[j], a.all \union Before(s, j))
  PROVE  Ordered(c, p, a, Each("lock", s),
                 Hold(a.blocks, a.open, a.keys, a.deep, a.rows \union ToSet(s), a.all \union ToSet(s)))
<1> DEFINE at(j) == Hold(a.blocks, a.open, a.keys, a.deep, a.rows \union Before(s, j + 1),
                         a.all \union Before(s, j + 1))
<1> DEFINE f == [j \in 0..Len(s) |-> at(j)]
<1>1. /\ Len(s) \in Nat /\ \A j \in 1..Len(s) : s[j] \in Row
      /\ \A j \in 1..Len(s) + 1 : Before(s, j) \in SUBSET Row
      /\ Before(s, 1) = {} /\ Before(s, Len(s) + 1) = ToSet(s)
      /\ \A j \in 1..Len(s) : Before(s, j + 1) = Before(s, j) \union {s[j]}
  BY BeforeFacts
<1>2. /\ a.blocks \in Nat /\ a.open \in SUBSET Lockable /\ a.keys \in SUBSET Lockable
      /\ a.deep \in Nat /\ a.rows \in SUBSET Row /\ a.all \in SUBSET Row
      /\ a = Hold(a.blocks, a.open, a.keys, a.deep, a.rows, a.all)
  BY DEF Holding, Hold
<1>3. ASSUME NEW j \in 0..Len(s) PROVE at(j) \in Holding
  <2>1. j + 1 \in 1..Len(s) + 1
    BY <1>1
  <2>2. Before(s, j + 1) \in SUBSET Row
    BY <1>1, <2>1
  <2> QED BY <1>2, <2>2, HoldingIs
<1>4. ASSUME NEW j \in 1..Len(s) PROVE Goes(c, p, Do("lock", s[j]), at(j - 1), at(j))
  <2>1. j - 1 + 1 = j
    BY <1>1
  <2>2. PICK x : x = at(j - 1)
    OBVIOUS
  <2>3. /\ x.blocks = a.blocks /\ x.open = a.open /\ x.keys = a.keys /\ x.deep = a.deep
        /\ x.rows = a.rows \union Before(s, j) /\ x.all = a.all \union Before(s, j)
    BY <2>1, <2>2 DEF Hold
  <2>4. at(j) = Hold(x.blocks, x.open, x.keys, x.deep, x.rows \union {s[j]}, x.all \union {s[j]})
    <3>1. Before(s, j + 1) = Before(s, j) \union {s[j]}
      BY <1>1
    <3> QED BY <2>3, <3>1
  <2>5. s[j] \in x.rows \/ NextRow(s[j], x.all)
    BY <2>3
  <2>6. s[j] \in Row
    BY <1>1
  <2> HIDE DEF at
  <2>7. Goes(c, p, Do("lock", s[j]), x, at(j))
    BY <2>4, <2>5, <2>6, SurerFacts DEF Goes, Do
  <2> QED BY <2>2, <2>7
<1>5. at(0) = a /\ at(Len(s)) = Hold(a.blocks, a.open, a.keys, a.deep, a.rows \union ToSet(s),
                                     a.all \union ToSet(s))
  <2>1. Before(s, 0 + 1) = {}
    BY <1>1
  <2>2. a.rows \union {} = a.rows /\ a.all \union {} = a.all
    OBVIOUS
  <2>3. at(0) = a
    BY <1>2, <2>1, <2>2
  <2> QED BY <1>1, <2>3
<1> HIDE DEF at
<1>6. f \in [0..Len(s) -> Holding] /\ f[0] = at(0) /\ f[Len(s)] = at(Len(s))
  BY <1>1, <1>3
<1>7. ASSUME NEW j \in 1..Len(s) PROVE Goes(c, p, Do("lock", s[j]), f[j - 1], f[j])
  <2>1. f[j - 1] = at(j - 1) /\ f[j] = at(j)
    BY <1>1
  <2> QED BY <1>4, <2>1
<1>8. "lock" \in Opcodes
  BY DEF Opcodes
<1> HIDE DEF f
<1>9. Ordered(c, p, f[0], Each("lock", s), f[Len(s)])
  BY <1>6, <1>7, <1>8, OrderedEach
<1> QED BY <1>5, <1>6, <1>9

\* Redis locks taken in order, or again.
LEMMA OrderAcquires ==
  ASSUME NEW c, NEW p, NEW a \in Holding, NEW s \in Seq(Lockable),
         \A j \in 1..Len(s) : \/ s[j] \in a.open
                              \/ a.all = {} /\ NextKey(s[j], a.keys \union Before(s, j))
  PROVE  Ordered(c, p, a, Each("acquire", s),
                 Hold(a.blocks + Len(s), a.open \union ToSet(s), a.keys \union ToSet(s),
                      a.deep, a.rows, a.all))
<1> DEFINE at(j) == Hold(a.blocks + j, a.open \union Before(s, j + 1),
                         a.keys \union Before(s, j + 1), a.deep, a.rows, a.all)
<1> DEFINE f == [j \in 0..Len(s) |-> at(j)]
<1>1. /\ Len(s) \in Nat /\ \A j \in 1..Len(s) : s[j] \in Lockable
      /\ \A j \in 1..Len(s) + 1 : Before(s, j) \in SUBSET Lockable
      /\ Before(s, 1) = {} /\ Before(s, Len(s) + 1) = ToSet(s)
      /\ \A j \in 1..Len(s) : Before(s, j + 1) = Before(s, j) \union {s[j]}
  BY BeforeFacts
<1>2. /\ a.blocks \in Nat /\ a.open \in SUBSET Lockable /\ a.keys \in SUBSET Lockable
      /\ a.deep \in Nat /\ a.rows \in SUBSET Row /\ a.all \in SUBSET Row
      /\ a = Hold(a.blocks, a.open, a.keys, a.deep, a.rows, a.all)
  BY DEF Holding, Hold
<1>3. ASSUME NEW j \in 0..Len(s) PROVE at(j) \in Holding
  <2>1. j + 1 \in 1..Len(s) + 1 /\ a.blocks + j \in Nat
    BY <1>1, <1>2
  <2>2. Before(s, j + 1) \in SUBSET Lockable
    BY <1>1, <2>1
  <2>3. /\ a.open \union Before(s, j + 1) \in SUBSET Lockable
        /\ a.keys \union Before(s, j + 1) \in SUBSET Lockable
    BY <1>2, <2>2
  <2> QED BY <1>2, <2>1, <2>3, HoldingIs
<1>4. ASSUME NEW j \in 1..Len(s) PROVE Goes(c, p, Do("acquire", s[j]), at(j - 1), at(j))
  <2>1. j - 1 + 1 = j /\ a.blocks + (j - 1) + 1 = a.blocks + j
    BY <1>1, <1>2
  <2>2. PICK x : x = at(j - 1)
    OBVIOUS
  <2>3. /\ x.blocks = a.blocks + (j - 1) /\ x.open = a.open \union Before(s, j)
        /\ x.keys = a.keys \union Before(s, j) /\ x.deep = a.deep
        /\ x.rows = a.rows /\ x.all = a.all
    BY <2>1, <2>2 DEF Hold
  <2>4. at(j) = Hold(x.blocks + 1, x.open \union {s[j]}, x.keys \union {s[j]}, x.deep, x.rows, x.all)
    <3>1. Before(s, j + 1) = Before(s, j) \union {s[j]}
      BY <1>1
    <3>2. /\ x.open \union {s[j]} = a.open \union Before(s, j + 1)
          /\ x.keys \union {s[j]} = a.keys \union Before(s, j + 1)
      BY <2>3, <3>1
    <3>3. x.blocks + 1 = a.blocks + j
      BY <2>1, <2>3
    <3> QED BY <2>3, <3>2, <3>3
  <2>5. s[j] \in x.open \/ (x.all = {} /\ NextKey(s[j], x.keys))
    BY <2>3
  <2>6. s[j] \in Lockable
    BY <1>1
  <2> HIDE DEF at
  <2>7. Goes(c, p, Do("acquire", s[j]), x, at(j))
    BY <2>4, <2>5, <2>6, SurerFacts DEF Goes, Do
  <2> QED BY <2>2, <2>7
<1>5. at(0) = a /\ at(Len(s)) = Hold(a.blocks + Len(s), a.open \union ToSet(s),
                                     a.keys \union ToSet(s), a.deep, a.rows, a.all)
  <2>1. Before(s, 0 + 1) = {} /\ a.blocks + 0 = a.blocks
    BY <1>1, <1>2
  <2>2. a.open \union {} = a.open /\ a.keys \union {} = a.keys
    OBVIOUS
  <2>3. at(0) = a
    BY <1>2, <2>1, <2>2
  <2> QED BY <1>1, <2>3
<1> HIDE DEF at
<1>6. f \in [0..Len(s) -> Holding] /\ f[0] = at(0) /\ f[Len(s)] = at(Len(s))
  BY <1>1, <1>3
<1>7. ASSUME NEW j \in 1..Len(s) PROVE Goes(c, p, Do("acquire", s[j]), f[j - 1], f[j])
  <2>1. f[j - 1] = at(j - 1) /\ f[j] = at(j)
    BY <1>1
  <2> QED BY <1>4, <2>1
<1>8. "acquire" \in Opcodes /\ s \in Seq(Row)
  BY KeyLists DEF Opcodes
<1> HIDE DEF f
<1>9. Ordered(c, p, f[0], Each("acquire", s), f[Len(s)])
  BY <1>6, <1>7, <1>8, OrderedEach
<1> QED BY <1>5, <1>6, <1>9

\* Blocks left: all of them, or some.
LEMMA OrderReleases ==
  ASSUME NEW c, NEW p, NEW a \in Holding, NEW s \in Seq(Row), Len(s) <= a.blocks,
         a.blocks = 0 => a.keys = {}
  PROVE  Ordered(c, p, a, Each("release", s),
                 Hold(a.blocks - Len(s), {}, IF a.blocks = Len(s) THEN {} ELSE a.keys,
                      a.deep, a.rows, a.all))
<1> DEFINE left(j) == IF a.blocks = j THEN {} ELSE a.keys
<1> DEFINE at(j) == Hold(a.blocks - j, {}, left(j), a.deep, a.rows, a.all)
<1> DEFINE f == [j \in 0..Len(s) |-> at(j)]
<1>1. Len(s) \in Nat
  BY LenProperties
<1>2. /\ a.blocks \in Nat /\ a.open \in SUBSET Lockable /\ a.keys \in SUBSET Lockable
      /\ a.deep \in Nat /\ a.rows \in SUBSET Row /\ a.all \in SUBSET Row
  BY DEF Holding
<1>3. ASSUME NEW j \in 0..Len(s) PROVE at(j) \in Holding
  <2>1. a.blocks - j \in Nat /\ left(j) \in SUBSET Lockable
    BY <1>1, <1>2
  <2> HIDE DEF left
  <2> QED BY <1>2, <2>1, HoldingIs
<1>4. ASSUME NEW j \in 1..Len(s) PROVE Goes(c, p, Do("release", s[j]), at(j - 1), at(j))
  <2>1. PICK x : x = at(j - 1)
    OBVIOUS
  <2>2. /\ x.blocks = a.blocks - (j - 1) /\ x.open = {} /\ x.keys = left(j - 1) /\ x.deep = a.deep
        /\ x.rows = a.rows /\ x.all = a.all
    BY <2>1 DEF Hold
  <2>3. x.blocks - 1 = a.blocks - j /\ x.blocks >= 1 /\ a.blocks # j - 1 /\ left(j - 1) = a.keys
    BY <1>1, <1>2, <2>2
  <2>4. CASE a.blocks = j
    <3>1. x.blocks = 1 /\ at(j) = Hold(0, {}, {}, x.deep, x.rows, x.all)
      BY <1>2, <2>2, <2>3, <2>4
    <3> HIDE DEF at, left
    <3> QED BY <2>1, <3>1, SurerFacts DEF Goes, Do
  <2>5. CASE a.blocks # j
    <3>1. x.blocks > 1 /\ left(j) = x.keys
      BY <1>1, <1>2, <2>2, <2>3, <2>5
    <3> HIDE DEF left
    <3>2. at(j) = Hold(x.blocks - 1, {}, x.keys, x.deep, x.rows, x.all)
      BY <2>2, <2>3, <3>1
    <3> HIDE DEF at
    <3> QED BY <2>1, <3>1, <3>2, SurerFacts DEF Goes, Do
  <2> QED BY <2>4, <2>5
<1>5. Surer(a, at(0))
  BY <1>2 DEF Surer, Hold
<1> HIDE DEF at
<1>6. f \in [0..Len(s) -> Holding] /\ f[0] = at(0) /\ f[Len(s)] = at(Len(s))
  BY <1>1, <1>3
<1>7. ASSUME NEW j \in 1..Len(s) PROVE Goes(c, p, Do("release", s[j]), f[j - 1], f[j])
  <2>1. f[j - 1] = at(j - 1) /\ f[j] = at(j)
    BY <1>1
  <2> QED BY <1>4, <2>1
<1>8. "release" \in Opcodes
  BY DEF Opcodes
<1> HIDE DEF f
<1>9. Ordered(c, p, f[0], Each("release", s), f[Len(s)])
  BY <1>6, <1>7, <1>8, OrderedEach
<1>10. Ordered(c, p, a, Each("release", s), at(Len(s)))
  BY <1>5, <1>6, <1>9, OrderedFrom
<1> QED BY <1>10 DEF at

\* The budgets before one in the list are smaller.
LEMMA SortedBefore ==
  ASSUME NEW S \in SUBSET Budget
  PROVE  \A j \in 1..Len(Sorted(S)) : /\ Sorted(S)[j] \in Budget
                                      /\ Before(Sorted(S), j) \in SUBSET {x \in Budget : x < Sorted(S)[j]}
<1>1. PICK s : s = Sorted(S)
  OBVIOUS
<1>2. s \in Seq(Budget)
  <2>1. s \in Seq(S)
    BY <1>1, SortedRanks
  <2> QED BY <2>1, SeqMonotonic
<1>3. Len(s) \in Nat /\ \A j \in 1..Len(s) : s[j] \in Budget
  BY <1>2, LenProperties
<1>4. ASSUME NEW j \in 1..Len(s), NEW i \in 1..j - 1 PROVE s[i] \in Budget /\ s[i] < s[j]
  <2>1. i \in 1..Len(s) /\ i < j
    BY <1>3
  <2> QED BY <1>1, <1>3, <2>1, SortedRanks
<1> QED BY <1>1, <1>3, <1>4 DEF Before

\* The budgets of a service are locked in order.
LEMMA OrderSortedLocks ==
  ASSUME NEW c, NEW p, NEW S \in SUBSET Budget, NEW n \in Nat, NEW O \in SUBSET Lockable,
         NEW K \in SUBSET Lockable, NEW d \in Nat
  PROVE  Ordered(c, p, Hold(n, O, K, d, {}, {}), Each("lock", Sorted(S)), Hold(n, O, K, d, S, S))
<1>1. PICK a \in Holding : a = Hold(n, O, K, d, {}, {})
  BY HoldingIs
<1>2. /\ a.blocks = n /\ a.open = O /\ a.keys = K /\ a.deep = d /\ a.rows = {} /\ a.all = {}
  BY <1>1 DEF Hold
<1>3. PICK s \in Seq(Row) : s = Sorted(S) /\ ToSet(s) = S
  BY SortedLocks
<1>4. ASSUME NEW j \in 1..Len(s) PROVE NextRow(s[j], a.all \union Before(s, j))
  BY <1>2, <1>3, SortedBefore DEF NextRow
<1>5. Ordered(c, p, a, Each("lock", s), Hold(a.blocks, a.open, a.keys, a.deep, a.rows \union ToSet(s),
                                              a.all \union ToSet(s)))
  BY <1>4, OrderLocks
<1>6. a.rows \union ToSet(s) = S /\ a.all \union ToSet(s) = S
  BY <1>2, <1>3
<1> QED BY <1>1, <1>2, <1>3, <1>5, <1>6

LEMMA OrderSortedAcquires ==
  ASSUME NEW c, NEW p, NEW S \in SUBSET Budget, NEW d \in Nat
  PROVE  Ordered(c, p, Idle(d), Each("acquire", Sorted(S)),
                 Hold(Len(Sorted(S)), S, S, d, {}, {}))
<1>1. PICK a \in Holding : a = Hold(0, {}, {}, d, {}, {})
  BY HoldingIs
<1>2. /\ a.blocks = 0 /\ a.open = {} /\ a.keys = {} /\ a.deep = d /\ a.rows = {} /\ a.all = {}
  BY <1>1 DEF Hold
<1>3. PICK s \in Seq(Lockable) : s = Sorted(S) /\ ToSet(s) = S
  BY SortedLocks
<1>4. ASSUME NEW j \in 1..Len(s) PROVE a.all = {} /\ NextKey(s[j], a.keys \union Before(s, j))
  BY <1>2, <1>3, SortedBefore DEF NextKey
<1>5. Ordered(c, p, a, Each("acquire", s), Hold(a.blocks + Len(s), a.open \union ToSet(s),
                                                 a.keys \union ToSet(s), a.deep, a.rows, a.all))
  BY <1>4, OrderAcquires
<1>6. a.open \union ToSet(s) = S /\ a.keys \union ToSet(s) = S /\ a.blocks + Len(s) = Len(s)
  BY <1>2, <1>3, LenProperties
<1> QED BY <1>1, <1>2, <1>3, <1>5, <1>6 DEF Idle

\* What is left of the rows A at the end of a transaction inside d others.
Rest(d, A) == IF d = 0 THEN {} ELSE A
Left(d, A) == Hold(0, {}, {}, d, {}, Rest(d, A))

\* At its commit a call that has inserted p's transfer does not hold the account.
MayEnd(p, A) == A \in SUBSET Row /\ (p \notin A \/ NextRow(Account, A))

LEMMA OrderEnd ==
  ASSUME NEW c, NEW p, NEW n \in Nat, NEW O \in SUBSET Lockable, NEW K \in SUBSET Lockable,
         NEW d \in Nat, NEW R \in SUBSET Row, NEW A, MayEnd(p, A)
  PROVE  Ordered(c, p, Hold(n, O, K, d + 1, R, A), <<DoAll("end", {})>>, Hold(n, O, K, d, {}, Rest(d, A)))
<1>1. A \in SUBSET Row /\ Rest(d, A) \in SUBSET Row /\ {} \in SUBSET Row
  BY DEF MayEnd, Rest
<1>2. PICK a \in Holding : a = Hold(n, O, K, d + 1, R, A)
  BY <1>1, HoldingIs
<1>3. PICK b \in Holding : b = Hold(n, O, K, d, {}, Rest(d, A))
  BY <1>1, HoldingIs
<1>4. DoAll("end", {}) \in Instruction
  BY DEF DoAll, Instruction, Opcodes
<1>5. /\ a.blocks = n /\ a.open = O /\ a.keys = K /\ a.deep = d + 1 /\ a.rows = R /\ a.all = A
  BY <1>2 DEF Hold
<1>6. Goes(c, p, DoAll("end", {}), a, b)
  <2>1. CASE d = 0
    <3>1. a.deep = 1 /\ b = Hold(a.blocks, a.open, a.keys, 0, {}, {})
      BY <1>3, <1>5, <2>1 DEF Rest
    <3>2. p \notin a.all \/ NextRow(Account, a.all)
      BY <1>5 DEF MayEnd
    <3> QED BY <3>1, <3>2, SurerFacts DEF Goes, DoAll
  <2>2. CASE d # 0
    <3>1. a.deep > 1 /\ a.deep - 1 = d
      BY <1>5, <2>2
    <3>2. Surer(Hold(a.blocks, a.open, a.keys, a.deep - 1, a.rows, a.all), b)
      BY <1>3, <1>5, <2>2, <3>1 DEF Surer, Hold, Rest
    <3> QED BY <3>1, <3>2 DEF Goes, DoAll
  <2> QED BY <2>1, <2>2
<1> QED BY <1>2, <1>3, <1>4, <1>6, OrderedOne

LEMMA OrderBegin ==
  ASSUME NEW c, NEW p, NEW n \in Nat, NEW O \in SUBSET Lockable, NEW K \in SUBSET Lockable,
         NEW d \in Nat, NEW R \in SUBSET Row, NEW A \in SUBSET Row
  PROVE  Ordered(c, p, Hold(n, O, K, d, R, A), <<DoAll("begin", {})>>, Hold(n, O, K, d + 1, R, A))
<1>1. PICK a \in Holding : a = Hold(n, O, K, d, R, A)
  BY HoldingIs
<1>2. PICK b \in Holding : b = Hold(n, O, K, d + 1, R, A)
  BY HoldingIs
<1>3. DoAll("begin", {}) \in Instruction
  BY DEF DoAll, Instruction, Opcodes
<1>4. b = Hold(a.blocks, a.open, a.keys, a.deep + 1, a.rows, a.all)
  BY <1>1, <1>2 DEF Hold
<1>5. Goes(c, p, DoAll("begin", {}), a, b)
  BY <1>4, SurerFacts DEF Goes, DoAll
<1> QED BY <1>1, <1>2, <1>3, <1>5, OrderedOne

LEMMA OrderAtomic ==
  ASSUME NEW c, NEW p, NEW n \in Nat, NEW O \in SUBSET Lockable, NEW K \in SUBSET Lockable,
         NEW d \in Nat, NEW O2 \in SUBSET Lockable, NEW R \in SUBSET Row, NEW A, MayEnd(p, A), NEW body,
         Ordered(c, p, Hold(n, O, K, d + 1, {}, {}), body, Hold(n, O2, K, d + 1, R, A))
  PROVE  Ordered(c, p, Hold(n, O, K, d, {}, {}), Atomic(body), Hold(n, O2, K, d, {}, Rest(d, A)))
<1>1. Ordered(c, p, Hold(n, O, K, d, {}, {}), <<DoAll("begin", {})>>, Hold(n, O, K, d + 1, {}, {}))
  BY OrderBegin
<1>2. Ordered(c, p, Hold(n, O2, K, d + 1, R, A), <<DoAll("end", {})>>, Hold(n, O2, K, d, {}, Rest(d, A)))
  BY OrderEnd
<1>3. Ordered(c, p, Hold(n, O, K, d, {}, {}), <<DoAll("begin", {})>> \o body, Hold(n, O2, K, d + 1, R, A))
  BY <1>1, OrderedConcat
<1> QED BY <1>2, <1>3, OrderedConcat DEF Atomic

\* The end of a service's blocks.
LEMMA OrderLeave ==
  ASSUME NEW c, NEW p, NEW s \in Seq(Lockable), NEW O \in SUBSET Lockable, NEW d \in Nat,
         NEW R \in SUBSET Row, NEW A \in SUBSET Row
  PROVE  Ordered(c, p, Hold(Len(s), O, ToSet(s), d, R, A), Each("release", Reverse(s)), Hold(0, {}, {}, d, R, A))
<1>1. Reverse(s) \in Seq(Row) /\ Len(Reverse(s)) = Len(s) /\ Len(s) \in Nat
  BY ReversedKeys, LenProperties
<1>2. ToSet(s) \in SUBSET Lockable /\ (Len(s) = 0 => ToSet(s) = {})
  BY OpenKeys
<1>3. PICK a \in Holding : a = Hold(Len(s), O, ToSet(s), d, R, A)
  BY <1>1, <1>2, HoldingIs
<1>4. /\ a.blocks = Len(s) /\ a.keys = ToSet(s) /\ a.deep = d /\ a.rows = R /\ a.all = A
  BY <1>3 DEF Hold
<1>5. Ordered(c, p, a, Each("release", Reverse(s)),
              Hold(a.blocks - Len(Reverse(s)), {}, IF a.blocks = Len(Reverse(s)) THEN {} ELSE a.keys,
                   a.deep, a.rows, a.all))
  <2>1. Len(Reverse(s)) <= a.blocks /\ (a.blocks = 0 => a.keys = {})
    BY <1>1, <1>2, <1>4
  <2> QED BY <1>1, <2>1, OrderReleases
<1>6. a.blocks - Len(Reverse(s)) = 0 /\ a.blocks = Len(Reverse(s))
  BY <1>1, <1>4
<1> QED BY <1>3, <1>4, <1>5, <1>6

LEMMA OrderScope ==
  ASSUME NEW c, NEW p, NEW s \in Seq(Lockable), NEW d \in Nat, NEW O \in SUBSET Lockable,
         NEW R \in SUBSET Row, NEW A \in SUBSET Row, NEW body,
         Ordered(c, p, Idle(d), Each("acquire", s), Hold(Len(s), ToSet(s), ToSet(s), d, {}, {})),
         Ordered(c, p, Hold(Len(s), ToSet(s), ToSet(s), d, {}, {}), body, Hold(Len(s), O, ToSet(s), d, R, A))
  PROVE  Ordered(c, p, Idle(d), Scope(s, body), Hold(0, {}, {}, d, R, A))
<1>1. Ordered(c, p, Hold(Len(s), O, ToSet(s), d, R, A), Each("release", Reverse(s)), Hold(0, {}, {}, d, R, A))
  BY OrderLeave
<1>2. Ordered(c, p, Idle(d), Each("acquire", s) \o body, Hold(Len(s), O, ToSet(s), d, R, A))
  BY OrderedConcat
<1> QED BY <1>1, <1>2, OrderedConcat DEF Scope

\* Rows that are locked, or come next, are saved.
LEMMA OrderSave ==
  ASSUME NEW c, NEW p, NEW a \in Holding, NEW S \in SUBSET Row,
         \A r \in S : r \in a.rows \/ NextRow(r, a.all)
  PROVE  Ordered(c, p, a, Save(S), Hold(a.blocks, a.open, a.keys, a.deep, a.rows \union S, a.all \union S))
<1>1. PICK b \in Holding : b = Hold(a.blocks, a.open, a.keys, a.deep, a.rows \union S, a.all \union S)
  <2>1. /\ a.blocks \in Nat /\ a.open \in SUBSET Lockable /\ a.keys \in SUBSET Lockable
        /\ a.deep \in Nat /\ a.rows \union S \in SUBSET Row /\ a.all \union S \in SUBSET Row
    BY DEF Holding
  <2> QED BY <2>1, HoldingIs
<1>2. DoAll("save", S) \in Instruction
  BY DEF DoAll, Instruction, Opcodes
<1>3. Goes(c, p, DoAll("save", S), a, b)
  BY <1>1, SurerFacts DEF Goes, DoAll
<1> QED BY <1>1, <1>2, <1>3, OrderedOne DEF Save

\* A point of a program that is only about what its process holds.
LEMMA OrderPass ==
  ASSUME NEW c, NEW p, NEW a \in Holding, NEW b \in Holding, NEW what \in Opcodes, NEW S \in SUBSET Row,
         Goes(c, p, DoAll(what, S), a, b)
  PROVE  Ordered(c, p, a, <<DoAll(what, S)>>, b)
<1>1. DoAll(what, S) \in Instruction
  BY DEF DoAll, Instruction
<1> QED BY <1>1, OrderedOne

LEMMA OrderReads ==
  ASSUME NEW c, NEW p, NEW a \in Holding, NEW S \in SUBSET Row
  PROVE  Ordered(c, p, a, Load(S), a) /\ Ordered(c, p, a, Check, a)
<1>1. Goes(c, p, DoAll("load", S), a, a) /\ Goes(c, p, DoAll("check", {}), a, a)
  BY SurerFacts DEF Goes, DoAll
<1>2. "load" \in Opcodes /\ "check" \in Opcodes /\ {} \in SUBSET Row
  BY DEF Opcodes
<1>3. Ordered(c, p, a, <<DoAll("load", S)>>, a)
  BY <1>1, <1>2, OrderPass
<1>4. Ordered(c, p, a, <<DoAll("check", {})>>, a)
  BY <1>1, <1>2, OrderPass
<1> QED BY <1>3, <1>4 DEF Load, Check

-----------------------------------------------------------------------------
(* ... those of the calls, and what their plans put before the rest.         *)

LEMMA AccountLast ==
  ASSUME NEW p, NEW A, A \subseteq Budget \union Transfers
  PROVE  MayEnd(p, A) /\ A \in SUBSET Row
<1>1. Account \notin Budget \union Transfers /\ Tx \notin Budget \union Transfers
  BY RowsApart DEF Transfers
<1>2. A \in SUBSET Row
  BY DEF Row
<1> QED BY <1>1, <1>2 DEF MayEnd, NextRow

LEMMA OrderLocked ==
  ASSUME NEW c, NEW p, NEW S \in SUBSET Budget, NEW d \in Nat, NEW O \in SUBSET Lockable,
         NEW R \in SUBSET Row, NEW A, MayEnd(p, A), NEW body, NEW n, n = Len(Sorted(S)),
         Ordered(c, p, Hold(n, S, S, d + 1, S, S), body, Hold(n, O, S, d + 1, R, A))
  PROVE  Ordered(c, p, Idle(d), Locked(Sorted(S), body), Left(d, A))
<1>1. PICK s \in Seq(Lockable) : s = Sorted(S) /\ ToSet(s) = S
  BY SortedLocks
<1>2. n \in Nat /\ n = Len(s) /\ d + 1 \in Nat /\ S \in SUBSET Lockable
  BY <1>1, LenProperties, KnownKeys
<1>3. Ordered(c, p, Hold(n, S, S, d + 1, {}, {}), Each("lock", s), Hold(n, S, S, d + 1, S, S))
  BY <1>1, <1>2, OrderSortedLocks
<1>4. Ordered(c, p, Hold(n, S, S, d + 1, {}, {}), Each("lock", s) \o body, Hold(n, O, S, d + 1, R, A))
  BY <1>3, OrderedConcat
<1>5. Ordered(c, p, Hold(n, S, S, d, {}, {}), Atomic(Each("lock", s) \o body), Hold(n, O, S, d, {}, Rest(d, A)))
  BY <1>2, <1>4, OrderAtomic
<1>6. Ordered(c, p, Idle(d), Each("acquire", s), Hold(n, S, S, d, {}, {}))
  BY <1>1, <1>2, OrderSortedAcquires
<1>7. Rest(d, A) \in SUBSET Row
  BY DEF Rest, MayEnd
<1>8. Ordered(c, p, Idle(d), Scope(s, Atomic(Each("lock", s) \o body)), Hold(0, {}, {}, d, {}, Rest(d, A)))
  BY <1>1, <1>2, <1>5, <1>6, <1>7, OrderScope
<1> QED BY <1>1, <1>8 DEF Locked, Left

LEMMA OrderTransfer ==
  ASSUME NEW c, NEW p \in Process, NEW s \in Budget, NEW t \in Budget, NEW d \in Nat
  PROVE  Ordered(c, p, Idle(d), Transferring(p, s, t), Left(d, {s, t, p}))
<1>1. PICK S \in SUBSET Budget : S = {s, t}
  OBVIOUS
<1>2. S \in SUBSET Row /\ S \in SUBSET Lockable /\ S \union {p} \in SUBSET Row /\ d + 1 \in Nat
      /\ p \in Transfers /\ S \union {p} \subseteq Budget \union Transfers
  BY KnownKeys DEF Transfers
<1>3. PICK n \in Nat : n = Len(Sorted(S))
  BY SortedLocks, LenProperties
<1>4. PICK a \in Holding : a = Hold(n, S, S, d + 1, S, S)
  BY <1>2, HoldingIs
<1>5. a.blocks = n /\ a.open = S /\ a.keys = S /\ a.deep = d + 1 /\ a.rows = S /\ a.all = S
  BY <1>4 DEF Hold
<1>6. \A r \in S \union {p} : r \in a.rows \/ NextRow(r, a.all)
  BY <1>2, <1>5 DEF NextRow
<1>7. Ordered(c, p, a, Save(S \union {p}),
              Hold(a.blocks, a.open, a.keys, a.deep, a.rows \union (S \union {p}), a.all \union (S \union {p})))
  BY <1>2, <1>6, OrderSave
<1>8. S \union (S \union {p}) = S \union {p}
  OBVIOUS
<1>9. Ordered(c, p, Hold(n, S, S, d + 1, S, S), Save(S \union {p}),
              Hold(n, S, S, d + 1, S \union {p}, S \union {p}))
  BY <1>4, <1>5, <1>7, <1>8
<1>10. MayEnd(p, S \union {p})
  BY <1>2, AccountLast
<1>11. Ordered(c, p, Idle(d), Locked(Sorted(S), Save(S \union {p})), Left(d, S \union {p}))
  BY <1>2, <1>3, <1>9, <1>10, OrderLocked
<1>12. S \union {p} = {s, t, p}
  BY <1>1
<1> QED BY <1>1, <1>11, <1>12 DEF Transferring

LEMMA OrderEdit ==
  ASSUME NEW c, NEW p, NEW b \in Budget, NEW d \in Nat
  PROVE  Ordered(c, p, Idle(d), Locked(<<b>>, Save({b})), Left(d, {b})) /\ MayEnd(p, {b})
<1>1. PICK S \in SUBSET Budget : S = {b}
  OBVIOUS
<1>2. Sorted(S) = <<b>>
  <2>1. Sorted(S) \in Seq(S) /\ Len(Sorted(S)) = 1
    <3>1. Cardinality(S) = 1
      BY <1>1, FS_Singleton
    <3> QED BY <3>1, SortedRanks
  <2>2. PICK s \in Seq(S) : s = Sorted(S) /\ Len(s) = 1
    BY <2>1
  <2>3. s[1] \in S
    <3>1. 1 \in 1..Len(s)
      BY <2>2
    <3> QED BY <3>1, BeforeFacts
  <2>4. s = <<s[1]>>
    BY <2>2
  <2> QED BY <1>1, <2>2, <2>3, <2>4
<1>3. S \in SUBSET Row /\ S \in SUBSET Lockable /\ d + 1 \in Nat /\ S \subseteq Budget \union Transfers
  BY KnownKeys
<1>4. PICK n \in Nat : n = Len(Sorted(S))
  BY SortedLocks, LenProperties
<1>5. PICK a \in Holding : a = Hold(n, S, S, d + 1, S, S)
  BY <1>3, HoldingIs
<1>6. a.blocks = n /\ a.open = S /\ a.keys = S /\ a.deep = d + 1 /\ a.rows = S /\ a.all = S
  BY <1>5 DEF Hold
<1>7. Ordered(c, p, a, Save(S), Hold(a.blocks, a.open, a.keys, a.deep, a.rows \union S, a.all \union S))
  BY <1>3, <1>6, OrderSave
<1>8. S \union S = S
  OBVIOUS
<1>9. Ordered(c, p, Hold(n, S, S, d + 1, S, S), Save(S), Hold(n, S, S, d + 1, S, S))
  BY <1>5, <1>6, <1>7, <1>8
<1>10. MayEnd(p, S)
  BY <1>3, AccountLast
<1>11. Ordered(c, p, Idle(d), Locked(Sorted(S), Save(S)), Left(d, S))
  BY <1>3, <1>4, <1>9, <1>10, OrderLocked
<1> QED BY <1>1, <1>2, <1>10, <1>11

LEMMA OrderReverse ==
  ASSUME NEW c, NEW p, NEW m \in TransferValue, NEW d \in Nat
  PROVE  /\ Ordered(c, p, Idle(d), Reversing(m), Left(d, Ends(m) \union {Earlier}))
         /\ MayEnd(p, Ends(m) \union {Earlier})
<1>1. PICK S \in SUBSET Budget : S = Ends(m)
  BY DEF Ends, TransferValue
<1>2. PICK T : T = S \union {Earlier}
  OBVIOUS
<1>3. /\ S \in SUBSET Row /\ S \in SUBSET Lockable /\ T \in SUBSET Row /\ d + 1 \in Nat
      /\ Earlier \in Transfers /\ T \subseteq Budget \union Transfers /\ S \union {Earlier} = T
      /\ T \union T = T
  BY <1>2, KnownKeys DEF Transfers
<1>4. PICK s \in Seq(Lockable) : s = Sorted(S) /\ ToSet(s) = S
  BY SortedLocks
<1>5. PICK n \in Nat : n = Len(s)
  BY LenProperties
<1>6. Ordered(c, p, Hold(n, S, S, d + 1, {}, {}), Each("lock", s), Hold(n, S, S, d + 1, S, S))
  BY <1>3, <1>4, <1>5, OrderSortedLocks
<1>7. Ordered(c, p, Hold(n, S, S, d + 1, S, S), Each("lock", <<Earlier>>), Hold(n, S, S, d + 1, T, T))
  <2>1. PICK a \in Holding : a = Hold(n, S, S, d + 1, S, S)
    BY <1>3, HoldingIs
  <2>2. a.blocks = n /\ a.open = S /\ a.keys = S /\ a.deep = d + 1 /\ a.rows = S /\ a.all = S
    BY <2>1 DEF Hold
  <2>3. PICK e \in Seq(Row) : e = <<Earlier>> /\ Len(e) = 1 /\ ToSet(e) = {Earlier} /\ e[1] = Earlier
    BY KnownKeys, KeyLists
  <2>4. ASSUME NEW j \in 1..Len(e) PROVE NextRow(e[j], a.all \union Before(e, j))
    <3>1. j = 1
      BY <2>3
    <3>2. Before(e, 1) = {}
      <4>1. e \in Seq(Row)
        OBVIOUS
      <4> QED BY <4>1, BeforeFacts
    <3>3. NextRow(Earlier, S) /\ S \union {} = S
      BY <1>3 DEF NextRow
    <3> QED BY <2>2, <2>3, <3>1, <3>2, <3>3
  <2>5. Ordered(c, p, a, Each("lock", e), Hold(a.blocks, a.open, a.keys, a.deep, a.rows \union ToSet(e),
                                                a.all \union ToSet(e)))
    BY <2>4, OrderLocks
  <2> QED BY <1>3, <2>1, <2>2, <2>3, <2>5
<1>8. Ordered(c, p, Hold(n, S, S, d + 1, T, T), Save(T), Hold(n, S, S, d + 1, T, T))
  <2>1. PICK a \in Holding : a = Hold(n, S, S, d + 1, T, T)
    BY <1>3, HoldingIs
  <2>2. a.blocks = n /\ a.open = S /\ a.keys = S /\ a.deep = d + 1 /\ a.rows = T /\ a.all = T
    BY <2>1 DEF Hold
  <2>3. Ordered(c, p, a, Save(T), Hold(a.blocks, a.open, a.keys, a.deep, a.rows \union T, a.all \union T))
    BY <1>3, <2>2, OrderSave
  <2> QED BY <1>3, <2>1, <2>2, <2>3
<1>9. Ordered(c, p, Hold(n, S, S, d + 1, {}, {}), Each("lock", s) \o Each("lock", <<Earlier>>) \o Save(T),
              Hold(n, S, S, d + 1, T, T))
  BY <1>6, <1>7, <1>8, OrderedConcat
<1>10. MayEnd(p, T)
  BY <1>3, AccountLast
<1>11. Ordered(c, p, Hold(n, S, S, d, {}, {}),
               Atomic(Each("lock", s) \o Each("lock", <<Earlier>>) \o Save(T)), Hold(n, S, S, d, {}, Rest(d, T)))
  BY <1>3, <1>9, <1>10, OrderAtomic
<1>12. Ordered(c, p, Idle(d), Each("acquire", s), Hold(n, S, S, d, {}, {}))
  BY <1>4, <1>5, OrderSortedAcquires
<1>13. Rest(d, T) \in SUBSET Row
  BY <1>3 DEF Rest
<1>14. Ordered(c, p, Idle(d), Scope(s, Atomic(Each("lock", s) \o Each("lock", <<Earlier>>) \o Save(T))),
               Hold(0, {}, {}, d, {}, Rest(d, T)))
  BY <1>3, <1>4, <1>5, <1>11, <1>12, <1>13, OrderScope
<1> QED BY <1>1, <1>2, <1>4, <1>10, <1>14 DEF Reversing, Left

LEMMA OrderPost ==
  ASSUME NEW c, NEW p \in Process, NEW d \in Nat
  PROVE  /\ Ordered(c, p, Idle(d), Updating({Account, Tx}), Left(d, {Account, Tx}))
         /\ MayEnd(p, {Account, Tx})
<1>1. PICK K : K = {Account} /\ K \in SUBSET Lockable /\ K \in SUBSET Row
  BY KnownKeys
<1>2. PICK T : T = {Account, Tx} /\ T \in SUBSET Row /\ p \notin T /\ T \union T = T
  BY KnownKeys, RowsApart
<1>3. PICK s \in Seq(Lockable) : s = <<Account>> /\ Len(s) = 1 /\ s[1] = Account /\ ToSet(s) = K
  BY <1>1, KnownKeys, KeyLists
<1>4. Ordered(c, p, Idle(d), Each("acquire", s), Hold(1, K, K, d, {}, {}))
  <2>1. PICK a \in Holding : a = Hold(0, {}, {}, d, {}, {})
    BY HoldingIs
  <2>2. a.blocks = 0 /\ a.open = {} /\ a.keys = {} /\ a.deep = d /\ a.rows = {} /\ a.all = {}
    BY <2>1 DEF Hold
  <2>3. ASSUME NEW j \in 1..Len(s) PROVE a.all = {} /\ NextKey(s[j], a.keys \union Before(s, j))
    <3>1. j = 1
      BY <1>3
    <3>2. Before(s, 1) = {}
      <4>1. s \in Seq(Lockable)
        OBVIOUS
      <4> QED BY <4>1, BeforeFacts
    <3>3. NextKey(Account, {})
      BY RowsApart DEF NextKey
    <3> QED BY <1>3, <2>2, <3>1, <3>2, <3>3
  <2>4. Ordered(c, p, a, Each("acquire", s), Hold(a.blocks + Len(s), a.open \union ToSet(s),
                                                   a.keys \union ToSet(s), a.deep, a.rows, a.all))
    BY <2>3, OrderAcquires
  <2>5. a.open \union ToSet(s) = K /\ a.keys \union ToSet(s) = K /\ a.blocks + Len(s) = 1
    BY <1>3, <2>2
  <2> QED BY <2>1, <2>2, <2>4, <2>5 DEF Idle
<1>5. Ordered(c, p, Hold(1, K, K, d + 1, {}, {}), Each("lock", <<Account, Tx>>), Hold(1, K, K, d + 1, T, T))
  <2>1. PICK a \in Holding : a = Hold(1, K, K, d + 1, {}, {})
    BY <1>1, HoldingIs
  <2>2. a.blocks = 1 /\ a.open = K /\ a.keys = K /\ a.deep = d + 1 /\ a.rows = {} /\ a.all = {}
    BY <2>1 DEF Hold
  <2>3. PICK e \in Seq(Row) : /\ e = <<Account, Tx>> /\ Len(e) = 2 /\ e[1] = Account /\ e[2] = Tx
                              /\ ToSet(e) = T
    BY <1>2, KnownKeys, KeyLists
  <2>4. Before(e, 1) = {} /\ Before(e, 2) = {Account}
    <3>1. 1 \in 1..Len(e) /\ 1 + 1 = 2
      BY <2>3
    <3>2. Before(e, 1) = {} /\ Before(e, 1 + 1) = Before(e, 1) \union {e[1]}
      BY <3>1, BeforeFacts
    <3> QED BY <2>3, <3>1, <3>2
  <2>5. ASSUME NEW j \in 1..Len(e) PROVE NextRow(e[j], a.all \union Before(e, j))
    <3>1. NextRow(Account, {}) /\ NextRow(Tx, {Account})
      BY DEF NextRow
    <3>2. j = 1 \/ j = 2
      BY <2>3
    <3>3. CASE j = 1
      BY <2>2, <2>3, <2>4, <3>1, <3>3
    <3>4. CASE j = 2
      BY <2>2, <2>3, <2>4, <3>1, <3>4
    <3> QED BY <3>2, <3>3, <3>4
  <2>6. Ordered(c, p, a, Each("lock", e), Hold(a.blocks, a.open, a.keys, a.deep, a.rows \union ToSet(e),
                                                a.all \union ToSet(e)))
    BY <2>5, OrderLocks
  <2>7. {} \union T = T
    OBVIOUS
  <2> QED BY <2>1, <2>2, <2>3, <2>6, <2>7
<1>6. Ordered(c, p, Hold(1, K, K, d + 1, T, T), Save(T), Hold(1, K, K, d + 1, T, T))
  <2>1. PICK a \in Holding : a = Hold(1, K, K, d + 1, T, T)
    BY <1>1, <1>2, HoldingIs
  <2>2. a.blocks = 1 /\ a.open = K /\ a.keys = K /\ a.deep = d + 1 /\ a.rows = T /\ a.all = T
    BY <2>1 DEF Hold
  <2>3. Ordered(c, p, a, Save(T), Hold(a.blocks, a.open, a.keys, a.deep, a.rows \union T, a.all \union T))
    BY <1>2, <2>2, OrderSave
  <2> QED BY <1>2, <2>1, <2>2, <2>3
<1>7. Ordered(c, p, Hold(1, K, K, d + 1, {}, {}), Each("lock", <<Account, Tx>>) \o Save(T),
              Hold(1, K, K, d + 1, T, T))
  BY <1>5, <1>6, OrderedConcat
<1>8. MayEnd(p, T)
  BY <1>2 DEF MayEnd
<1>9. Ordered(c, p, Hold(1, K, K, d, {}, {}), Atomic(Each("lock", <<Account, Tx>>) \o Save(T)),
              Hold(1, K, K, d, {}, Rest(d, T)))
  BY <1>1, <1>2, <1>7, <1>8, OrderAtomic
<1>10. Rest(d, T) \in SUBSET Row
  BY <1>2 DEF Rest
<1>11. Ordered(c, p, Idle(d), Scope(s, Atomic(Each("lock", <<Account, Tx>>) \o Save(T))),
               Hold(0, {}, {}, d, {}, Rest(d, T)))
  BY <1>1, <1>3, <1>4, <1>9, <1>10, OrderScope
<1> QED BY <1>2, <1>3, <1>8, <1>11 DEF Updating, Left

\* budget.archive, with the transfer that it may make.
LEMMA OrderArchive ==
  ASSUME NEW c, NEW p \in Process, c.src \in Budget, NEW d \in Nat
  PROVE  /\ Ordered(c, p, Idle(d), Archiving(c.src), Left(d, {c.src, Unallocated, p}))
         /\ MayEnd(p, {c.src, Unallocated, p})
<1>1. PICK S \in SUBSET Budget : S = {c.src, Unallocated}
  BY KnownKeys
<1>2. PICK T : T = {c.src, Unallocated, p}
  OBVIOUS
<1>3. /\ S \in SUBSET Row /\ S \in SUBSET Lockable /\ T \in SUBSET Row /\ d + 1 \in Nat /\ d + 1 > 0
      /\ T \subseteq Budget \union Transfers /\ S \union T = T /\ T \union {c.src} = T
      /\ {c.src} \in SUBSET Row /\ S \union {c.src} = S /\ S \union S = S
  BY <1>1, <1>2, KnownKeys DEF Transfers
<1>4. PICK n \in Nat : n = Len(Sorted(S))
  BY SortedLocks, LenProperties
<1>5. PICK a \in Holding : a = Hold(n, S, S, d + 1, S, S)
  BY <1>3, HoldingIs
<1>6. a.blocks = n /\ a.open = S /\ a.keys = S /\ a.deep = d + 1 /\ a.rows = S /\ a.all = S
  BY <1>5 DEF Hold
<1>7. PICK b \in Holding : b = Hold(n, {}, S, d + 1, S, T)
  BY <1>3, HoldingIs
<1>8. b.blocks = n /\ b.open = {} /\ b.keys = S /\ b.deep = d + 1 /\ b.rows = S /\ b.all = T
  BY <1>7 DEF Hold
<1>9. Ordered(c, p, a, Plan("drain", {}), b)
  <2>1. b = Hold(a.blocks, {}, a.keys \union {c.src, Unallocated}, a.deep, a.rows,
                 a.all \union {c.src, Unallocated, p})
    BY <1>1, <1>2, <1>3, <1>6, <1>7
  <2>2. Goes(c, p, DoAll("drain", {}), a, b)
    BY <1>1, <1>3, <1>6, <2>1, SurerFacts DEF Goes, DoAll
  <2>3. "drain" \in Opcodes /\ {} \in SUBSET Row
    BY DEF Opcodes, Plans
  <2> QED BY <2>2, <2>3, OrderPass DEF Plan
<1>10. Ordered(c, p, b, Load({c.src}), b)
  BY <1>3, OrderReads
<1>11. Ordered(c, p, b, Save({c.src}), b)
  <2>1. \A r \in {c.src} : r \in b.rows \/ NextRow(r, b.all)
    BY <1>1, <1>8
  <2>2. Ordered(c, p, b, Save({c.src}), Hold(b.blocks, b.open, b.keys, b.deep, b.rows \union {c.src},
                                             b.all \union {c.src}))
    BY <1>3, <2>1, OrderSave
  <2> QED BY <1>3, <1>7, <1>8, <2>2
<1>12. Ordered(c, p, a, Plan("drain", {}) \o Load({c.src}) \o Save({c.src}), b)
  <2>1. Ordered(c, p, a, Plan("drain", {}) \o Load({c.src}), b)
    BY <1>9, <1>10, OrderedConcat
  <2> QED BY <1>11, <2>1, OrderedConcat
<1>13. MayEnd(p, T)
  BY <1>3, AccountLast
<1>14. Ordered(c, p, Idle(d), Locked(Sorted(S), Plan("drain", {}) \o Load({c.src}) \o Save({c.src})), Left(d, T))
  <2>1. {} \in SUBSET Lockable
    OBVIOUS
  <2> QED BY <1>3, <1>4, <1>5, <1>7, <1>12, <1>13, <2>1, OrderLocked
<1> QED BY <1>1, <1>2, <1>13, <1>14 DEF Archiving

\* The transfer, inside the locks of the same two budgets.
LEMMA OrderDrain ==
  ASSUME NEW c, NEW p \in Process, c.src \in Budget, NEW a \in Holding,
         {c.src, Unallocated} \subseteq a.open, {c.src, Unallocated} \subseteq a.rows,
         a.all \subseteq Budget, a.deep > 0
  PROVE  Ordered(c, p, a, Transferring(p, c.src, Unallocated),
                 Hold(a.blocks, {}, a.keys \union {c.src, Unallocated}, a.deep, a.rows,
                      a.all \union {c.src, Unallocated, p}))
<1>1. PICK S \in SUBSET Budget : S = {c.src, Unallocated} /\ S # {}
  BY KnownKeys
<1>2. PICK T : T = {c.src, Unallocated, p}
  OBVIOUS
<1>3. PICK s \in Seq(Lockable) : s = Sorted(S) /\ ToSet(s) = S /\ s \in Seq(Row)
  BY SortedLocks
<1>4. PICK n \in Nat : n = Len(s) /\ n > 0
  <2>1. Len(s) \in Nat /\ (Len(s) = 0 => ToSet(s) = {})
    BY OpenKeys
  <2>2. Len(s) # 0
    BY <1>1, <1>3, <2>1
  <2>3. Len(s) > 0
    BY <2>1, <2>2
  <2> QED BY <2>1, <2>3
<1>5. PICK k, O, K, d, R, A : /\ k = a.blocks /\ O = a.open /\ K = a.keys \union S /\ d = a.deep
                              /\ R = a.rows /\ A = a.all
  OBVIOUS
<1>6. /\ k \in Nat /\ O \in SUBSET Lockable /\ K \in SUBSET Lockable /\ d \in Nat /\ d > 0
      /\ R \in SUBSET Row /\ A \in SUBSET Row /\ S \in SUBSET Row /\ T \in SUBSET Row
      /\ A \union T \in SUBSET Row /\ A \union S \in SUBSET Row /\ R \union T \in SUBSET Row
      /\ k + n \in Nat /\ d + 1 \in Nat
  BY <1>1, <1>2, <1>5, KnownKeys DEF Holding
<1>7. O \union S = O /\ R \union S = R /\ A \union S \union T = A \union T /\ S \union {p} = T
  BY <1>1, <1>2, <1>5
<1>8. Ordered(c, p, a, Each("acquire", s), Hold(k + n, O, K, d, R, A))
  <2>1. \A j \in 1..Len(s) : s[j] \in a.open
    <3>1. \A j \in 1..Len(s) : s[j] \in ToSet(s)
      BY LenProperties DEF ToSet
    <3> QED BY <1>1, <1>3, <3>1
  <2>2. Ordered(c, p, a, Each("acquire", s), Hold(a.blocks + Len(s), a.open \union ToSet(s),
                                                   a.keys \union ToSet(s), a.deep, a.rows, a.all))
    BY <2>1, OrderAcquires
  <2> QED BY <1>3, <1>4, <1>5, <1>7, <2>2
<1>9. Ordered(c, p, Hold(k + n, O, K, d, R, A), <<DoAll("begin", {})>>, Hold(k + n, O, K, d + 1, R, A))
  BY <1>6, OrderBegin
<1>10. Ordered(c, p, Hold(k + n, O, K, d + 1, R, A), Each("lock", s), Hold(k + n, O, K, d + 1, R, A \union S))
  <2>1. PICK x \in Holding : x = Hold(k + n, O, K, d + 1, R, A)
    BY <1>6, HoldingIs
  <2>2. /\ x.blocks = k + n /\ x.open = O /\ x.keys = K /\ x.deep = d + 1 /\ x.rows = R /\ x.all = A
    BY <2>1 DEF Hold
  <2>3. \A j \in 1..Len(s) : s[j] \in x.rows
    <3>1. \A j \in 1..Len(s) : s[j] \in ToSet(s)
      BY LenProperties DEF ToSet
    <3> QED BY <1>1, <1>3, <1>5, <2>2, <3>1
  <2>4. Ordered(c, p, x, Each("lock", s), Hold(x.blocks, x.open, x.keys, x.deep, x.rows \union ToSet(s),
                                                x.all \union ToSet(s)))
    BY <1>3, <2>3, OrderLocks
  <2> QED BY <1>3, <1>7, <2>1, <2>2, <2>4
<1>11. Ordered(c, p, Hold(k + n, O, K, d + 1, R, A \union S), Save(T),
               Hold(k + n, O, K, d + 1, R \union T, A \union T))
  <2>1. PICK x \in Holding : x = Hold(k + n, O, K, d + 1, R, A \union S)
    BY <1>6, HoldingIs
  <2>2. /\ x.blocks = k + n /\ x.open = O /\ x.keys = K /\ x.deep = d + 1 /\ x.rows = R
        /\ x.all = A \union S
    BY <2>1 DEF Hold
  <2>3. \A r \in T : r \in x.rows \/ NextRow(r, x.all)
    <3>1. p \in Transfers /\ A \union S \subseteq Budget
      BY <1>1, <1>5 DEF Transfers
    <3>2. NextRow(p, A \union S)
      BY <3>1 DEF NextRow
    <3> QED BY <1>1, <1>2, <1>5, <2>2, <3>2
  <2>4. Ordered(c, p, x, Save(T), Hold(x.blocks, x.open, x.keys, x.deep, x.rows \union T, x.all \union T))
    BY <1>6, <2>3, OrderSave
  <2> QED BY <1>7, <2>1, <2>2, <2>4
<1>12. Ordered(c, p, Hold(k + n, O, K, d + 1, R \union T, A \union T), <<DoAll("end", {})>>,
               Hold(k + n, O, K, d, R, A \union T))
  <2>1. PICK x \in Holding : x = Hold(k + n, O, K, d + 1, R \union T, A \union T)
    BY <1>6, HoldingIs
  <2>2. PICK y \in Holding : y = Hold(k + n, O, K, d, R, A \union T)
    BY <1>6, HoldingIs
  <2>3. /\ x.blocks = k + n /\ x.open = O /\ x.keys = K /\ x.deep = d + 1 /\ x.rows = R \union T
        /\ x.all = A \union T
    BY <2>1 DEF Hold
  <2>4. x.deep > 1 /\ x.deep - 1 = d
    BY <1>6, <2>3
  <2>5. Surer(Hold(x.blocks, x.open, x.keys, x.deep - 1, x.rows, x.all), y)
    BY <2>2, <2>3, <2>4 DEF Surer, Hold
  <2>6. Goes(c, p, DoAll("end", {}), x, y)
    BY <2>4, <2>5 DEF Goes, DoAll
  <2>7. "end" \in Opcodes /\ {} \in SUBSET Row
    BY DEF Opcodes
  <2> QED BY <2>1, <2>2, <2>6, <2>7, OrderPass
<1>13. Ordered(c, p, Hold(k + n, O, K, d, R, A \union T), Each("release", Reverse(s)),
               Hold(k, {}, K, d, R, A \union T))
  <2>1. PICK x \in Holding : x = Hold(k + n, O, K, d, R, A \union T)
    BY <1>6, HoldingIs
  <2>2. /\ x.blocks = k + n /\ x.open = O /\ x.keys = K /\ x.deep = d /\ x.rows = R
        /\ x.all = A \union T
    BY <2>1 DEF Hold
  <2>3. Reverse(s) \in Seq(Row) /\ Len(Reverse(s)) = n
    BY <1>4, ReversedKeys
  <2>4. n <= x.blocks /\ x.blocks # 0 /\ x.blocks - n = k
    BY <1>4, <1>6, <2>2
  <2>5. PICK l : l = IF x.blocks = n THEN {} ELSE x.keys
    OBVIOUS
  <2>6. Ordered(c, p, x, Each("release", Reverse(s)), Hold(k, {}, l, x.deep, x.rows, x.all))
    <3>1. Ordered(c, p, x, Each("release", Reverse(s)),
                  Hold(x.blocks - Len(Reverse(s)), {}, IF x.blocks = Len(Reverse(s)) THEN {} ELSE x.keys,
                       x.deep, x.rows, x.all))
      BY <2>3, <2>4, OrderReleases
    <3> QED BY <2>3, <2>4, <2>5, <3>1
  <2>7. Surer(Hold(k, {}, l, x.deep, x.rows, x.all), Hold(k, {}, K, d, R, A \union T))
    BY <2>2, <2>5 DEF Surer, Hold
  <2> QED BY <2>1, <2>6, <2>7, OrderedTo
<1>14. Ordered(c, p, Hold(k + n, O, K, d, R, A),
               <<DoAll("begin", {})>> \o (Each("lock", s) \o Save(T)) \o <<DoAll("end", {})>>,
               Hold(k + n, O, K, d, R, A \union T))
  <2>1. Ordered(c, p, Hold(k + n, O, K, d + 1, R, A), Each("lock", s) \o Save(T),
                Hold(k + n, O, K, d + 1, R \union T, A \union T))
    BY <1>10, <1>11, OrderedConcat
  <2>2. Ordered(c, p, Hold(k + n, O, K, d, R, A), <<DoAll("begin", {})>> \o (Each("lock", s) \o Save(T)),
                Hold(k + n, O, K, d + 1, R \union T, A \union T))
    BY <1>9, <2>1, OrderedConcat
  <2> QED BY <1>12, <2>2, OrderedConcat
<1>15. Ordered(c, p, a, Scope(s, Atomic(Each("lock", s) \o Save(T))), Hold(k, {}, K, d, R, A \union T))
  <2>1. Ordered(c, p, a, Each("acquire", s) \o Atomic(Each("lock", s) \o Save(T)),
                Hold(k + n, O, K, d, R, A \union T))
    BY <1>8, <1>14, OrderedConcat DEF Atomic
  <2> QED BY <1>13, <2>1, OrderedConcat DEF Scope
<1> QED BY <1>1, <1>2, <1>3, <1>5, <1>15 DEF Transferring, Locked

\* The rows of budget.delete.
LEMMA OrderedDoomed ==
  ASSUME NEW b \in Budget, NEW K \in SUBSET Budget
  PROVE  /\ Doomed(b, K) = Sorted({b, Unallocated} \union K)
         /\ {b, Unallocated} \union K \in SUBSET Budget
         /\ Doomed(b, K) \in Seq(Lockable) /\ ToSet(Doomed(b, K)) = {b, Unallocated} \union K
         /\ Len(Doomed(b, K)) \in Nat /\ Len(Doomed(b, K)) > 0
<1>1. PICK S \in SUBSET Budget : S = {b, Unallocated} \union K /\ b \in S
  BY KnownKeys
<1>2. Doomed(b, K) = Sorted(S)
  BY <1>1 DEF Doomed
<1>3. PICK s \in Seq(Lockable) : s = Sorted(S) /\ ToSet(s) = S
  BY SortedLocks
<1>4. Len(s) \in Nat /\ (Len(s) = 0 => ToSet(s) = {})
  BY OpenKeys
<1>5. Len(s) # 0
  BY <1>1, <1>3, <1>4
<1>6. Len(s) > 0
  BY <1>4, <1>5
<1>7. Doomed(b, K) = s
  BY <1>2, <1>3
<1> QED BY <1>1, <1>2, <1>3, <1>4, <1>6, <1>7

\* All that budget.delete may leave locked inside a request's transaction.
Spoils == Budget \union Transfers

LEMMA SpoilsEnd ==
  ASSUME NEW p
  PROVE  /\ Spoils \in SUBSET Row /\ MayEnd(p, Spoils)
         /\ \A d \in Nat : Left(d, Spoils) \in Holding /\ Rest(d, Spoils) \in SUBSET Row
         /\ \A d \in Nat : Left(d, Spoils) = Hold(0, {}, {}, d, {}, IF d = 0 THEN {} ELSE Budget \union Transfers)
<1>1. Spoils \in SUBSET Row /\ MayEnd(p, Spoils)
  BY AccountLast DEF Spoils
<1>2. ASSUME NEW d \in Nat
      PROVE  Left(d, Spoils) \in Holding /\ Rest(d, Spoils) \in SUBSET Row
  <2>1. Rest(d, Spoils) \in SUBSET Row
    BY <1>1 DEF Rest
  <2> QED BY <2>1, HoldingIs DEF Left
<1> QED BY <1>1, <1>2 DEF Left, Rest, Spoils

LEMMA OrderDropPlan ==
  ASSUME NEW c, NEW p, NEW d \in Nat
  PROVE  Ordered(c, p, Idle(d), Plan("drop", {}), Left(d, Spoils))
<1>1. PICK a \in Holding : a = Idle(d)
  BY HoldingIs DEF Idle
<1>2. a.blocks = 0 /\ a.keys = {} /\ a.all = {} /\ a.deep = d
  BY <1>1 DEF Idle, Hold
<1>3. PICK b \in Holding : b = Left(d, Spoils)
  BY SpoilsEnd
<1>4. b = Hold(0, {}, {}, a.deep, {}, IF a.deep = 0 THEN {} ELSE Budget \union Transfers)
  BY <1>2, <1>3, SpoilsEnd
<1>5. Goes(c, p, DoAll("drop", {}), a, b)
  BY <1>2, <1>4, SurerFacts DEF Goes, DoAll
<1>6. "drop" \in Opcodes /\ {} \in SUBSET Row
  BY DEF Opcodes, Plans
<1> QED BY <1>1, <1>3, <1>5, <1>6, OrderPass DEF Plan

\* The locks of the counterparties that it has found, up to where it looks again.
LEMMA OrderDropping ==
  ASSUME NEW c, NEW p, c.src \in Budget, NEW K \in SUBSET Budget, NEW d \in Nat
  PROVE  Ordered(c, p, Idle(d), Dropping(c.src, K), Left(d, Spoils))
<1>1. PICK S \in SUBSET Budget : /\ S = {c.src, Unallocated} \union K /\ S \in SUBSET Lockable
                                 /\ Doomed(c.src, K) = Sorted(S)
  <2>1. {c.src, Unallocated} \union K \in SUBSET Budget /\ {c.src, Unallocated} \union K \in SUBSET Lockable
    BY KnownKeys
  <2> QED BY <2>1, OrderedDoomed
<1>2. PICK n \in Nat : n = Len(Doomed(c.src, K))
  BY OrderedDoomed
<1>3. Ordered(c, p, Idle(d), Each("acquire", Doomed(c.src, K)), Hold(n, S, S, d, {}, {}))
  BY <1>1, <1>2, OrderSortedAcquires
<1>4. Ordered(c, p, Hold(n, S, S, d, {}, {}), Plan("recheck", K), Left(d, Spoils))
  <2>1. PICK a \in Holding : a = Hold(n, S, S, d, {}, {})
    BY <1>1, HoldingIs
  <2>2. a.blocks = n /\ a.all = {} /\ a.deep = d
    BY <2>1 DEF Hold
  <2>3. PICK b \in Holding : b = Left(d, Spoils)
    BY SpoilsEnd
  <2>4. b = Hold(0, {}, {}, a.deep, {}, IF a.deep = 0 THEN {} ELSE Budget \union Transfers)
    BY <2>2, <2>3, SpoilsEnd
  <2>5. Goes(c, p, DoAll("recheck", K), a, b)
    BY <1>2, <2>2, <2>4, SurerFacts DEF Goes, DoAll
  <2>6. "recheck" \in Opcodes /\ K \in SUBSET Row
    BY KnownKeys DEF Opcodes, Plans
  <2> QED BY <2>1, <2>3, <2>5, <2>6, OrderPass DEF Plan
<1> QED BY <1>3, <1>4, OrderedConcat DEF Dropping

\* Its transaction, under those locks.
LEMMA OrderDropLocked ==
  ASSUME NEW c, NEW p, c.src \in Budget, NEW B \in SUBSET Budget, NEW n \in Nat,
         NEW O \in SUBSET Lockable, NEW K \in SUBSET Lockable, NEW d \in Nat
  PROVE  Ordered(c, p, Hold(n, O, K, d, {}, {}), DroppingLocked(c.src, B),
                 Hold(n, O, K, d, {}, Rest(d, Spoils)))
<1>1. PICK S \in SUBSET Budget : /\ S = {c.src, Unallocated} \union B /\ S \in SUBSET Row
                                 /\ Doomed(c.src, B) = Sorted(S)
  <2>1. {c.src, Unallocated} \union B \in SUBSET Budget /\ {c.src, Unallocated} \union B \in SUBSET Row
    BY KnownKeys
  <2> QED BY <2>1, OrderedDoomed
<1>2. d + 1 \in Nat
  OBVIOUS
<1>3. Ordered(c, p, Hold(n, O, K, d + 1, {}, {}), Each("lock", Doomed(c.src, B)), Hold(n, O, K, d + 1, S, S))
  BY <1>1, <1>2, OrderSortedLocks
<1>4. PICK a \in Holding : a = Hold(n, O, K, d + 1, S, S)
  BY <1>1, HoldingIs
<1>5. a.blocks = n /\ a.open = O /\ a.keys = K /\ a.deep = d + 1 /\ a.rows = S /\ a.all = S
  BY <1>4 DEF Hold
<1>6. Ordered(c, p, a, Load(Transfers \union {Allocation}), a) /\ Ordered(c, p, a, Check, a)
  <2>1. Transfers \union {Allocation} \in SUBSET Row
    BY KnownKeys
  <2> QED BY <2>1, OrderReads
<1>7. PICK b \in Holding : b = Hold(n, O, K, d + 1, S, Spoils)
  BY <1>1, <1>2, SpoilsEnd, HoldingIs
<1>8. Ordered(c, p, a, <<DoAll("expect", B)>>, b)
  <2>1. S \union Transfers \subseteq Spoils
    BY DEF Spoils
  <2>2. Surer(Hold(a.blocks, a.open, a.keys, a.deep, a.rows, a.all \union Transfers), b)
    BY <1>5, <1>7, <2>1 DEF Surer, Hold
  <2>3. B \union {c.src, Unallocated} \subseteq a.rows /\ a.all \subseteq Budget
    BY <1>1, <1>5
  <2>4. Goes(c, p, DoAll("expect", B), a, b)
    BY <2>2, <2>3 DEF Goes, DoAll
  <2>5. "expect" \in Opcodes /\ B \in SUBSET Row
    BY KnownKeys DEF Opcodes
  <2> QED BY <2>4, <2>5, OrderPass
<1>9. Ordered(c, p, Hold(n, O, K, d + 1, {}, {}),
              Each("lock", Doomed(c.src, B)) \o Load(Transfers \union {Allocation}) \o Check
                \o <<DoAll("expect", B)>>, Hold(n, O, K, d + 1, S, Spoils))
  <2>1. Ordered(c, p, Hold(n, O, K, d + 1, {}, {}),
                Each("lock", Doomed(c.src, B)) \o Load(Transfers \union {Allocation}), a)
    BY <1>3, <1>4, <1>6, OrderedConcat
  <2>2. Ordered(c, p, Hold(n, O, K, d + 1, {}, {}),
                Each("lock", Doomed(c.src, B)) \o Load(Transfers \union {Allocation}) \o Check, a)
    BY <1>6, <2>1, OrderedConcat
  <2> QED BY <1>7, <1>8, <2>2, OrderedConcat
<1> QED BY <1>1, <1>9, SpoilsEnd, OrderAtomic DEF DroppingLocked

LEMMA OrderRecheck ==
  ASSUME NEW c, NEW p, c.src \in Budget, NEW B \in SUBSET Budget, NEW now \in SUBSET Budget,
         NEW a \in Holding, a.all = {}, a.blocks = Len(Doomed(c.src, B))
  PROVE  Ordered(c, p, a, Rechecking(c.src, B, now), Left(a.deep, Spoils))
<1>1. PICK s \in Seq(Lockable) : s = Doomed(c.src, B) /\ Len(s) \in Nat /\ Len(s) > 0
  BY OrderedDoomed
<1>2. PICK n, O, K, d : n = a.blocks /\ O = a.open /\ K = a.keys /\ d = a.deep
  OBVIOUS
<1>3. n \in Nat /\ O \in SUBSET Lockable /\ K \in SUBSET Lockable /\ d \in Nat /\ n = Len(s)
  BY <1>1, <1>2 DEF Holding
<1>4. ASSUME NEW A \in SUBSET Row, NEW x, x = Hold(n, O, K, d, {}, A)
      PROVE  Ordered(c, p, x, Each("release", Reverse(s)), Hold(0, {}, {}, d, {}, A))
  <2>1. x \in Holding
    BY <1>3, <1>4, HoldingIs
  <2>2. x.blocks = n /\ x.deep = d /\ x.rows = {} /\ x.all = A
    BY <1>4 DEF Hold
  <2>3. Reverse(s) \in Seq(Row) /\ Len(Reverse(s)) = n
    BY <1>3, ReversedKeys
  <2>4. n <= x.blocks /\ x.blocks # 0 /\ x.blocks - n = 0 /\ x.blocks = n
    BY <1>1, <1>3, <2>2
  <2>5. Ordered(c, p, x, Each("release", Reverse(s)),
                Hold(x.blocks - Len(Reverse(s)), {}, IF x.blocks = Len(Reverse(s)) THEN {} ELSE x.keys,
                     x.deep, x.rows, x.all))
    BY <2>1, <2>3, <2>4, OrderReleases
  <2> QED BY <2>2, <2>3, <2>4, <2>5
<1>5. Surer(a, Hold(n, O, K, d, {}, {}))
  BY <1>2 DEF Surer, Hold
<1>6. CASE now \subseteq B
  <2>1. Ordered(c, p, Hold(n, O, K, d, {}, {}), DroppingLocked(c.src, B), Hold(n, O, K, d, {}, Rest(d, Spoils)))
    BY <1>3, OrderDropLocked
  <2>2. Rest(d, Spoils) \in SUBSET Row
    BY <1>3, SpoilsEnd
  <2>3. Ordered(c, p, Hold(n, O, K, d, {}, Rest(d, Spoils)), Each("release", Reverse(s)), Left(d, Spoils))
    BY <1>4, <2>2 DEF Left
  <2>4. Ordered(c, p, Hold(n, O, K, d, {}, {}), DroppingLocked(c.src, B) \o Each("release", Reverse(s)),
                Left(d, Spoils))
    BY <2>1, <2>3, OrderedConcat
  <2>5. Ordered(c, p, a, DroppingLocked(c.src, B) \o Each("release", Reverse(s)), Left(d, Spoils))
    BY <1>5, <2>4, OrderedFrom
  <2> QED BY <1>1, <1>2, <1>6, <2>5 DEF Rechecking
<1>7. CASE ~(now \subseteq B)
  <2>1. {} \in SUBSET Row
    OBVIOUS
  <2>2. Ordered(c, p, Hold(n, O, K, d, {}, {}), Each("release", Reverse(s)), Idle(d))
    BY <1>4, <2>1 DEF Idle
  <2>3. B \union now \in SUBSET Budget
    OBVIOUS
  <2>4. Ordered(c, p, Idle(d), Dropping(c.src, B \union now), Left(d, Spoils))
    BY <1>3, <2>3, OrderDropping
  <2>5. Ordered(c, p, Hold(n, O, K, d, {}, {}), Each("release", Reverse(s)) \o Dropping(c.src, B \union now),
                Left(d, Spoils))
    BY <2>2, <2>4, OrderedConcat
  <2>6. Ordered(c, p, a, Each("release", Reverse(s)) \o Dropping(c.src, B \union now), Left(d, Spoils))
    BY <1>5, <2>5, OrderedFrom
  <2> QED BY <1>1, <1>2, <1>7, <2>6 DEF Rechecking
<1> QED BY <1>6, <1>7

\* The calls of the class.
Orderly == {"transfer", "reverse", "post", "archive", "edit", "drop"}

LEMMA OrderProgram ==
  ASSUME NEW c \in Call, NEW p \in Process, c.op \in Orderly,
         c.op = "reverse" => db[Earlier] \in TransferValue
  PROVE  \E A : /\ MayEnd(p, A)
                /\ \A d \in Nat : Ordered(c, p, Idle(d), Program(c, p), Left(d, A))
<1>1. c.src \in Budget /\ c.dst \in Budget
  BY DEF Call
<1>2. CASE c.op = "transfer"
  <2>1. MayEnd(p, {c.src, c.dst, p})
    BY <1>1, AccountLast DEF Transfers
  <2>2. \A d \in Nat : Ordered(c, p, Idle(d), Transferring(p, c.src, c.dst), Left(d, {c.src, c.dst, p}))
    BY <1>1, OrderTransfer
  <2>3. Program(c, p) = Transferring(p, c.src, c.dst)
    BY <1>2 DEF Program
  <2> QED BY <2>1, <2>2, <2>3
<1>3. CASE c.op = "reverse"
  <2>1. PICK m \in TransferValue : m = db[Earlier]
    BY <1>3
  <2>2. Program(c, p) = Reversing(m)
    BY <1>3, <2>1 DEF Program
  <2>3. \A d \in Nat : Ordered(c, p, Idle(d), Reversing(m), Left(d, Ends(m) \union {Earlier}))
    BY OrderReverse
  <2>4. MayEnd(p, Ends(m) \union {Earlier})
    <3>1. 0 \in Nat
      OBVIOUS
    <3> QED BY <3>1, OrderReverse
  <2> QED BY <2>2, <2>3, <2>4
<1>4. CASE c.op = "post"
  <2>1. Program(c, p) = Updating({Account, Tx})
    BY <1>4 DEF Program
  <2>2. \A d \in Nat : Ordered(c, p, Idle(d), Updating({Account, Tx}), Left(d, {Account, Tx}))
    BY OrderPost
  <2>3. MayEnd(p, {Account, Tx})
    <3>1. 0 \in Nat
      OBVIOUS
    <3> QED BY <3>1, OrderPost
  <2> QED BY <2>1, <2>2, <2>3
<1>5. CASE c.op = "archive"
  <2>1. Program(c, p) = Archiving(c.src)
    BY <1>5 DEF Program
  <2>2. \A d \in Nat : Ordered(c, p, Idle(d), Archiving(c.src), Left(d, {c.src, Unallocated, p}))
    BY <1>1, OrderArchive
  <2>3. MayEnd(p, {c.src, Unallocated, p})
    <3>1. 0 \in Nat
      OBVIOUS
    <3> QED BY <1>1, <3>1, OrderArchive
  <2> QED BY <2>1, <2>2, <2>3
<1>6. CASE c.op = "edit"
  <2>1. Program(c, p) = Locked(<<c.src>>, Save({c.src}))
    BY <1>6 DEF Program
  <2>2. \A d \in Nat : Ordered(c, p, Idle(d), Locked(<<c.src>>, Save({c.src})), Left(d, {c.src}))
    BY <1>1, OrderEdit
  <2>3. MayEnd(p, {c.src})
    <3>1. 0 \in Nat
      OBVIOUS
    <3> QED BY <1>1, <3>1, OrderEdit
  <2> QED BY <2>1, <2>2, <2>3
<1>7. CASE c.op = "drop"
  <2>1. Program(c, p) = Plan("drop", {})
    BY <1>7 DEF Program
  <2>2. \A d \in Nat : Ordered(c, p, Idle(d), Plan("drop", {}), Left(d, Spoils))
    BY OrderDropPlan
  <2> QED BY <2>1, <2>2, SpoilsEnd
<1> QED BY <1>2, <1>3, <1>4, <1>5, <1>6, <1>7 DEF Orderly

LEMMA OrderRun ==
  ASSUME NEW c \in Call, NEW p \in Process, c.op \in Orderly,
         c.op = "reverse" => db[Earlier] \in TransferValue
  PROVE  Ordered(c, p, Idle(0), Run(c, p), Idle(0))
<1>1. PICK A : /\ MayEnd(p, A)
               /\ \A d \in Nat : Ordered(c, p, Idle(d), Program(c, p), Left(d, A))
  BY OrderProgram
<1>2. Left(0, A) = Idle(0) /\ Left(1, A) = Hold(0, {}, {}, 1, {}, A) /\ Rest(0, A) = {}
      /\ Idle(0) = Hold(0, {}, {}, 0, {}, {}) /\ Idle(1) = Hold(0, {}, {}, 1, {}, {})
  BY DEF Left, Rest, Idle
<1>3. Ordered(c, p, Idle(0), Program(c, p), Idle(0))
  BY <1>1, <1>2
<1>4. Ordered(c, p, Hold(0, {}, {}, 0 + 1, {}, {}), Program(c, p), Hold(0, {}, {}, 0 + 1, {}, A))
  BY <1>1, <1>2
<1>5. Ordered(c, p, Hold(0, {}, {}, 0, {}, {}), Atomic(Program(c, p)), Hold(0, {}, {}, 0, {}, Rest(0, A)))
  <2>1. {} \in SUBSET Lockable /\ {} \in SUBSET Row /\ 0 \in Nat
    OBVIOUS
  <2> QED BY <1>1, <1>4, <2>1, OrderAtomic
<1>6. Ordered(c, p, Idle(0), Atomic(Program(c, p)), Idle(0))
  BY <1>2, <1>5
<1> QED BY <1>3, <1>6 DEF Run

-----------------------------------------------------------------------------
(* A process, with the blocks q open, inside d transactions and with the     *)
(* rows R locked, that keeps to the order in the rest s of its call.         *)

Keeps(c, p, q, d, R, s) ==
  Ordered(c, p, Hold(Len(q), ToSet(q), ToSet(q), d, R, R), s, Idle(0))

\* Its next instruction leads from x to y, and it keeps to the order from y on.
KeptFirst(c, p, q, d, R, s, x, y) ==
  /\ x.blocks = Len(q) /\ x.open \subseteq ToSet(q) /\ ToSet(q) \subseteq x.keys
  /\ x.deep = d /\ x.rows \subseteq R /\ R \subseteq x.all
  /\ Goes(c, p, Head(s), x, y) /\ Ordered(c, p, y, Tail(s), Idle(0))

LEMMA KeepsStep ==
  ASSUME NEW c, NEW p, NEW q, NEW d, NEW R, NEW s, s # <<>>, Keeps(c, p, q, d, R, s)
  PROVE  /\ Head(s) \in Instruction
         /\ \E x, y \in Holding : KeptFirst(c, p, q, d, R, s, x, y)
<1>1. PICK a : a = Hold(Len(q), ToSet(q), ToSet(q), d, R, R)
  OBVIOUS
<1>2. a.blocks = Len(q) /\ a.open = ToSet(q) /\ a.keys = ToSet(q) /\ a.deep = d /\ a.rows = R /\ a.all = R
  BY <1>1 DEF Hold
<1>3. Ordered(c, p, a, s, Idle(0))
  BY <1>1 DEF Keeps
<1>4. /\ Head(s) \in Instruction
      /\ \E x, y \in Holding : /\ Surer(a, x) /\ Goes(c, p, Head(s), x, y)
                               /\ Ordered(c, p, y, Tail(s), Idle(0))
  BY <1>3, OrderedStep
<1>5. PICK x \in Holding, y \in Holding : /\ Surer(a, x) /\ Goes(c, p, Head(s), x, y)
                                          /\ Ordered(c, p, y, Tail(s), Idle(0))
  BY <1>4
<1>6. /\ x.blocks = Len(q) /\ x.open \subseteq ToSet(q) /\ ToSet(q) \subseteq x.keys
      /\ x.deep = d /\ x.rows \subseteq R /\ R \subseteq x.all
  BY <1>2, <1>5 DEF Surer
<1> QED BY <1>4, <1>5, <1>6 DEF KeptFirst

\* What is left of s after its first instruction is kept to as well.
LEMMA KeepsOn ==
  ASSUME NEW c, NEW p, NEW q, NEW d, NEW R, NEW s, NEW y, Ordered(c, p, y, s, Idle(0)),
         Len(q) = y.blocks, y.open \subseteq ToSet(q), ToSet(q) \subseteq y.keys,
         d = y.deep, y.rows \subseteq R, R \subseteq y.all
  PROVE  Keeps(c, p, q, d, R, s)
<1>1. Surer(Hold(Len(q), ToSet(q), ToSet(q), d, R, R), y)
  BY DEF Surer, Hold
<1> QED BY <1>1, OrderedFrom DEF Keeps

LEMMA KeepsAcquire ==
  ASSUME NEW c, NEW p, NEW q \in Seq(Lockable), NEW d, NEW R, NEW s, s # <<>>,
         Keeps(c, p, q, d, R, s), Head(s).do = "acquire"
  PROVE  /\ Head(s).row \in Lockable
         /\ Keeps(c, p, Append(q, Head(s).row), d, R, Tail(s))
         /\ Head(s).row \notin ToSet(q) => R = {} /\ NextKey(Head(s).row, ToSet(q))
<1>1. PICK x \in Holding, y \in Holding : KeptFirst(c, p, q, d, R, s, x, y)
  BY KeepsStep
<1>2. PICK k : k = Head(s).row
  OBVIOUS
<1>3. /\ k \in Lockable /\ (k \in x.open \/ (x.all = {} /\ NextKey(k, x.keys)))
      /\ Surer(Hold(x.blocks + 1, x.open \union {k}, x.keys \union {k}, x.deep, x.rows, x.all), y)
  BY <1>1, <1>2 DEF Goes, KeptFirst
<1>4. /\ y.blocks = x.blocks + 1 /\ y.open \subseteq x.open \union {k} /\ x.keys \union {k} \subseteq y.keys
      /\ y.deep = x.deep /\ y.rows \subseteq x.rows /\ x.all \subseteq y.all
  BY <1>3 DEF Surer, Hold
<1>5. Len(Append(q, k)) = Len(q) + 1 /\ ToSet(Append(q, k)) = ToSet(q) \union {k}
  BY <1>3, OpenedKeys
<1>6. Keeps(c, p, Append(q, k), d, R, Tail(s))
  <2>1. PICK g : g = Append(q, k)
    OBVIOUS
  <2>2. Len(g) = y.blocks /\ y.open \subseteq ToSet(g) /\ ToSet(g) \subseteq y.keys
    BY <1>1, <1>4, <1>5, <2>1 DEF KeptFirst
  <2>3. d = y.deep /\ y.rows \subseteq R /\ R \subseteq y.all
    BY <1>1, <1>4 DEF KeptFirst
  <2> QED BY <1>1, <2>1, <2>2, <2>3, KeepsOn DEF KeptFirst
<1>7. k \notin ToSet(q) => R = {} /\ NextKey(k, ToSet(q))
  BY <1>1, <1>3 DEF NextKey, KeptFirst
<1> QED BY <1>2, <1>3, <1>6, <1>7

LEMMA KeepsRelease ==
  ASSUME NEW c, NEW p, NEW q \in Seq(Lockable), NEW d, NEW R, NEW s, s # <<>>,
         Keeps(c, p, q, d, R, s), Head(s).do = "release", Len(q) > 0
  PROVE  Keeps(c, p, Front(q), d, R, Tail(s))
<1>1. PICK x \in Holding, y \in Holding : KeptFirst(c, p, q, d, R, s, x, y)
  BY KeepsStep
<1>2. PICK g \in Seq(Lockable) : g = Front(q) /\ Len(g) = Len(q) - 1 /\ ToSet(g) \subseteq ToSet(q)
  BY LeftKeys
<1>3. CASE x.blocks > 1
  <2>1. Surer(Hold(x.blocks - 1, {}, x.keys, x.deep, x.rows, x.all), y)
    <3>1. x.blocks # 1
      BY <1>3
    <3> QED BY <1>1, <3>1 DEF Goes, KeptFirst
  <2>2. /\ y.blocks = x.blocks - 1 /\ y.open \subseteq {} /\ x.keys \subseteq y.keys
        /\ y.deep = x.deep /\ y.rows \subseteq x.rows /\ x.all \subseteq y.all
    BY <2>1 DEF Surer, Hold
  <2>3. Len(g) = y.blocks /\ y.open \subseteq ToSet(g) /\ ToSet(g) \subseteq y.keys
    BY <1>1, <1>2, <2>2 DEF KeptFirst
  <2>4. d = y.deep /\ y.rows \subseteq R /\ R \subseteq y.all
    BY <1>1, <2>2 DEF KeptFirst
  <2> QED BY <1>1, <1>2, <2>3, <2>4, KeepsOn DEF KeptFirst
<1>4. CASE x.blocks = 1
  <2>1. Surer(Hold(0, {}, {}, x.deep, x.rows, x.all), y)
    BY <1>1, <1>4 DEF Goes, KeptFirst
  <2>2. /\ y.blocks = 0 /\ y.open \subseteq {}
        /\ y.deep = x.deep /\ y.rows \subseteq x.rows /\ x.all \subseteq y.all
    BY <2>1 DEF Surer, Hold
  <2>3. Len(g) = 0 /\ ToSet(g) = {}
    BY <1>1, <1>2, <1>4, OpenKeys DEF KeptFirst
  <2>4. Len(g) = y.blocks /\ y.open \subseteq ToSet(g) /\ ToSet(g) \subseteq y.keys
    BY <2>2, <2>3
  <2>5. d = y.deep /\ y.rows \subseteq R /\ R \subseteq y.all
    BY <1>1, <2>2 DEF KeptFirst
  <2> QED BY <1>1, <1>2, <2>4, <2>5, KeepsOn DEF KeptFirst
<1> QED BY <1>1, <1>3, <1>4 DEF Goes, KeptFirst

LEMMA KeepsBegin ==
  ASSUME NEW c, NEW p, NEW q, NEW d, NEW R, NEW s, s # <<>>,
         Keeps(c, p, q, d, R, s), Head(s).do = "begin"
  PROVE  Keeps(c, p, q, d + 1, R, Tail(s))
<1>1. PICK x \in Holding, y \in Holding : KeptFirst(c, p, q, d, R, s, x, y)
  BY KeepsStep
<1>2. Surer(Hold(x.blocks, x.open, x.keys, x.deep + 1, x.rows, x.all), y)
  BY <1>1 DEF Goes, KeptFirst
<1>3. /\ y.blocks = x.blocks /\ y.open \subseteq x.open /\ x.keys \subseteq y.keys
      /\ y.deep = x.deep + 1 /\ y.rows \subseteq x.rows /\ x.all \subseteq y.all
  BY <1>2 DEF Surer, Hold
<1>4. Len(q) = y.blocks /\ y.open \subseteq ToSet(q) /\ ToSet(q) \subseteq y.keys
  BY <1>1, <1>3 DEF KeptFirst
<1>5. d + 1 = y.deep /\ y.rows \subseteq R /\ R \subseteq y.all
  BY <1>1, <1>3 DEF KeptFirst
<1> QED BY <1>1, <1>4, <1>5, KeepsOn DEF KeptFirst

LEMMA KeepsEnd ==
  ASSUME NEW c, NEW p, NEW q, NEW d, NEW R, NEW s, s # <<>>,
         Keeps(c, p, q, d, R, s), Head(s).do = "end"
  PROVE  /\ d > 1 => Keeps(c, p, q, d - 1, R, Tail(s))
         /\ ~(d > 1) => /\ d = 1 /\ Keeps(c, p, q, 0, {}, Tail(s))
                        /\ p \in R => NextRow(Account, R)
<1>1. PICK x \in Holding, y \in Holding : KeptFirst(c, p, q, d, R, s, x, y)
  BY KeepsStep
<1>2. CASE d > 1
  <2>1. Surer(Hold(x.blocks, x.open, x.keys, x.deep - 1, x.rows, x.all), y)
    BY <1>1, <1>2 DEF Goes, KeptFirst
  <2>2. /\ y.blocks = x.blocks /\ y.open \subseteq x.open /\ x.keys \subseteq y.keys
        /\ y.deep = x.deep - 1 /\ y.rows \subseteq x.rows /\ x.all \subseteq y.all
    BY <2>1 DEF Surer, Hold
  <2>3. Len(q) = y.blocks /\ y.open \subseteq ToSet(q) /\ ToSet(q) \subseteq y.keys
    BY <1>1, <2>2 DEF KeptFirst
  <2>4. d - 1 = y.deep /\ y.rows \subseteq R /\ R \subseteq y.all
    BY <1>1, <2>2 DEF KeptFirst
  <2> QED BY <1>1, <1>2, <2>3, <2>4, KeepsOn DEF KeptFirst
<1>3. CASE ~(d > 1)
  <2>1. /\ x.deep = 1 /\ (p \notin x.all \/ NextRow(Account, x.all))
        /\ Surer(Hold(x.blocks, x.open, x.keys, 0, {}, {}), y)
    BY <1>1, <1>3 DEF Goes, KeptFirst
  <2>2. /\ y.blocks = x.blocks /\ y.open \subseteq x.open /\ x.keys \subseteq y.keys
        /\ y.deep = 0 /\ y.rows \subseteq {}
    BY <2>1 DEF Surer, Hold
  <2>3. Len(q) = y.blocks /\ y.open \subseteq ToSet(q) /\ ToSet(q) \subseteq y.keys
    BY <1>1, <2>2 DEF KeptFirst
  <2>4. 0 = y.deep /\ y.rows \subseteq {} /\ {} \subseteq y.all
    BY <2>2
  <2>5. Keeps(c, p, q, 0, {}, Tail(s))
    BY <1>1, <2>3, <2>4, KeepsOn DEF KeptFirst
  <2>6. p \in R => NextRow(Account, R)
    BY <1>1, <2>1 DEF NextRow, KeptFirst
  <2> QED BY <1>1, <1>3, <2>1, <2>5, <2>6 DEF KeptFirst
<1> QED BY <1>2, <1>3

LEMMA KeepsLock ==
  ASSUME NEW c, NEW p, NEW q, NEW d, NEW R, NEW s, s # <<>>,
         Keeps(c, p, q, d, R, s), Head(s).do = "lock"
  PROVE  /\ Keeps(c, p, q, d, R \union {Head(s).row}, Tail(s))
         /\ Head(s).row \in Row /\ (Head(s).row \in R \/ NextRow(Head(s).row, R))
<1>1. PICK x \in Holding, y \in Holding : KeptFirst(c, p, q, d, R, s, x, y)
  BY KeepsStep
<1>2. PICK r : r = Head(s).row
  OBVIOUS
<1>3. /\ r \in Row /\ (r \in x.rows \/ NextRow(r, x.all))
      /\ Surer(Hold(x.blocks, x.open, x.keys, x.deep, x.rows \union {r}, x.all \union {r}), y)
  BY <1>1, <1>2 DEF Goes, KeptFirst
<1>4. /\ y.blocks = x.blocks /\ y.open \subseteq x.open /\ x.keys \subseteq y.keys
      /\ y.deep = x.deep /\ y.rows \subseteq x.rows \union {r} /\ x.all \union {r} \subseteq y.all
  BY <1>3 DEF Surer, Hold
<1>5. Len(q) = y.blocks /\ y.open \subseteq ToSet(q) /\ ToSet(q) \subseteq y.keys
  BY <1>1, <1>4 DEF KeptFirst
<1>6. PICK T : T = R \union {r}
  OBVIOUS
<1>7. d = y.deep /\ y.rows \subseteq T /\ T \subseteq y.all
  BY <1>1, <1>4, <1>6 DEF KeptFirst
<1>8. Keeps(c, p, q, d, T, Tail(s))
  BY <1>1, <1>5, <1>7, KeepsOn DEF KeptFirst
<1>9. r \in R \/ NextRow(r, R)
  BY <1>1, <1>3 DEF NextRow, KeptFirst
<1> QED BY <1>2, <1>3, <1>6, <1>8, <1>9

LEMMA KeepsSave ==
  ASSUME NEW c, NEW p, NEW q, NEW d, NEW R, NEW s, s # <<>>,
         Keeps(c, p, q, d, R, s), Head(s).do = "save"
  PROVE  /\ Keeps(c, p, q, d, R \union Head(s).rows, Tail(s))
         /\ \A r \in Head(s).rows : r \in Row /\ (r \in R \/ NextRow(r, R))
<1>1. PICK x \in Holding, y \in Holding : KeptFirst(c, p, q, d, R, s, x, y)
  BY KeepsStep
<1>2. PICK S : S = Head(s).rows
  OBVIOUS
<1>3. /\ S \in SUBSET Row /\ \A r \in S : r \in x.rows \/ NextRow(r, x.all)
      /\ Surer(Hold(x.blocks, x.open, x.keys, x.deep, x.rows \union S, x.all \union S), y)
  BY <1>1, <1>2 DEF Goes, KeptFirst
<1>4. /\ y.blocks = x.blocks /\ y.open \subseteq x.open /\ x.keys \subseteq y.keys
      /\ y.deep = x.deep /\ y.rows \subseteq x.rows \union S /\ x.all \union S \subseteq y.all
  BY <1>3 DEF Surer, Hold
<1>5. Len(q) = y.blocks /\ y.open \subseteq ToSet(q) /\ ToSet(q) \subseteq y.keys
  BY <1>1, <1>4 DEF KeptFirst
<1>6. PICK T : T = R \union S
  OBVIOUS
<1>7. d = y.deep /\ y.rows \subseteq T /\ T \subseteq y.all
  BY <1>1, <1>4, <1>6 DEF KeptFirst
<1>8. Keeps(c, p, q, d, T, Tail(s))
  BY <1>1, <1>5, <1>7, KeepsOn DEF KeptFirst
<1>9. \A r \in S : r \in R \/ NextRow(r, R)
  BY <1>1, <1>3 DEF NextRow, KeptFirst
<1> QED BY <1>2, <1>3, <1>6, <1>8, <1>9

LEMMA KeepsRead ==
  ASSUME NEW c, NEW p, NEW q, NEW d, NEW R, NEW s, s # <<>>,
         Keeps(c, p, q, d, R, s), Head(s).do \in {"load", "check"}
  PROVE  Keeps(c, p, q, d, R, Tail(s))
<1>1. PICK x \in Holding, y \in Holding : KeptFirst(c, p, q, d, R, s, x, y)
  BY KeepsStep
<1>2. Surer(x, y)
  BY <1>1 DEF Goes, KeptFirst
<1>3. /\ y.blocks = x.blocks /\ y.open \subseteq x.open /\ x.keys \subseteq y.keys
      /\ y.deep = x.deep /\ y.rows \subseteq x.rows /\ x.all \subseteq y.all
  BY <1>2 DEF Surer
<1>4. Len(q) = y.blocks /\ y.open \subseteq ToSet(q) /\ ToSet(q) \subseteq y.keys
  BY <1>1, <1>3 DEF KeptFirst
<1>5. d = y.deep /\ y.rows \subseteq R /\ R \subseteq y.all
  BY <1>1, <1>3 DEF KeptFirst
<1> QED BY <1>1, <1>4, <1>5, KeepsOn DEF KeptFirst

\* budget.delete saves the transfers after the budgets that it has locked.
LEMMA KeepsExpect ==
  ASSUME NEW c, NEW p, NEW q, NEW d, NEW R, NEW s, s # <<>>,
         Keeps(c, p, q, d, R, s), Head(s).do = "expect", Head(s).rows \in SUBSET Row, c.src \in Budget,
         NEW B \in SUBSET Transfers, NEW S, S = {c.src, Unallocated} \union Head(s).rows \union B
  PROVE  Keeps(c, p, q, d, R, Save(S) \o Tail(s))
<1>1. PICK x \in Holding, y \in Holding : KeptFirst(c, p, q, d, R, s, x, y)
  BY KeepsStep
<1>2. PICK K : K = Head(s).rows /\ K \in SUBSET Row
  OBVIOUS
<1>3. /\ K \union {c.src, Unallocated} \subseteq x.rows /\ x.all \subseteq Budget
      /\ Surer(Hold(x.blocks, x.open, x.keys, x.deep, x.rows, x.all \union Transfers), y)
  BY <1>1, <1>2 DEF Goes, KeptFirst
<1>4. S \in SUBSET Row /\ \A r \in S : r \in x.rows \/ r \in Transfers
  BY <1>2, <1>3, KnownKeys
<1>5. \A r \in S : r \in x.rows \/ NextRow(r, x.all)
  BY <1>3, <1>4 DEF NextRow
<1>6. Ordered(c, p, x, Save(S), Hold(x.blocks, x.open, x.keys, x.deep, x.rows \union S, x.all \union S))
  BY <1>4, <1>5, OrderSave
<1>7. Surer(Hold(x.blocks, x.open, x.keys, x.deep, x.rows \union S, x.all \union S), y)
  <2>1. /\ y.blocks = x.blocks /\ y.open \subseteq x.open /\ x.keys \subseteq y.keys
        /\ y.deep = x.deep /\ y.rows \subseteq x.rows /\ x.all \union Transfers \subseteq y.all
    BY <1>3 DEF Surer, Hold
  <2>2. x.all \union S \subseteq y.all
    BY <1>1, <1>4, <2>1 DEF KeptFirst
  <2>3. y.rows \subseteq x.rows \union S
    BY <2>1
  <2> QED BY <2>1, <2>2, <2>3 DEF Surer, Hold
<1>8. Ordered(c, p, x, Save(S), y)
  BY <1>6, <1>7, OrderedTo
<1>9. Ordered(c, p, x, Save(S) \o Tail(s), Idle(0))
  BY <1>1, <1>8, OrderedConcat DEF KeptFirst
<1> QED BY <1>1, <1>9, KeepsOn DEF KeptFirst

\* What a plan puts before the rest keeps to the order.
LEMMA KeepsDecide ==
  ASSUME NEW c \in Call, NEW p \in Process, call[p] = c, NEW q, NEW d \in Nat, NEW R, NEW s, s # <<>>,
         Keeps(c, p, q, d, R, s), NEW i, i = Head(s), i.do \in Plans,
         NEW v, Counterparties(v, c.src) \in SUBSET Budget
  PROVE  Keeps(c, p, q, d, R, Chosen(p, i, v) \o Tail(s))
<1>1. PICK x \in Holding, y \in Holding :
        /\ x.blocks = Len(q) /\ x.open \subseteq ToSet(q) /\ ToSet(q) \subseteq x.keys
        /\ x.deep = d /\ x.rows \subseteq R /\ R \subseteq x.all
        /\ Goes(c, p, i, x, y) /\ Ordered(c, p, y, Tail(s), Idle(0))
  BY KeepsStep DEF KeptFirst
<1>2. c.src \in Budget
  BY DEF Call
<1>3. Ordered(c, p, x, Chosen(p, i, v), y)
  <2>1. CASE i.do = "drain"
    <3>1. /\ {c.src, Unallocated} \subseteq x.open
          /\ {c.src, Unallocated} \subseteq x.rows /\ x.all \subseteq Budget /\ x.deep > 0
          /\ Surer(Hold(x.blocks, {}, x.keys \union {c.src, Unallocated}, x.deep, x.rows,
                        x.all \union {c.src, Unallocated, p}), y)
      BY <1>1, <2>1 DEF Goes
    <3>2. Ordered(c, p, x, Transferring(p, c.src, Unallocated),
                  Hold(x.blocks, {}, x.keys \union {c.src, Unallocated}, x.deep, x.rows,
                       x.all \union {c.src, Unallocated, p}))
      BY <1>2, <3>1, OrderDrain
    <3>3. Surer(x, Hold(x.blocks, {}, x.keys \union {c.src, Unallocated}, x.deep, x.rows,
                        x.all \union {c.src, Unallocated, p}))
      BY DEF Surer, Hold
    <3>4. Ordered(c, p, x, <<>>, x) /\ Surer(x, y)
      BY <3>1, <3>3, SurerFacts, OrderedEmpty
    <3>5. Ordered(c, p, x, Transferring(p, c.src, Unallocated), y) /\ Ordered(c, p, x, <<>>, y)
      BY <3>1, <3>2, <3>4, OrderedTo
    <3>6. Chosen(p, i, v) = Transferring(p, c.src, Unallocated) \/ Chosen(p, i, v) = <<>>
      BY <2>1 DEF Chosen, Draining
    <3> QED BY <3>5, <3>6
  <2>2. CASE i.do = "drop"
    <3>1. /\ x.blocks = 0 /\ x.keys = {} /\ x.all = {}
          /\ Surer(Hold(0, {}, {}, x.deep, {}, IF x.deep = 0 THEN {} ELSE Budget \union Transfers), y)
      BY <1>1, <2>2 DEF Goes
    <3>2. Surer(x, Idle(d)) /\ Surer(Left(d, Spoils), y)
      BY <1>1, <3>1, SpoilsEnd DEF Surer, Hold, Idle
    <3>3. Ordered(c, p, Idle(d), Dropping(c.src, Counterparties(v, c.src)), Left(d, Spoils))
      BY <1>2, OrderDropping
    <3>4. Ordered(c, p, x, Dropping(c.src, Counterparties(v, c.src)), y)
      BY <3>2, <3>3, OrderedFrom, OrderedTo
    <3> QED BY <2>2, <3>4 DEF Chosen
  <2>3. CASE i.do = "recheck"
    <3>1. /\ i.rows \in SUBSET Budget /\ x.all = {} /\ x.blocks = Len(Doomed(c.src, i.rows))
          /\ Surer(Hold(0, {}, {}, x.deep, {}, IF x.deep = 0 THEN {} ELSE Budget \union Transfers), y)
      BY <1>1, <2>3 DEF Goes
    <3>2. Surer(Left(d, Spoils), y)
      BY <1>1, <3>1, SpoilsEnd
    <3>3. Ordered(c, p, x, Rechecking(c.src, i.rows, Counterparties(v, c.src)), Left(d, Spoils))
      BY <1>1, <1>2, <3>1, OrderRecheck
    <3>4. Ordered(c, p, x, Rechecking(c.src, i.rows, Counterparties(v, c.src)), y)
      BY <3>2, <3>3, OrderedTo
    <3> QED BY <2>3, <3>4 DEF Chosen
  <2>4. i.do \in {"drain", "drop", "recheck"}
    BY <1>1 DEF Goes, Plans
  <2> QED BY <2>1, <2>2, <2>3, <2>4
<1>4. Ordered(c, p, x, Chosen(p, i, v) \o Tail(s), Idle(0))
  BY <1>1, <1>3, OrderedConcat
<1> QED BY <1>1, <1>4, KeepsOn

\* A call that is over.
LEMMA KeepsNothing ==
  ASSUME NEW c, NEW p
  PROVE  Keeps(c, p, <<>>, 0, {}, <<>>)
<1>1. Len(<<>>) = 0 /\ ToSet(<<>>) = {}
  <2>1. <<>> \in Seq(Lockable)
    BY EmptySeq
  <2> QED BY <2>1, EmptySeq, OpenKeys
<1>2. Idle(0) \in Holding
  BY HoldingIs DEF Idle
<1> QED BY <1>1, <1>2, OrderedEmpty DEF Keeps, Idle

-----------------------------------------------------------------------------
(* The invariant for the order of the locks.                                 *)

InOrder(p) == Keeps(call[p], p, scopes[p], depth[p], HeldBy(rowlock, p), todo[p])

LockOrder ==
  /\ engine = "postgresql"
  /\ \A p \in Process : call[p].op \in Orderly /\ InOrder(p)

LEMMA OrderMoves ==
  ASSUME NEW p \in Process, LockOrder, engine' = engine, call' = call, Moved(p, todo, todo'),
         Moved(p, depth, depth'), NEW q, scopes' = [scopes EXCEPT ![p] = q], scopes = [r \in Process |-> scopes[r]],
         \A r \in Process \ {p} : HeldBy(rowlock', r) = HeldBy(rowlock, r),
         Keeps(call[p], p, q, depth'[p], HeldBy(rowlock', p), todo'[p])
  PROVE  LockOrder'
<1>1. scopes'[p] = q /\ \A r \in Process \ {p} : scopes'[r] = scopes[r]
  OBVIOUS
<1>2. ASSUME NEW r \in Process PROVE call'[r].op \in Orderly
  BY DEF LockOrder
<1>3. InOrder(p)'
  BY <1>1 DEF InOrder
<1>4. ASSUME NEW r \in Process \ {p} PROVE InOrder(r)'
  <2>1. todo'[r] = todo[r] /\ depth'[r] = depth[r] /\ HeldBy(rowlock', r) = HeldBy(rowlock, r)
    BY DEF Moved
  <2>2. InOrder(r)
    BY DEF LockOrder
  <2> QED BY <1>1, <2>1, <2>2 DEF InOrder
<1> QED BY <1>2, <1>3, <1>4 DEF LockOrder

\* What the invariants say of a process that runs.
LEMMA OrderFacts ==
  ASSUME NEW m \in TransferValue, NEW p \in Process, Inv(m), Bracketed, LockOrder
  PROVE  /\ Keeps(call[p], p, scopes[p], depth[p], HeldBy(rowlock, p), todo[p])
         /\ call[p] \in Call /\ OnProcesses(todo) /\ OnProcesses(depth)
         /\ rowlock \in [Row -> Process \union {Nobody}]
         /\ scopes \in [Process -> Seq(Lockable)] /\ scopes[p] \in Seq(Lockable)
         /\ depth[p] \in Nat /\ depth[p] \in 0..3 /\ (depth[p] = 0 => HeldBy(rowlock, p) = {})
<1>1. /\ call[p] \in Call /\ OnProcesses(todo) /\ OnProcesses(depth)
      /\ rowlock \in [Row -> Process \union {Nobody}]
      /\ Fit(call[p], p, m, db, wrote[p], HeldBy(rowlock, p), mem[p], depth[p], todo[p], ended[p])
  BY InvFacts
<1>2. depth[p] \in 0..3 /\ (depth[p] = 0 => HeldBy(rowlock, p) = {})
  BY <1>1, FitLocks
<1> QED BY <1>1, <1>2, BracketedFacts DEF LockOrder, InOrder

\* A step that leaves the row locks and the open blocks of p alone.
LEMMA OrderOn ==
  ASSUME NEW m \in TransferValue, NEW p \in Process, Inv(m), Bracketed, LockOrder,
         engine' = engine, call' = call, rowlock' = rowlock, scopes' = scopes, Moved(p, depth, depth'),
         NEW s, todo' = [todo EXCEPT ![p] = s],
         Keeps(call[p], p, scopes[p], depth'[p], HeldBy(rowlock, p), s)
  PROVE  LockOrder'
<1>1. OnProcesses(todo) /\ scopes \in [Process -> Seq(Lockable)]
  BY OrderFacts
<1>2. Moved(p, todo, todo') /\ todo'[p] = s
  BY <1>1 DEF Moved, OnProcesses
<1>3. PICK q : q = scopes[p]
  OBVIOUS
<1>4. scopes' = [scopes EXCEPT ![p] = q] /\ scopes = [r \in Process |-> scopes[r]]
  BY <1>1, <1>3
<1> QED BY <1>2, <1>3, <1>4, OrderMoves

LEMMA OrderAcquire ==
  ASSUME NEW m \in TransferValue, NEW p \in Process, Inv(m), Bracketed, LockOrder, Acquire(p)
  PROVE  LockOrder'
<1>1. PICK k : k = Head(todo[p]).row
  OBVIOUS
<1>2. /\ todo[p] # <<>> /\ Head(todo[p]).do = "acquire"
      /\ call' = call /\ engine' = engine /\ rowlock' = rowlock /\ depth' = depth
      /\ scopes' = [scopes EXCEPT ![p] = Append(scopes[p], k)]
      /\ todo' = [todo EXCEPT ![p] = Tail(todo[p])]
  BY <1>1 DEF Acquire, At, Advance, Running, Now, database
<1>3. /\ Keeps(call[p], p, scopes[p], depth[p], HeldBy(rowlock, p), todo[p]) /\ OnProcesses(todo)
      /\ OnProcesses(depth) /\ scopes \in [Process -> Seq(Lockable)] /\ scopes[p] \in Seq(Lockable)
  BY OrderFacts
<1>4. Keeps(call[p], p, Append(scopes[p], k), depth[p], HeldBy(rowlock, p), Tail(todo[p]))
  BY <1>1, <1>2, <1>3, KeepsAcquire
<1>5. Moved(p, todo, todo') /\ todo'[p] = Tail(todo[p]) /\ Moved(p, depth, depth')
  BY <1>2, <1>3 DEF Moved, OnProcesses
<1>6. PICK q : q = Append(scopes[p], k)
  OBVIOUS
<1>7. scopes' = [scopes EXCEPT ![p] = q] /\ scopes = [r \in Process |-> scopes[r]]
  BY <1>2, <1>3, <1>6
<1> QED BY <1>2, <1>4, <1>5, <1>6, <1>7, OrderMoves

LEMMA OrderRelease ==
  ASSUME NEW m \in TransferValue, NEW p \in Process, Inv(m), Bracketed, LockOrder, Release(p)
  PROVE  LockOrder'
<1>1. /\ todo[p] # <<>> /\ Head(todo[p]).do = "release"
      /\ call' = call /\ engine' = engine /\ rowlock' = rowlock /\ depth' = depth
      /\ scopes' = [scopes EXCEPT ![p] = Front(scopes[p])]
      /\ todo' = [todo EXCEPT ![p] = Tail(todo[p])]
  BY DEF Release, At, Advance, Running, Now, database
<1>2. /\ Keeps(call[p], p, scopes[p], depth[p], HeldBy(rowlock, p), todo[p]) /\ OnProcesses(todo)
      /\ OnProcesses(depth) /\ scopes \in [Process -> Seq(Lockable)] /\ scopes[p] \in Seq(Lockable)
  BY OrderFacts
<1>3. Len(scopes[p]) > 0
  <2>1. PICK l \in Nat : Opens(call[p], Head(todo[p]), Len(scopes[p]), l)
    BY <1>1, BracketedFacts, NestedStep
  <2> QED BY <1>1, <2>1 DEF Opens
<1>4. Keeps(call[p], p, Front(scopes[p]), depth[p], HeldBy(rowlock, p), Tail(todo[p]))
  BY <1>1, <1>2, <1>3, KeepsRelease
<1>5. Moved(p, todo, todo') /\ todo'[p] = Tail(todo[p]) /\ Moved(p, depth, depth')
  BY <1>1, <1>2 DEF Moved, OnProcesses
<1>6. PICK q : q = Front(scopes[p])
  OBVIOUS
<1>7. scopes' = [scopes EXCEPT ![p] = q] /\ scopes = [r \in Process |-> scopes[r]]
  BY <1>1, <1>2, <1>6
<1> QED BY <1>1, <1>4, <1>5, <1>6, <1>7, OrderMoves

LEMMA OrderBeginStep ==
  ASSUME NEW m \in TransferValue, NEW p \in Process, Inv(m), Bracketed, LockOrder, Begin(p)
  PROVE  LockOrder'
<1>1. /\ todo[p] # <<>> /\ Head(todo[p]).do = "begin"
      /\ call' = call /\ engine' = engine /\ scopes' = scopes
      /\ depth' = [depth EXCEPT ![p] = depth[p] + 1]
      /\ todo' = [todo EXCEPT ![p] = Tail(todo[p])]
  BY DEF Begin, At, Advance, Running, Now
<1>2. rowlock' = rowlock
  BY DEF Begin, SQLite, LockOrder
<1>3. /\ Keeps(call[p], p, scopes[p], depth[p], HeldBy(rowlock, p), todo[p]) /\ OnProcesses(depth)
  BY OrderFacts
<1>4. Keeps(call[p], p, scopes[p], depth[p] + 1, HeldBy(rowlock, p), Tail(todo[p]))
  BY <1>1, <1>3, KeepsBegin
<1>5. Moved(p, depth, depth') /\ depth'[p] = depth[p] + 1
  BY <1>1, <1>3 DEF Moved, OnProcesses
<1> QED BY <1>1, <1>2, <1>4, <1>5, OrderOn

LEMMA OrderReadStep ==
  ASSUME NEW m \in TransferValue, NEW p \in Process, Inv(m), Bracketed, LockOrder,
         Running(p), Now(p).do \in {"load", "check"}, Advance(p),
         engine' = engine, call' = call, rowlock' = rowlock, scopes' = scopes, depth' = depth
  PROVE  LockOrder'
<1>1. /\ Keeps(call[p], p, scopes[p], depth[p], HeldBy(rowlock, p), todo[p]) /\ OnProcesses(depth)
  BY OrderFacts
<1>2. Keeps(call[p], p, scopes[p], depth[p], HeldBy(rowlock, p), Tail(todo[p]))
  BY <1>1, KeepsRead DEF Running, Now
<1>3. Moved(p, depth, depth') /\ depth'[p] = depth[p]
  BY <1>1, MovedSame
<1> QED BY <1>2, <1>3, OrderOn DEF Advance

\* A call that is rolled back holds nothing and has nothing left to do.
LEMMA OrderRollback ==
  ASSUME NEW m \in TransferValue, NEW p \in Process, Inv(m), Bracketed, LockOrder, Rollback(p)
  PROVE  LockOrder'
<1>1. /\ engine' = engine /\ call' = call /\ todo' = [todo EXCEPT ![p] = <<>>]
      /\ depth' = [depth EXCEPT ![p] = 0] /\ scopes' = [scopes EXCEPT ![p] = <<>>]
      /\ rowlock' = [r \in Row |-> IF rowlock[r] = p THEN Nobody ELSE rowlock[r]]
  BY DEF Rollback
<1>2. /\ OnProcesses(todo) /\ OnProcesses(depth) /\ scopes \in [Process -> Seq(Lockable)]
      /\ rowlock \in [Row -> Process \union {Nobody}]
  BY OrderFacts
<1>3. /\ Moved(p, todo, todo') /\ todo'[p] = <<>> /\ Moved(p, depth, depth') /\ depth'[p] = 0
  BY <1>1, <1>2 DEF Moved, OnProcesses
<1>4. /\ rowlock' \in [Row -> Process \union {Nobody}]
      /\ HeldBy(rowlock', p) = {}
      /\ \A q \in Process \ {p} : HeldBy(rowlock', q) = HeldBy(rowlock, q)
  <2>1. PICK g : g = rowlock'
    OBVIOUS
  <2>2. PICK rl : rl = rowlock
    OBVIOUS
  <2>3. rl \in [Row -> Process \union {Nobody}] /\ g = [r \in Row |-> IF rl[r] = p THEN Nobody ELSE rl[r]]
    BY <1>1, <1>2, <2>1, <2>2
  <2>4. /\ g \in [Row -> Process \union {Nobody}] /\ HeldBy(g, p) = {}
        /\ \A q \in Process \ {p} : HeldBy(g, q) = HeldBy(rl, q)
    BY <2>3, LocksFreed
  <2> QED BY <2>1, <2>2, <2>4
<1>5. Keeps(call[p], p, <<>>, depth'[p], HeldBy(rowlock', p), todo'[p])
  BY <1>3, <1>4, KeepsNothing
<1>6. scopes = [r \in Process |-> scopes[r]]
  BY <1>2
<1> QED BY <1>1, <1>3, <1>4, <1>5, <1>6, OrderMoves

LEMMA OrderLockStep ==
  ASSUME NEW m \in TransferValue, NEW p \in Process, Inv(m), Bracketed, LockOrder, LockRow(p)
  PROVE  LockOrder'
<1>1. CASE Rollback(p)
  BY <1>1, OrderRollback
<1>2. CASE ~Rollback(p)
  <2>1. PICK r : r = Head(todo[p]).row
    OBVIOUS
  <2>2. /\ todo[p] # <<>> /\ Head(todo[p]).do = "lock" /\ rowlock[r] \in {Nobody, p}
        /\ call' = call /\ engine' = engine /\ scopes' = scopes /\ depth' = depth
        /\ rowlock' = [rowlock EXCEPT ![r] = p]
        /\ todo' = [todo EXCEPT ![p] = Tail(todo[p])]
    BY <1>2, <2>1 DEF LockRow, Raise, At, Advance, Running, Now, Available
  <2>3. /\ Keeps(call[p], p, scopes[p], depth[p], HeldBy(rowlock, p), todo[p]) /\ OnProcesses(todo)
        /\ OnProcesses(depth) /\ scopes \in [Process -> Seq(Lockable)]
        /\ rowlock \in [Row -> Process \union {Nobody}]
    BY OrderFacts
  <2>4. Keeps(call[p], p, scopes[p], depth[p], HeldBy(rowlock, p) \union {r}, Tail(todo[p])) /\ r \in Row
    BY <2>1, <2>2, <2>3, KeepsLock
  <2>5. PICK S \in SUBSET Row : S = {r}
    BY <2>4
  <2>6. rowlock' = Taken(rowlock, p, S)
    BY <2>2, <2>3, <2>5 DEF Taken
  <2>7. /\ rowlock' \in [Row -> Process \union {Nobody}]
        /\ HeldBy(rowlock', p) = HeldBy(rowlock, p) \union S
        /\ \A q \in Process \ {p} : HeldBy(rowlock', q) = HeldBy(rowlock, q)
    <3>1. PICK g : g = rowlock'
      OBVIOUS
    <3>2. PICK rl : rl = rowlock
      OBVIOUS
    <3>3. /\ rl \in [Row -> Process \union {Nobody}] /\ g = Taken(rl, p, S)
          /\ S \in SUBSET Row /\ \A x \in S : rl[x] \in {Nobody, p}
      BY <2>2, <2>3, <2>5, <2>6, <3>1, <3>2
    <3>4. /\ g \in [Row -> Process \union {Nobody}] /\ HeldBy(g, p) = HeldBy(rl, p) \union S
          /\ \A q \in Process \ {p} : HeldBy(g, q) = HeldBy(rl, q)
      BY <3>3, LocksTaken
    <3> QED BY <3>1, <3>2, <3>4
  <2>8. /\ Moved(p, todo, todo') /\ todo'[p] = Tail(todo[p]) /\ Moved(p, depth, depth') /\ depth'[p] = depth[p]
    BY <2>2, <2>3 DEF Moved, OnProcesses
  <2>9. PICK q : q = scopes[p]
    OBVIOUS
  <2>10. scopes' = [scopes EXCEPT ![p] = q] /\ scopes = [x \in Process |-> scopes[x]]
    BY <2>2, <2>3, <2>9
  <2>11. Keeps(call[p], p, q, depth'[p], HeldBy(rowlock', p), todo'[p])
    BY <2>4, <2>5, <2>7, <2>8, <2>9
  <2> QED BY <2>2, <2>7, <2>8, <2>10, <2>11, OrderMoves
<1> QED BY <1>1, <1>2

LEMMA OrderSaveStep ==
  ASSUME NEW m \in TransferValue, NEW p \in Process, Inv(m), Bracketed, LockOrder, SaveRows(p)
  PROVE  LockOrder'
<1>1. PICK S : S = Head(todo[p]).rows
  OBVIOUS
<1>2. /\ todo[p] # <<>> /\ Head(todo[p]).do = "save" /\ \A r \in S : rowlock[r] \in {Nobody, p}
      /\ call' = call /\ engine' = engine /\ scopes' = scopes /\ depth' = depth
      /\ rowlock' = [r \in Row |-> IF r \in S THEN p ELSE rowlock[r]]
      /\ todo' = [todo EXCEPT ![p] = Tail(todo[p])]
  BY <1>1 DEF SaveRows, At, Advance, Running, Now, Available
<1>3. /\ Keeps(call[p], p, scopes[p], depth[p], HeldBy(rowlock, p), todo[p]) /\ OnProcesses(todo)
      /\ OnProcesses(depth) /\ scopes \in [Process -> Seq(Lockable)]
      /\ rowlock \in [Row -> Process \union {Nobody}]
  BY OrderFacts
<1>4. /\ Keeps(call[p], p, scopes[p], depth[p], HeldBy(rowlock, p) \union S, Tail(todo[p]))
      /\ S \in SUBSET Row
  BY <1>1, <1>2, <1>3, KeepsSave
<1>5. rowlock' = Taken(rowlock, p, S)
  BY <1>2 DEF Taken
<1>6. /\ rowlock' \in [Row -> Process \union {Nobody}]
      /\ HeldBy(rowlock', p) = HeldBy(rowlock, p) \union S
      /\ \A q \in Process \ {p} : HeldBy(rowlock', q) = HeldBy(rowlock, q)
  <2>1. PICK g : g = rowlock'
    OBVIOUS
  <2>2. PICK rl : rl = rowlock
    OBVIOUS
  <2>3. /\ rl \in [Row -> Process \union {Nobody}] /\ g = Taken(rl, p, S)
        /\ S \in SUBSET Row /\ \A r \in S : rl[r] \in {Nobody, p}
    BY <1>2, <1>3, <1>4, <1>5, <2>1, <2>2
  <2>4. /\ g \in [Row -> Process \union {Nobody}] /\ HeldBy(g, p) = HeldBy(rl, p) \union S
        /\ \A q \in Process \ {p} : HeldBy(g, q) = HeldBy(rl, q)
    BY <2>3, LocksTaken
  <2> QED BY <2>1, <2>2, <2>4
<1>7. /\ Moved(p, todo, todo') /\ todo'[p] = Tail(todo[p]) /\ Moved(p, depth, depth') /\ depth'[p] = depth[p]
  BY <1>2, <1>3 DEF Moved, OnProcesses
<1>8. PICK q : q = scopes[p]
  OBVIOUS
<1>9. scopes' = [scopes EXCEPT ![p] = q] /\ scopes = [x \in Process |-> scopes[x]]
  BY <1>2, <1>3, <1>8
<1>10. Keeps(call[p], p, q, depth'[p], HeldBy(rowlock', p), todo'[p])
  BY <1>4, <1>6, <1>7, <1>8
<1> QED BY <1>2, <1>6, <1>7, <1>9, <1>10, OrderMoves

LEMMA OrderEndStep ==
  ASSUME NEW m \in TransferValue, NEW p \in Process, Inv(m), Bracketed, LockOrder, End(p)
  PROVE  LockOrder'
<1>1. /\ todo[p] # <<>> /\ Head(todo[p]).do = "end"
      /\ call' = call /\ engine' = engine /\ scopes' = scopes
      /\ depth' = [depth EXCEPT ![p] = depth[p] - 1]
      /\ todo' = [todo EXCEPT ![p] = Tail(todo[p])]
      /\ IF depth[p] > 1 THEN rowlock' = rowlock
         ELSE rowlock' = [r \in Row |-> IF rowlock[r] = p THEN Nobody ELSE rowlock[r]]
  BY DEF End, At, Advance, Running, Now
<1>2. /\ Keeps(call[p], p, scopes[p], depth[p], HeldBy(rowlock, p), todo[p]) /\ OnProcesses(todo)
      /\ OnProcesses(depth) /\ scopes \in [Process -> Seq(Lockable)]
      /\ rowlock \in [Row -> Process \union {Nobody}]
  BY OrderFacts
<1>3. Moved(p, depth, depth') /\ depth'[p] = depth[p] - 1
  BY <1>1, <1>2 DEF Moved, OnProcesses
<1>4. CASE depth[p] > 1
  <2>1. Keeps(call[p], p, scopes[p], depth[p] - 1, HeldBy(rowlock, p), Tail(todo[p]))
    BY <1>1, <1>2, <1>4, KeepsEnd
  <2> QED BY <1>1, <1>3, <1>4, <2>1, OrderOn
<1>5. CASE ~(depth[p] > 1)
  <2>1. Keeps(call[p], p, scopes[p], 0, {}, Tail(todo[p])) /\ depth[p] = 1
    BY <1>1, <1>2, <1>5, KeepsEnd
  <2>2. rowlock' = [r \in Row |-> IF rowlock[r] = p THEN Nobody ELSE rowlock[r]]
    BY <1>1, <1>5
  <2>3. /\ rowlock' \in [Row -> Process \union {Nobody}]
        /\ HeldBy(rowlock', p) = {}
        /\ \A q \in Process \ {p} : HeldBy(rowlock', q) = HeldBy(rowlock, q)
    <3>1. PICK g : g = rowlock'
      OBVIOUS
    <3>2. PICK rl : rl = rowlock
      OBVIOUS
    <3>3. rl \in [Row -> Process \union {Nobody}] /\ g = [r \in Row |-> IF rl[r] = p THEN Nobody ELSE rl[r]]
      BY <1>2, <2>2, <3>1, <3>2
    <3>4. /\ g \in [Row -> Process \union {Nobody}] /\ HeldBy(g, p) = {}
          /\ \A q \in Process \ {p} : HeldBy(g, q) = HeldBy(rl, q)
      BY <3>3, LocksFreed
    <3> QED BY <3>1, <3>2, <3>4
  <2>4. Moved(p, todo, todo') /\ todo'[p] = Tail(todo[p])
    BY <1>1, <1>2 DEF Moved, OnProcesses
  <2>5. PICK q : q = scopes[p]
    OBVIOUS
  <2>6. scopes' = [scopes EXCEPT ![p] = q] /\ scopes = [x \in Process |-> scopes[x]]
    BY <1>1, <1>2, <2>5
  <2>7. Keeps(call[p], p, q, depth'[p], HeldBy(rowlock', p), todo'[p])
    <3>1. depth'[p] = 0
      BY <1>3, <2>1
    <3> QED BY <2>1, <2>3, <2>4, <2>5, <3>1
  <2> QED BY <1>1, <1>3, <2>3, <2>4, <2>6, <2>7, OrderMoves
<1> QED BY <1>4, <1>5

LEMMA OrderDecide ==
  ASSUME NEW m \in TransferValue, NEW p \in Process, Inv(m), Bracketed, LockOrder, Decide(p)
  PROVE  LockOrder'
<1>1. /\ call[p] \in Call /\ WellFormed(db) /\ Seen(p) = View(db, wrote[p])
      /\ Fit(call[p], p, m, db, wrote[p], HeldBy(rowlock, p), mem[p], depth[p], todo[p], ended[p])
  BY InvFacts
<1>2. PICK i : i = Head(todo[p])
  OBVIOUS
<1>3. PICK c \in Call : c = call[p]
  BY <1>1
<1>4. todo[p] # <<>> /\ i.do \in Plans
  BY <1>2 DEF Decide, Running, Now
<1>5. Seen(p) = db
  BY <1>1, <1>2, <1>4, DecidesOnRows
<1>6. PICK s : s = Chosen(p, i, db) \o Tail(todo[p])
  OBVIOUS
<1>7. /\ todo' = [todo EXCEPT ![p] = s]
      /\ call' = call /\ engine' = engine /\ rowlock' = rowlock /\ scopes' = scopes /\ depth' = depth
  BY <1>2, <1>5, <1>6 DEF Decide, Now, database
<1>8. Counterparties(db, c.src) \in SUBSET Budget
  <2>1. \A j \in Touching(db, c.src) : Ends(db[j]) \subseteq Budget
    BY <1>1 DEF Touching, WellFormed, TransferValue, Ends
  <2> QED BY <2>1 DEF Counterparties
<1>9. /\ Keeps(call[p], p, scopes[p], depth[p], HeldBy(rowlock, p), todo[p]) /\ OnProcesses(depth)
      /\ depth[p] \in Nat
  BY OrderFacts
<1>10. Keeps(call[p], p, scopes[p], depth[p], HeldBy(rowlock, p), s)
  BY <1>2, <1>3, <1>4, <1>6, <1>8, <1>9, KeepsDecide
<1>11. Moved(p, depth, depth') /\ depth'[p] = depth[p]
  BY <1>7, <1>9, MovedSame
<1> QED BY <1>7, <1>10, <1>11, OrderOn

LEMMA OrderExpect ==
  ASSUME NEW m \in TransferValue, NEW p \in Process, Inv(m), Bracketed, LockOrder, ExpectKnown(p)
  PROVE  LockOrder'
<1>1. CASE Rollback(p)
  BY <1>1, OrderRollback
<1>2. CASE ~Rollback(p)
  <2>1. PICK i : i = Head(todo[p])
    OBVIOUS
  <2>2. PICK S : S = {call[p].src, Unallocated} \union i.rows \union Touching(mem[p], call[p].src)
    OBVIOUS
  <2>3. PICK s : s = Save(S) \o Tail(todo[p])
    OBVIOUS
  <2>4. /\ todo[p] # <<>> /\ i.do = "expect" /\ todo' = [todo EXCEPT ![p] = s]
        /\ call' = call /\ engine' = engine /\ rowlock' = rowlock /\ scopes' = scopes /\ depth' = depth
    BY <1>2, <2>1, <2>2, <2>3 DEF ExpectKnown, Raise, At, Running, Now, database
  <2>5. /\ Keeps(call[p], p, scopes[p], depth[p], HeldBy(rowlock, p), todo[p]) /\ OnProcesses(depth)
        /\ call[p] \in Call
    BY OrderFacts
  <2>6. i.rows \in SUBSET Row
    <3>1. i \in Instruction
      BY <2>1, <2>4, <2>5, KeepsStep
    <3> QED BY <3>1 DEF Instruction
  <2>7. call[p].src \in Budget /\ Touching(mem[p], call[p].src) \in SUBSET Transfers
    BY <2>5 DEF Call, Touching
  <2>8. Keeps(call[p], p, scopes[p], depth[p], HeldBy(rowlock, p), s)
    BY <2>1, <2>2, <2>3, <2>4, <2>5, <2>6, <2>7, KeepsExpect
  <2>9. Moved(p, depth, depth') /\ depth'[p] = depth[p]
    BY <2>4, <2>5, MovedSame
  <2> QED BY <2>4, <2>8, <2>9, OrderOn
<1> QED BY <1>1, <1>2

LEMMA OrderNext ==
  ASSUME NEW m \in TransferValue, Inv(m), Bracketed, LockOrder, [Next]_vars
  PROVE  LockOrder'
<1>1. ASSUME NEW p \in Process, Step(p) PROVE LockOrder'
  <2>1. CASE Acquire(p)
    BY <2>1, OrderAcquire
  <2>2. CASE TryAcquire(p)
    BY <2>2, TryStep
  <2>3. CASE Release(p)
    BY <2>3, OrderRelease
  <2>4. CASE Begin(p)
    BY <2>4, OrderBeginStep
  <2>5. CASE End(p)
    BY <2>5, OrderEndStep
  <2>6. CASE LockRow(p)
    BY <2>6, OrderLockStep
  <2>7. CASE LoadRows(p)
    <3>1. /\ Running(p) /\ Now(p).do = "load" /\ Advance(p) /\ call' = call /\ engine' = engine
          /\ rowlock' = rowlock /\ depth' = depth /\ scopes' = scopes
      BY <2>7 DEF LoadRows, At, database
    <3> QED BY <3>1, OrderReadStep
  <2>8. CASE SaveRows(p)
    BY <2>8, OrderSaveStep
  <2>9. CASE CheckRows(p)
    <3>1. CASE Rollback(p)
      BY <3>1, OrderRollback
    <3>2. CASE ~Rollback(p)
      <4>1. /\ Running(p) /\ Now(p).do = "check" /\ Advance(p) /\ call' = call /\ engine' = engine
            /\ rowlock' = rowlock /\ depth' = depth /\ scopes' = scopes
        BY <2>9, <3>2 DEF CheckRows, Raise, At, database
      <4> QED BY <4>1, OrderReadStep
    <3> QED BY <3>1, <3>2
  <2>10. CASE ExpectKnown(p)
    BY <2>10, OrderExpect
  <2>11. CASE Decide(p)
    BY <2>11, OrderDecide
  <2> QED BY <1>1, <2>1, <2>2, <2>3, <2>4, <2>5, <2>6, <2>7, <2>8, <2>9, <2>10, <2>11 DEF Step
<1>2. ASSUME NEW p \in Process, BusyTimeout(p) PROVE LockOrder'
  BY <1>2, OrderRollback DEF BusyTimeout, Raise
<1>3. ASSUME NEW p \in Process, Crash(p) PROVE LockOrder'
  BY <1>3, OrderRollback DEF Crash
<1>4. ASSUME NEW k \in Lockable, Expire(k) PROVE LockOrder'
  BY <1>4 DEF Expire, LockOrder, InOrder, database
<1>5. ASSUME UNCHANGED vars PROVE LockOrder'
  BY <1>5 DEF vars, LockOrder, InOrder, database
<1> QED BY <1>1, <1>2, <1>3, <1>4, <1>5 DEF Next, Finished

LEMMA OrderInit ==
  ASSUME \A s \in Start : LocksItsRows(s) /\ KeepsLockOrder(s), Init
  PROVE  LockOrder
<1>1. PICK s \in Start : engine = s.engine /\ db = s.db /\ call = s.call
  BY DEF Init
<1>2. /\ WellFormed(db) /\ call \in [Process -> Call] /\ engine = "postgresql"
      /\ \A p \in Process : call[p].op \in Orderly /\ (call[p].op = "reverse" => db[Earlier] # Gone)
  BY <1>1 DEF LocksItsRows, KeepsLockOrder, Orderly
<1>3. /\ todo = [p \in Process |-> Run(call[p], p)] /\ rowlock = [r \in Row |-> Nobody]
      /\ scopes = [p \in Process |-> <<>>] /\ depth = [p \in Process |-> 0]
  BY DEF Init
<1>4. ASSUME NEW p \in Process PROVE InOrder(p)
  <2>1. call[p].op = "reverse" => db[Earlier] \in TransferValue
    BY <1>2, WellFormedRows, RowKinds
  <2>2. Ordered(call[p], p, Idle(0), Run(call[p], p), Idle(0))
    BY <1>2, <2>1, OrderRun
  <2>3. HeldBy(rowlock, p) = {}
    BY <1>3, NobodyAssumption DEF HeldBy
  <2>4. Len(<<>>) = 0 /\ ToSet(<<>>) = {}
    <3>1. <<>> \in Seq(Lockable)
      BY EmptySeq
    <3> QED BY <3>1, EmptySeq, OpenKeys
  <2>5. scopes[p] = <<>> /\ depth[p] = 0 /\ todo[p] = Run(call[p], p)
    BY <1>3
  <2> QED BY <2>2, <2>3, <2>4, <2>5 DEF InOrder, Keeps, Idle
<1> QED BY <1>2, <1>4 DEF LockOrder

-----------------------------------------------------------------------------
(* No cycle of processes that wait in the order of the locks.                *)

LEMMA LastBudget ==
  ASSUME NEW M \in SUBSET Budget, M # {}
  PROVE  \E m \in M : \A x \in M : ~(m < x)
<1>1. IsFiniteSet(M) /\ M \in SUBSET Nat
  BY RowsApart, FS_Subset
<1>2. PICK R : R = {p \in M \X M : p[1] < p[2]}
  OBVIOUS
<1>3. \A x, y \in M : <<x, y>> \in R <=> x < y
  BY <1>2
<1>4. Lines(R, M)
  BY <1>1, <1>3 DEF Lines
<1>8. IsFiniteSet(M)
  BY <1>1
<1>5. \A T \in SUBSET M : T # {} => \E m \in T : \A x \in T : x = m \/ <<x, m>> \in R
  BY <1>4, <1>8, LinesLast
<1>6. PICK m \in M : \A x \in M : x = m \/ <<x, m>> \in R
  BY <1>5
<1>7. ASSUME NEW x \in M PROVE ~(m < x)
  <2>1. x \in Nat /\ m \in Nat /\ (x = m \/ x < m)
    BY <1>1, <1>3, <1>6
  <2> QED BY <2>1
<1> QED BY <1>6, <1>7

\* A process that holds the Redis locks Kp and the rows Rp waits for one that holds Kq and
\* Rq, as the order allows.
Awaits(Kp, Rp, Kq, Rq) ==
  \/ Rp = {} /\ \E k \in Kq : NextKey(k, Kp)
  \/ \E r \in Rq : NextRow(r, Rp)

LEMMA NoCycle ==
  ASSUME NEW S \in SUBSET Process, S # {}, NEW K, NEW R,
         \A p \in S : \E q \in S : Awaits(K[p], R[p], K[q], R[q])
  PROVE  FALSE
<1>1. Account # Tx /\ Account \notin Budget /\ Tx \notin Budget /\ Account \notin Transfers /\ Tx \notin Transfers
  BY RowsApart DEF Transfers
<1>2. \A t \in Transfers : t \notin Budget
  BY RowsApart DEF Transfers
<1>3. ASSUME NEW p \in S, R[p] # {}
      PROVE  \E q \in S : \E r \in R[q] : NextRow(r, R[p])
  BY <1>3 DEF Awaits
<1>4. ASSUME NEW p \in S PROVE Tx \notin R[p]
  <2> SUFFICES ASSUME Tx \in R[p] PROVE FALSE
    OBVIOUS
  <2>1. PICK q \in S : \E r \in R[q] : NextRow(r, R[p])
    <3>1. R[p] # {}
      OBVIOUS
    <3> QED BY <1>3, <3>1
  <2>2. PICK r \in R[q] : NextRow(r, R[p])
    BY <2>1
  <2> QED BY <1>1, <2>2 DEF NextRow
<1>5. ASSUME NEW p \in S PROVE Account \notin R[p]
  <2> SUFFICES ASSUME Account \in R[p] PROVE FALSE
    OBVIOUS
  <2>1. PICK q \in S : \E r \in R[q] : NextRow(r, R[p])
    <3>1. R[p] # {}
      OBVIOUS
    <3> QED BY <1>3, <3>1
  <2>2. PICK r \in R[q] : NextRow(r, R[p])
    BY <2>1
  <2>3. r # Tx
    BY <1>4
  <2> QED BY <1>1, <2>2, <2>3 DEF NextRow
<1>6. ASSUME NEW p \in S, NEW t \in Transfers PROVE t \notin R[p]
  <2> SUFFICES ASSUME t \in R[p] PROVE FALSE
    OBVIOUS
  <2>1. PICK q \in S : \E r \in R[q] : NextRow(r, R[p])
    <3>1. R[p] # {}
      OBVIOUS
    <3> QED BY <1>3, <3>1
  <2>2. PICK r \in R[q] : NextRow(r, R[p])
    BY <2>1
  <2>3. r # Tx /\ r # Account
    BY <1>4, <1>5
  <2> QED BY <1>2, <2>2, <2>3 DEF NextRow
<1>7. ASSUME NEW p \in S, NEW q \in S, NEW r \in R[q], NextRow(r, R[p])
      PROVE  r \in Budget /\ R[p] \subseteq {x \in Budget : x < r}
  BY <1>4, <1>5, <1>6, <1>7 DEF NextRow
<1>8. ASSUME NEW q \in S, NEW r \in Budget PROVE r \notin R[q]
  <2> SUFFICES ASSUME r \in R[q] PROVE FALSE
    OBVIOUS
  <2>1. PICK M \in SUBSET Budget : M = {x \in Budget : \E p \in S : x \in R[p]}
    OBVIOUS
  <2>2. r \in M
    BY <2>1
  <2>3. PICK m \in M : \A x \in M : ~(m < x)
    BY <2>2, LastBudget
  <2>4. PICK p \in S : m \in R[p]
    BY <2>1
  <2>5. PICK p2 \in S : \E x \in R[p2] : NextRow(x, R[p])
    <3>1. R[p] # {}
      BY <2>4
    <3> QED BY <1>3, <3>1
  <2>6. PICK x \in R[p2] : NextRow(x, R[p])
    BY <2>5
  <2>7. x \in Budget /\ R[p] \subseteq {y \in Budget : y < x}
    BY <1>7, <2>6
  <2>8. x \in M /\ m < x
    BY <2>1, <2>4, <2>6, <2>7
  <2> QED BY <2>3, <2>8
<1>9. ASSUME NEW p \in S PROVE \E q \in S : \E k \in K[q] : NextKey(k, K[p])
  <2>1. PICK q \in S : Awaits(K[p], R[p], K[q], R[q])
    OBVIOUS
  <2>2. \A r \in R[q] : ~NextRow(r, R[p])
    BY <1>7, <1>8
  <2> QED BY <2>1, <2>2 DEF Awaits
<1>10. ASSUME NEW q \in S, NEW k \in K[q] PROVE k \in Budget
  <2>1. PICK h \in S : \E x \in K[h] : NextKey(x, K[q])
    BY <1>9
  <2>2. PICK x \in K[h] : NextKey(x, K[q])
    BY <2>1
  <2> QED BY <2>2 DEF NextKey
<1>11. PICK M \in SUBSET Budget : M = {x \in Budget : \E p \in S : x \in K[p]}
  OBVIOUS
<1>12. PICK p \in S : TRUE
  OBVIOUS
<1>13. PICK q \in S : \E k \in K[q] : NextKey(k, K[p])
  BY <1>9
<1>14. PICK k \in K[q] : NextKey(k, K[p])
  BY <1>13
<1>15. k \in M
  BY <1>10, <1>11
<1>16. PICK m \in M : \A x \in M : ~(m < x)
  BY <1>15, LastBudget
<1>17. PICK h \in S : m \in K[h]
  BY <1>11
<1>18. PICK h2 \in S : \E x \in K[h2] : NextKey(x, K[h])
  BY <1>9
<1>19. PICK x \in K[h2] : NextKey(x, K[h])
  BY <1>18
<1>20. x \in M /\ m < x
  BY <1>10, <1>11, <1>17, <1>19 DEF NextKey
<1> QED BY <1>16, <1>20

LEMMA WaitsInOrder ==
  ASSUME NEW m \in TransferValue, Inv(m), Bracketed, LockOrder, WritesLocked,
         NEW p \in Process, NEW q \in WaitsFor(p)
  PROVE  Awaits(ToSet(scopes[p]), HeldBy(rowlock, p), ToSet(scopes[q]), HeldBy(rowlock, q))
<1>1. /\ Keeps(call[p], p, scopes[p], depth[p], HeldBy(rowlock, p), todo[p])
      /\ rowlock \in [Row -> Process \union {Nobody}]
      /\ scopes \in [Process -> Seq(Lockable)] /\ scopes[p] \in Seq(Lockable)
  BY OrderFacts
<1>2. Running(p) /\ todo[p] # <<>> /\ Now(p) = Head(todo[p])
  BY DEF WaitsFor, Running, Now
<1>3. ASSUME NEW r \in Row, rowlock[r] \notin {p, Nobody}, rowlock[r] = q,
             r \in HeldBy(rowlock, p) \/ NextRow(r, HeldBy(rowlock, p))
      PROVE  Awaits(ToSet(scopes[p]), HeldBy(rowlock, p), ToSet(scopes[q]), HeldBy(rowlock, q))
  <2>1. r \in HeldBy(rowlock, q) /\ r \notin HeldBy(rowlock, p)
    BY <1>3 DEF HeldBy
  <2> QED BY <1>3, <2>1 DEF Awaits
<1>4. CASE Now(p).do = "acquire"
  <2>1. PICK k : k = Head(todo[p]).row
    OBVIOUS
  <2>2. /\ ~Contains(scopes[p], k) /\ q = redis[k] /\ q # Nobody /\ Running(q)
    BY <1>2, <1>4, <2>1 DEF WaitsFor
  <2>3. k \in Lockable /\ (k \notin ToSet(scopes[p]) => HeldBy(rowlock, p) = {} /\ NextKey(k, ToSet(scopes[p])))
    BY <1>1, <1>2, <1>4, <2>1, KeepsAcquire
  <2>4. k \notin ToSet(scopes[p])
    BY <1>1, <2>2, OpenKeys
  <2>5. q \in Process /\ Contains(scopes[q], k)
    BY <2>2, <2>3 DEF Bracketed, HeldWhileOpen
  <2>6. scopes[q] \in Seq(Lockable)
    BY <1>1, <2>5
  <2>7. k \in ToSet(scopes[q])
    BY <2>5, <2>6, OpenKeys
  <2> QED BY <2>3, <2>4, <2>7 DEF Awaits
<1>5. CASE Now(p).do = "begin"
  <2>1. ~SQLite
    BY DEF LockOrder, SQLite
  <2> QED BY <1>2, <1>5, <2>1 DEF WaitsFor
<1>6. CASE Now(p).do = "lock"
  <2>1. PICK r : r = Head(todo[p]).row
    OBVIOUS
  <2>2. rowlock[r] = q /\ rowlock[r] \notin {p, Nobody}
    BY <1>2, <1>6, <2>1 DEF WaitsFor
  <2>3. r \in Row /\ (r \in HeldBy(rowlock, p) \/ NextRow(r, HeldBy(rowlock, p)))
    BY <1>1, <1>2, <1>6, <2>1, KeepsLock
  <2> QED BY <1>3, <2>2, <2>3
<1>7. CASE Now(p).do = "save"
  <2>1. PICK A : A = Head(todo[p]).rows
    OBVIOUS
  <2>2. PICK r \in A : rowlock[r] = q /\ rowlock[r] \notin {p, Nobody}
    BY <1>2, <1>7, <2>1 DEF WaitsFor
  <2>3. r \in Row /\ (r \in HeldBy(rowlock, p) \/ NextRow(r, HeldBy(rowlock, p)))
    BY <1>1, <1>2, <1>7, <2>1, <2>2, KeepsSave
  <2> QED BY <1>3, <2>2, <2>3
<1>8. CASE Now(p).do = "end"
  <2>1. depth[p] = 1 /\ ChecksAccount(p) /\ rowlock[Account] = q /\ rowlock[Account] \notin {p, Nobody}
    BY <1>2, <1>8 DEF WaitsFor
  <2>2. call[p].op # "fund"
    BY DEF LockOrder, Orderly
  <2>3. p \in DOMAIN wrote[p]
    BY <2>1, <2>2 DEF ChecksAccount
  <2>4. rowlock[p] = p /\ p \in Row /\ Account \in Row
    BY <2>3, RowKinds DEF WritesLocked
  <2>5. p \in HeldBy(rowlock, p)
    BY <2>4 DEF HeldBy
  <2>6. p \in HeldBy(rowlock, p) => NextRow(Account, HeldBy(rowlock, p))
    <3>1. ~(depth[p] > 1)
      BY <2>1
    <3> QED BY <1>1, <1>2, <1>8, <3>1, KeepsEnd
  <2> QED BY <1>3, <2>1, <2>4, <2>5, <2>6
<1>9. CASE Now(p).do \notin {"acquire", "begin", "lock", "save", "end"}
  BY <1>2, <1>9 DEF WaitsFor
<1> QED BY <1>4, <1>5, <1>6, <1>7, <1>8, <1>9

LEMMA NoneWaits ==
  ASSUME NEW m \in TransferValue, Inv(m), IInv, Bracketed, LockOrder
  PROVE  NoCircularWait
<1>1. WritesLocked
  BY RowLocksHeld
<1>2. ASSUME NEW S \in SUBSET Process, S # {}
      PROVE  \E p \in S : WaitsFor(p) \intersect S = {}
  <2> SUFFICES ASSUME \A p \in S : \E q \in S : q \in WaitsFor(p)
               PROVE  FALSE
    OBVIOUS
  <2> DEFINE K == [p \in Process |-> ToSet(scopes[p])]
  <2> DEFINE R == [p \in Process |-> HeldBy(rowlock, p)]
  <2>1. ASSUME NEW p \in S PROVE \E q \in S : Awaits(K[p], R[p], K[q], R[q])
    <3>1. PICK q \in S : q \in WaitsFor(p)
      OBVIOUS
    <3>2. Awaits(ToSet(scopes[p]), HeldBy(rowlock, p), ToSet(scopes[q]), HeldBy(rowlock, q))
      BY <1>1, <3>1, WaitsInOrder
    <3>3. /\ K[p] = ToSet(scopes[p]) /\ R[p] = HeldBy(rowlock, p)
          /\ K[q] = ToSet(scopes[q]) /\ R[q] = HeldBy(rowlock, q)
      OBVIOUS
    <3> QED BY <3>2, <3>3
  <2> HIDE DEF K, R
  <2> QED BY <1>2, <2>1, NoCycle
<1> QED BY <1>2 DEF NoCircularWait

\* Calls that lock the budgets in their order, then transfers, the account, a transaction,
\* never wait for each other in a circle, whatever dies or expires on the way: transfers
\* and reversals, posting, editing, archiving and deleting budgets, on PostgreSQL
\* (the sorted locks of internal_transaction.py, the order of service/__init__.py).
THEOREM NoCircularWaitCorrect ==
  ASSUME \A s \in Start : LocksItsRows(s) /\ KeepsLockOrder(s)
  PROVE  Spec => []NoCircularWait
<1>1. Init => IInv /\ Bracketed /\ LockOrder
  BY InitInv, BracketInit, OrderInit
<1>2. IInv /\ Bracketed /\ LockOrder /\ [Next]_vars => IInv' /\ Bracketed' /\ LockOrder'
  <2>1. IInv /\ [Next]_vars => IInv'
    BY StepInv
  <2>2. IInv /\ Bracketed /\ [Next]_vars => Bracketed'
    BY BracketNext DEF IInv
  <2>3. IInv /\ Bracketed /\ LockOrder /\ [Next]_vars => LockOrder'
    BY OrderNext DEF IInv
  <2> QED BY <2>1, <2>2, <2>3
<1>3. IInv /\ Bracketed /\ LockOrder => NoCircularWait
  BY NoneWaits DEF IInv
<1> QED BY <1>1, <1>2, <1>3, PTL DEF Spec
=============================================================================
