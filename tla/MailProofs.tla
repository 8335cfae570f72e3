----------------------------- MODULE MailProofs -----------------------------
(* Proofs about the two components that mail users: of Notifications, type *)
(* correctness, MailedOnce, SentWasMailed and OneDigestAWindow, for any    *)
(* notifications, flushes and limits; of Invitations, type correctness,    *)
(* OwnersAnswered, OnePending and MailsBounded, for any requests, limits   *)
(* and number of rows.  The components share no state, and the two parts   *)
(* no lemma.                                                               *)
EXTENDS Notifications, Invitations, FiniteSetTheorems, SequenceTheorems, TLAPS

-----------------------------------------------------------------------------
(* Notifications.                                                          *)

\* A flush counts on from less than the limit, a sender from no more than its
\* retries, and either has a batch as long as it can still mail or mark it.
RunsCount ==
  /\ \A f \in Flushes : Busy(f) => run[f].count < MaxFailures
  /\ \A n \in Notes : Busy(n) => run[n].count <= MaxRetries
Batches ==
  /\ \A a \in Actors : run[a].at \in {"idle", "done"} => run[a].batch = {}
  /\ \A n \in Notes : run[n].at # "done"
  /\ \A a \in Actors : run[a].at = "idle" => run[a] = Idle

\* What a run is about to mark was mailed.
LinkedAfterMail == \A a \in Actors : run[a].at = "link" => \A n \in run[a].batch : copies[n] > 0

\* A notification that nothing disturbed has one holder, which has not mailed it
\* before it is at "link"; without a holder, it was not mailed unless it is marked.
Undisturbed(n) ==
  /\ \A a, b \in Actors : Holds(a, n) /\ Holds(b, n) => a = b
  /\ \A a \in Actors : Holds(a, n) /\ run[a].at \in {"render", "send"} => copies[n] = 0
  /\ copies[n] <= 1
  /\ row[n] \in {"none", "pending"} /\ (\A a \in Actors : ~Holds(a, n)) => copies[n] = 0
HeldOnce == \A n \in Notes \ disturbed : Undisturbed(n)

\* The same of the digest of a window.
OneFlush ==
  ~clashed =>
    /\ \A f, g \in Flushes : Busy(f) /\ Busy(g) => f = g
    /\ \A f \in Flushes : run[f].at \in {"render", "send"} => digests = 0
    /\ digests <= 1
    /\ (\A f \in Flushes : ~Busy(f)) /\ digests > 0 => last

TypeInv == TypeOK /\ RunsCount /\ Batches
NotificationsInv == TypeInv /\ LinkedAfterMail /\ SentWasMailed /\ HeldOnce /\ OneFlush

-----------------------------------------------------------------------------
LEMMA RunType ==
  ASSUME TypeOK, NEW a \in Actors
  PROVE  /\ run[a].at \in {"idle", "render", "send", "link", "done"}
         /\ run[a].batch \subseteq Notes /\ run[a].count \in Nat
BY DEF TypeOK

LEMMA IdleFields == Idle.at = "idle" /\ Idle.batch = {} /\ Idle.count = 0
BY DEF Idle

\* A run that is at a step is busy.
LEMMA AtBusy ==
  ASSUME TypeInv, NEW a \in Actors
  PROVE  /\ Busy(a) <=> run[a].at # "idle"
         /\ ~Busy(a) => run[a] = Idle
BY DEF TypeInv, Batches, Busy

LEMMA FlushIsActor == Flushes \subseteq Actors /\ Notes \subseteq Actors /\ Notes \cap Flushes = {}
BY NotesAssumption DEF Actors

\* A run that fails before its time is idle, and its failure is counted within the
\* limits.
LEMMA FailedTyped ==
  ASSUME TypeInv, NEW a \in Actors, Busy(a), run[a].at # "done", Failed(a)
  PROVE  /\ run' = [run EXCEPT ![a] = Idle]
         /\ failures' \in 0..MaxFailures
         /\ task' \in [Notes -> {NoTask} \union 0..MaxRetries]
<1>1. run' = [run EXCEPT ![a] = Idle]
  BY DEF Failed
<1>2. CASE a \in Flushes
  <2>1. failures' = run[a].count + 1 /\ task' = task
    BY <1>2 DEF Failed
  <2>2. run[a].count < MaxFailures /\ run[a].count \in Nat
    BY <1>2, RunType DEF TypeInv, RunsCount
  <2>3. QED
    BY <1>1, <2>1, <2>2, LimitsAssumption DEF TypeInv, TypeOK
<1>3. CASE a \notin Flushes
  <2>1. a \in Notes /\ failures' = failures
    BY <1>3 DEF Actors, Failed
  <2>2. run[a].count \in Nat /\ run[a].count <= MaxRetries
    BY <2>1, RunType DEF TypeInv, RunsCount
  <2>3. task' = IF run[a].count < MaxRetries
                THEN [task EXCEPT ![a] = run[a].count + 1] ELSE task
    BY <1>3 DEF Failed
  <2>4. run[a].count < MaxRetries => run[a].count + 1 \in 0..MaxRetries
    BY <2>2, LimitsAssumption
  <2>5. QED
    BY <1>1, <2>1, <2>3, <2>4 DEF TypeInv, TypeOK
<1>4. QED
  BY <1>2, <1>3

\* What is left to show of the types when one run changes.
LEMMA RunTyped ==
  ASSUME TypeInv, NEW a \in Actors, NEW new, run' = [run EXCEPT ![a] = new],
         new \in [at : {"idle", "render", "send", "link", "done"},
                  batch : SUBSET Notes, count : Nat],
         new.at \in {"idle", "done"} => new.batch = {},
         new.at = "idle" => new = Idle,
         a \in Notes => new.at # "done",
         new.at # "idle" =>
           /\ a \in Flushes => new.count < MaxFailures
           /\ a \in Notes => new.count <= MaxRetries
  PROVE  /\ run' \in [Actors -> [at : {"idle", "render", "send", "link", "done"},
                                 batch : SUBSET Notes, count : Nat]]
         /\ RunsCount' /\ Batches'
<1>1. run \in [Actors -> [at : {"idle", "render", "send", "link", "done"},
                         batch : SUBSET Notes, count : Nat]]
  BY DEF TypeInv, TypeOK
<1>2. run'[a] = new /\ \A b \in Actors \ {a} : run'[b] = run[b]
  BY <1>1
<1>3. RunsCount'
  BY <1>2, FlushIsActor DEF TypeInv, RunsCount, Busy, Idle
<1>4. Batches'
  BY <1>2, FlushIsActor DEF TypeInv, Batches
<1>5. QED
  BY <1>1, <1>3, <1>4

-----------------------------------------------------------------------------
LEMMA InitInv == Init => NotificationsInv
<1> SUFFICES ASSUME Init PROVE NotificationsInv
  OBVIOUS
<1>1. \A a \in Actors : run[a] = Idle
  BY DEF Init
<1>2. TypeOK
  <2>1. 0 \in 0..MaxFailures /\ 0 \in 0..MaxFaults /\ 0 \in 0..2
    BY LimitsAssumption
  <2>2. run \in [Actors -> [at : {"idle", "render", "send", "link", "done"},
                           batch : SUBSET Notes, count : Nat]]
    BY DEF Init, Idle
  <2>3. QED
    BY <2>1, <2>2 DEF Init, TypeOK, NoTask
<1>3. RunsCount /\ Batches
  BY <1>1, FlushIsActor DEF RunsCount, Batches, Busy, Idle
<1>4. LinkedAfterMail /\ SentWasMailed
  BY <1>1 DEF Init, LinkedAfterMail, SentWasMailed, Idle
<1>5. HeldOnce
  BY <1>1 DEF Init, HeldOnce, Undisturbed, Holds, Idle
<1>6. OneFlush
  BY <1>1, FlushIsActor DEF Init, OneFlush, Busy, Idle
<1>7. QED
  BY <1>2, <1>3, <1>4, <1>5, <1>6 DEF NotificationsInv, TypeInv

\* Types are kept by every action.
LEMMA TypeStep == TypeInv /\ [Next]_vars => TypeInv'
<1> SUFFICES ASSUME TypeInv, [Next]_vars PROVE TypeInv'
  OBVIOUS
<1> USE FlushIsActor
<1>types. TypeOK
  BY DEF TypeInv
<1>idle. Idle \in [at : {"idle", "render", "send", "link", "done"}, batch : SUBSET Notes, count : Nat]
  BY DEF Idle
\* A run that becomes idle.
<1>stop. ASSUME NEW a \in Actors, run' = [run EXCEPT ![a] = Idle]
         PROVE  /\ run' \in [Actors -> [at : {"idle", "render", "send", "link", "done"},
                                        batch : SUBSET Notes, count : Nat]]
                /\ RunsCount' /\ Batches'
  BY <1>stop, <1>idle, RunTyped, IdleFields
\* A run that stays as it is but for where it is at.
<1>go. ASSUME NEW a \in Actors, NEW at \in {"send", "link"}, Busy(a), run[a].at # "done",
              run' = [run EXCEPT ![a].at = at]
       PROVE  /\ run' \in [Actors -> [at : {"idle", "render", "send", "link", "done"},
                                      batch : SUBSET Notes, count : Nat]]
              /\ RunsCount' /\ Batches'
  <2> DEFINE new == [run[a] EXCEPT !.at = at]
  <2>1. run' = [run EXCEPT ![a] = new]
    BY <1>go, <1>types DEF TypeOK
  <2>2. new \in [at : {"idle", "render", "send", "link", "done"}, batch : SUBSET Notes, count : Nat]
    BY <1>go, <1>types DEF TypeOK
  <2>3. new.at = at /\ new.count = run[a].count
    BY <1>go, <1>types DEF TypeOK
  <2>4. /\ a \in Flushes => run[a].count < MaxFailures
        /\ a \in Notes => run[a].count <= MaxRetries
    BY <1>go DEF TypeInv, RunsCount
  <2> HIDE DEF new
  <2>5. QED
    BY <1>go, <2>1, <2>2, <2>3, <2>4, RunTyped
<1>same. ASSUME UNCHANGED run
         PROVE  /\ run' \in [Actors -> [at : {"idle", "render", "send", "link", "done"},
                                        batch : SUBSET Notes, count : Nat]]
                /\ RunsCount' /\ Batches'
  BY <1>same DEF TypeInv, TypeOK, RunsCount, Batches, Busy, Idle
<1>1. ASSUME NEW n \in Notes, Notify(n) PROVE TypeInv'
  <2>1. 0 \in 0..MaxRetries
    BY LimitsAssumption
  <2>2. QED
    BY <1>1, <2>1, <1>same, <1>types DEF Notify, TypeInv, TypeOK, history
<1>2. ASSUME NEW n \in Notes, TakeTask(n) PROVE TypeInv'
  <2>1. CASE Sendable(n)
    <3> DEFINE new == [at |-> "render", batch |-> {n}, count |-> task[n]]
    <3>1. run' = [run EXCEPT ![n] = new] /\ disturbed' \subseteq Notes
      BY <1>2, <2>1, <1>types DEF TakeTask, Reads, TypeOK
    <3>2. task[n] \in 0..MaxRetries
      BY <1>2, <1>types DEF TakeTask, TypeOK
    <3>3. new \in [at : {"idle", "render", "send", "link", "done"}, batch : SUBSET Notes, count : Nat]
      BY <3>2, LimitsAssumption
    <3>4. new.at = "render" /\ new.count <= MaxRetries
      BY <3>2, LimitsAssumption
    <3> HIDE DEF new
    <3>5. /\ run' \in [Actors -> [at : {"idle", "render", "send", "link", "done"},
                                 batch : SUBSET Notes, count : Nat]]
          /\ RunsCount' /\ Batches'
      BY <3>1, <3>3, <3>4, RunTyped
    <3>6. QED
      BY <1>2, <3>1, <3>5, <1>types DEF TakeTask, TypeInv, TypeOK
  <2>2. CASE ~Sendable(n)
    BY <1>2, <2>2, <1>same, <1>types DEF TakeTask, TypeInv, TypeOK
  <2>3. QED
    BY <2>1, <2>2
<1>3. ASSUME NEW n \in Notes, Purge(n) PROVE TypeInv'
  BY <1>3, <1>same, <1>types DEF Purge, TypeInv, TypeOK, history
<1>4. ASSUME NEW f \in Flushes, Flush(f) PROVE TypeInv'
  <2> DEFINE new == [at |-> "render", batch |-> Pending, count |-> failures]
  <2>1. run' = [run EXCEPT ![f] = new] /\ disturbed' \subseteq Notes
    BY <1>4, <1>types DEF Flush, Reads, TypeOK, Pending
  <2>2. failures \in Nat /\ failures < MaxFailures
    BY <1>4, <1>types, LimitsAssumption DEF Flush, Suspended, TypeOK
  <2>3. new \in [at : {"idle", "render", "send", "link", "done"}, batch : SUBSET Notes, count : Nat]
    BY <2>2 DEF Pending
  <2>4. new.at = "render" /\ new.count < MaxFailures
    BY <2>2
  <2> HIDE DEF new
  <2>5. /\ run' \in [Actors -> [at : {"idle", "render", "send", "link", "done"},
                               batch : SUBSET Notes, count : Nat]]
        /\ RunsCount' /\ Batches'
    BY <2>1, <2>3, <2>4, RunTyped
  <2>6. clashed' \in BOOLEAN
    BY <1>4, <1>types DEF Flush, TypeOK
  <2>7. QED
    BY <1>4, <2>1, <2>5, <2>6, <1>types DEF Flush, TypeInv, TypeOK
<1>5. ASSUME NEW f \in Flushes, Done(f) PROVE TypeInv'
  <2>1. 0 \in 0..MaxFailures
    BY LimitsAssumption
  <2>2. QED
    BY <1>5, <2>1, <1>stop, <1>types DEF Done, TypeInv, TypeOK, history
<1>6. ASSUME NEW a \in Actors, Render(a) PROVE TypeInv'
  <2>1. Busy(a)
    BY <1>6, AtBusy DEF Render
  <2>2. CASE run' = [run EXCEPT ![a].at = "send"] /\ UNCHANGED <<task, failures>>
    BY <1>6, <2>1, <2>2, <1>go, <1>types DEF Render, TypeInv, TypeOK, history
  <2>3. CASE Failed(a)
    BY <1>6, <2>1, <2>3, FailedTyped, <1>stop, <1>types DEF Render, TypeInv, TypeOK, history
  <2>4. QED
    BY <1>6, <2>2, <2>3 DEF Render
<1>7. ASSUME NEW a \in Actors, Refuse(a) PROVE TypeInv'
  <2>1. Busy(a)
    BY <1>7, AtBusy DEF Refuse
  <2>2. QED
    BY <1>7, <2>1, FailedTyped, <1>stop, <1>types DEF Refuse, TypeInv, TypeOK, history
<1>8. ASSUME NEW a \in Actors, Mail(a) PROVE TypeInv'
  <2>1. Busy(a)
    BY <1>8, AtBusy DEF Mail
  <2>2. \A c \in 0..2 : OneMore(c) \in 0..2
    BY DEF OneMore
  <2>3. copies' \in [Notes -> 0..2] /\ digests' \in 0..2
    BY <1>8, <2>2, <1>types DEF Mail, TypeOK
  <2>4. QED
    BY <1>8, <2>1, <2>3, <1>go, <1>types DEF Mail, TypeInv, TypeOK
<1>9. ASSUME NEW a \in Actors, Link(a) PROVE TypeInv'
  <2>1. row' \in [Notes -> {"none", "pending", "sent", "purged"}]
    BY <1>9, <1>types DEF Link, TypeOK
  <2>2. CASE a \in Flushes
    <3> DEFINE new == [run[a] EXCEPT !.at = "done", !.batch = {}]
    <3>1. run' = [run EXCEPT ![a] = new]
      BY <1>9, <2>2, <1>types DEF Link, TypeOK
    <3> run[a] \in [at : {"idle", "render", "send", "link", "done"}, batch : SUBSET Notes, count : Nat]
      BY <1>types DEF TypeOK
    <3>2. new \in [at : {"idle", "render", "send", "link", "done"}, batch : SUBSET Notes, count : Nat]
      OBVIOUS
    <3>3. new.at = "done" /\ new.batch = {} /\ new.count = run[a].count
      BY <1>types DEF TypeOK
    <3>4. new.count < MaxFailures
      BY <1>9, <2>2, <3>3, AtBusy DEF Link, TypeInv, RunsCount
    <3>5. a \notin Notes
      BY <2>2
    <3> HIDE DEF new
    <3>6. /\ run' \in [Actors -> [at : {"idle", "render", "send", "link", "done"},
                                 batch : SUBSET Notes, count : Nat]]
          /\ RunsCount' /\ Batches'
      BY <3>1, <3>2, <3>3, <3>4, <3>5, RunTyped
    <3>7. QED
      BY <1>9, <2>1, <3>6, <1>types DEF Link, TypeInv, TypeOK, history
  <2>3. CASE a \notin Flushes
    BY <1>9, <2>1, <2>3, <1>stop, <1>types DEF Link, TypeInv, TypeOK, history
  <2>4. QED
    BY <2>2, <2>3
<1>10. ASSUME NEW a \in Actors, Undone(a)
       PROVE  faults' \in 0..MaxFaults /\ disturbed' \subseteq Notes /\ clashed' \in BOOLEAN
  <2>1. faults' \in 0..MaxFaults
    BY <1>10, <1>types, LimitsAssumption DEF Undone, TypeOK
  <2>2. disturbed' \subseteq Notes
    BY <1>10, <1>types DEF Undone, TypeOK
  <2>3. clashed' \in BOOLEAN
    BY <1>10, <1>types DEF Undone, TypeOK
  <2>4. QED
    BY <2>1, <2>2, <2>3
<1>11. ASSUME NEW a \in Actors, Interrupt(a) PROVE TypeInv'
  <2>1. Busy(a)
    BY <1>11, AtBusy DEF Interrupt
  <2>2. QED
    BY <1>10, <1>11, <2>1, FailedTyped, <1>stop, <1>types DEF Interrupt, TypeInv, TypeOK
<1>12. ASSUME NEW a \in Actors, Die(a) PROVE TypeInv'
  BY <1>10, <1>12, <1>stop, <1>types DEF Die, TypeInv, TypeOK
<1>13. ASSUME Expire \/ Open \/ Close PROVE TypeInv'
  <2>1. 0 \in 0..MaxFailures /\ 0 \in 0..2
    BY LimitsAssumption
  <2>2. QED
    BY <1>13, <2>1, <1>same, <1>types DEF Expire, Open, Close, TypeInv, TypeOK, history
<1>14. ASSUME UNCHANGED vars PROVE TypeInv'
  BY <1>14, <1>same, <1>types DEF vars, history, TypeInv, TypeOK
<1>15. QED
  BY <1>1, <1>2, <1>3, <1>4, <1>5, <1>6, <1>7, <1>8, <1>9, <1>11, <1>12, <1>13, <1>14
  DEF Next, Step

-----------------------------------------------------------------------------
\* A run that changes its record changes no other one's.
LEMMA OneRun ==
  ASSUME TypeOK, NEW a \in Actors, NEW new, run' = [run EXCEPT ![a] = new]
  PROVE  run'[a] = new /\ \A b \in Actors : b # a => run'[b] = run[b]
BY DEF TypeOK

\* One that goes on keeps its batch.
LEMMA OneRunGoes ==
  ASSUME TypeOK, NEW a \in Actors, NEW at, run' = [run EXCEPT ![a].at = at]
  PROVE  /\ run'[a].at = at /\ run'[a].batch = run[a].batch
         /\ \A b \in Actors : b # a => run'[b] = run[b]
BY DEF TypeOK

\* An attempt that fails leaves its run idle.
LEMMA FailedIdle == ASSUME NEW a, Failed(a) PROVE run' = [run EXCEPT ![a] = Idle]
BY DEF Failed

\* What a step of a run that is not Mail or Link does to it, and what it leaves alone.
LEMMA StopOrGo ==
  ASSUME NEW a \in Actors, Render(a) \/ Refuse(a) \/ Interrupt(a) \/ Die(a)
  PROVE  /\ UNCHANGED <<row, copies, digests, last>>
         /\ \/ /\ run[a].at = "render" /\ run' = [run EXCEPT ![a].at = "send"]
               /\ disturbed' = disturbed /\ (~clashed' => ~clashed)
            \/ /\ run' = [run EXCEPT ![a] = Idle]
               /\ run[a].at # "link"
               /\ disturbed' = disturbed
               /\ ~clashed' => ~clashed /\ (a \in Flushes => run[a].at # "done")
            \/ /\ run' = [run EXCEPT ![a] = Idle]
               /\ run[a].at = "link"
               /\ disturbed' = disturbed \union run[a].batch
               /\ ~clashed' => ~clashed /\ a \notin Flushes
<1>1. CASE Render(a)
  BY <1>1, FailedIdle DEF Render, history
<1>2. CASE Refuse(a)
  BY <1>2, FailedIdle DEF Refuse, history
<1>3. CASE Interrupt(a)
  BY <1>3, FailedIdle DEF Interrupt, Undone
<1>4. CASE Die(a)
  BY <1>4 DEF Die, Undone
<1>5. QED
  BY <1>1, <1>2, <1>3, <1>4

\* A run that has read its batch is about to render it.
LEMMA ReadsMoves ==
  ASSUME TypeOK, NEW a \in Actors, NEW batch, NEW count, Reads(a, batch, count)
  PROVE  /\ run'[a].at = "render" /\ run'[a].batch = batch
         /\ \A b \in Actors : b # a => run'[b] = run[b]
<1> DEFINE new == [at |-> "render", batch |-> batch, count |-> count]
<1>1. run' = [run EXCEPT ![a] = new] /\ new.at = "render" /\ new.batch = batch
  BY DEF Reads
<1> HIDE DEF new
<1>2. QED
  BY <1>1, OneRun

\* A run that has marked its batch holds nothing.
LEMMA LinkMoves ==
  ASSUME TypeInv, NEW a \in Actors, Link(a)
  PROVE  /\ run[a].at = "link" /\ run'[a].batch = {}
         /\ run'[a].at = IF a \in Flushes THEN "done" ELSE "idle"
         /\ \A b \in Actors : b # a => run'[b] = run[b]
<1>types. TypeOK
  BY DEF TypeInv
<1>1. CASE a \in Flushes
  <2> DEFINE new == [run[a] EXCEPT !.at = "done", !.batch = {}]
  <2> run[a] \in [at : {"idle", "render", "send", "link", "done"}, batch : SUBSET Notes, count : Nat]
    BY <1>types DEF TypeOK
  <2>1. run' = [run EXCEPT ![a] = new]
    BY <1>1, <1>types DEF Link, TypeOK
  <2>2. new.at = "done" /\ new.batch = {}
    OBVIOUS
  <2> HIDE DEF new
  <2>3. QED
    BY <1>1, <2>1, <2>2, <1>types, OneRun DEF Link
<1>2. CASE a \notin Flushes
  BY <1>2, <1>types, OneRun, IdleFields DEF Link
<1>3. QED
  BY <1>1, <1>2

\* A run never marks what it has not mailed, so a marked notification was mailed.
LEMMA LinkedStep ==
  ASSUME TypeInv, TypeInv', LinkedAfterMail, SentWasMailed, [Next]_vars
  PROVE  LinkedAfterMail' /\ SentWasMailed'
<1> USE FlushIsActor
<1>types. TypeOK /\ Batches
  BY DEF TypeInv
<1>1. ASSUME NEW a \in Actors, NEW batch, NEW count, Reads(a, batch, count),
             UNCHANGED <<row, copies>>
      PROVE  LinkedAfterMail' /\ SentWasMailed'
  BY <1>1, <1>types, ReadsMoves DEF LinkedAfterMail, SentWasMailed
<1>2. ASSUME UNCHANGED <<run, copies>>,
             \A n \in Notes : row'[n] = "sent" => row[n] = "sent"
      PROVE  LinkedAfterMail' /\ SentWasMailed'
  BY <1>2 DEF LinkedAfterMail, SentWasMailed
<1>3. ASSUME NEW n \in Notes, Notify(n) \/ TakeTask(n) \/ Purge(n)
      PROVE  LinkedAfterMail' /\ SentWasMailed'
  <2>1. CASE Notify(n)
    BY <2>1, <1>2, <1>types DEF Notify, history, TypeOK
  <2>2. CASE TakeTask(n)
    BY <2>2, <1>1, <1>2 DEF TakeTask
  <2>3. CASE Purge(n)
    BY <2>3, <1>2, <1>types DEF Purge, history, TypeOK
  <2>4. QED
    BY <1>3, <2>1, <2>2, <2>3
<1>4. ASSUME NEW f \in Flushes, Flush(f) \/ Done(f) PROVE LinkedAfterMail' /\ SentWasMailed'
  <2>1. CASE Flush(f)
    BY <2>1, <1>1 DEF Flush
  <2>2. CASE Done(f)
    <3>1. run'[f] = Idle /\ \A b \in Actors : b # f => run'[b] = run[b]
      BY <2>2, <1>types, OneRun DEF Done
    <3>2. QED
      BY <2>2, <3>1, IdleFields DEF Done, history, LinkedAfterMail, SentWasMailed
  <2>3. QED
    BY <1>4, <2>1, <2>2
<1>5. ASSUME NEW a \in Actors, Render(a) \/ Refuse(a) \/ Interrupt(a) \/ Die(a)
      PROVE  LinkedAfterMail' /\ SentWasMailed'
  <2>1. UNCHANGED <<row, copies>>
    BY <1>5, StopOrGo
  <2>2. run'[a].at # "link" /\ \A b \in Actors : b # a => run'[b] = run[b]
    BY <1>5, <1>types, StopOrGo, OneRun, OneRunGoes, IdleFields
  <2>3. QED
    BY <2>1, <2>2 DEF LinkedAfterMail, SentWasMailed
<1>6. ASSUME NEW a \in Actors, Mail(a) PROVE LinkedAfterMail' /\ SentWasMailed'
  <2>1. run'[a].batch = run[a].batch /\ \A b \in Actors : b # a => run'[b] = run[b]
    BY <1>6, <1>types, OneRunGoes DEF Mail
  <2>2. \A n \in Notes : copies[n] \in 0..2
    BY <1>types DEF TypeOK
  <2>3. \A n \in Notes : copies[n] > 0 => copies'[n] > 0
    BY <1>6, <2>2 DEF Mail, OneMore
  <2>4. \A n \in run[a].batch : n \in Notes /\ copies'[n] > 0
    BY <1>6, <2>2, <1>types, RunType DEF Mail, OneMore, Holds
  <2>5. LinkedAfterMail'
    BY <2>1, <2>3, <2>4, <1>types, RunType DEF LinkedAfterMail
  <2>6. QED
    BY <1>6, <2>3, <2>5 DEF Mail, SentWasMailed
<1>7. ASSUME NEW a \in Actors, Link(a) PROVE LinkedAfterMail' /\ SentWasMailed'
  <2>1. copies' = copies /\ run[a].at = "link"
    BY <1>7 DEF Link, history
  <2>2. \A n \in Notes : row'[n] = "sent" => copies[n] > 0
    BY <1>7, <2>1 DEF Link, Linked, LinkedAfterMail, SentWasMailed
  <2>3. run'[a].at # "link" /\ \A b \in Actors : b # a => run'[b] = run[b]
    BY <1>7, LinkMoves
  <2>4. QED
    BY <2>1, <2>2, <2>3 DEF LinkedAfterMail, SentWasMailed
<1>8. ASSUME Expire \/ Open \/ Close \/ UNCHANGED vars PROVE LinkedAfterMail' /\ SentWasMailed'
  BY <1>8, <1>2 DEF Expire, Open, Close, vars, history
<1>9. QED
  BY <1>3, <1>4, <1>5, <1>6, <1>7, <1>8 DEF Next, Step

-----------------------------------------------------------------------------
\* An undisturbed notification keeps one holder at most, which mails it once.
LEMMA HeldStep ==
  ASSUME TypeInv, TypeInv', HeldOnce, [Next]_vars
  PROVE  HeldOnce'
<1> USE FlushIsActor
<1>types. TypeOK /\ Batches
  BY DEF TypeInv
<1> SUFFICES ASSUME NEW n \in Notes, n \notin disturbed' PROVE Undisturbed(n)'
  BY DEF HeldOnce
<1>copies. copies[n] \in 0..2
  BY <1>types DEF TypeOK
\* A row that appears or goes.
<1>1. ASSUME UNCHANGED <<run, copies, disturbed>>,
             row'[n] \in {"none", "pending"} => row[n] \in {"none", "pending"}
      PROVE  Undisturbed(n)'
  <2>1. Undisturbed(n)
    BY <1>1 DEF HeldOnce
  <2>2. QED
    BY <1>1, <2>1 DEF Undisturbed, Holds
\* A run reads a batch of pending rows: nobody else holds one that stays undisturbed.
<1>2. ASSUME NEW a \in Actors, NEW batch \in SUBSET Pending, NEW count, ~Busy(a),
             Reads(a, batch, count), UNCHANGED <<row, copies>>
      PROVE  Undisturbed(n)'
  <2>1. n \notin disturbed /\ (n \in batch => \A b \in Actors : ~Holds(b, n))
    BY <1>2 DEF Reads
  <2>2. Undisturbed(n)
    BY <2>1 DEF HeldOnce
  <2>3. n \in batch => copies[n] = 0
    BY <1>2, <2>1, <2>2 DEF Undisturbed, Pending
  <2>4. /\ run'[a].at = "render" /\ run'[a].batch = batch
        /\ \A b \in Actors : b # a => run'[b] = run[b]
    BY <1>2, <1>types, ReadsMoves
  <2>5. ~Holds(a, n)
    BY <1>2, AtBusy, IdleFields DEF Holds
  <2>6. QED
    BY <1>2, <2>1, <2>2, <2>3, <2>4, <2>5 DEF Undisturbed, Holds
\* A run ends without a trace of its batch, unless it was at "link".
<1>3. ASSUME NEW a \in Actors, run' = [run EXCEPT ![a] = Idle], UNCHANGED <<row, copies>>,
             n \notin disturbed, Holds(a, n) => run[a].at # "link"
      PROVE  Undisturbed(n)'
  <2>1. Undisturbed(n)
    BY <1>3 DEF HeldOnce
  <2>2. run'[a].batch = {} /\ \A b \in Actors : b # a => run'[b] = run[b]
    BY <1>3, <1>types, OneRun, IdleFields
  <2>3. Holds(a, n) => run[a].at \in {"render", "send"}
    BY <1>3, <1>types, RunType DEF Batches, Holds
  <2>4. Holds(a, n) => copies[n] = 0
    BY <2>1, <2>3 DEF Undisturbed
  <2>5. QED
    BY <1>3, <2>1, <2>2, <2>4 DEF Undisturbed, Holds
<1>4. ASSUME NEW m \in Notes, Notify(m) \/ Purge(m) PROVE Undisturbed(n)'
  BY <1>4, <1>1, <1>types DEF Notify, Purge, history, TypeOK
<1>5. ASSUME NEW m \in Notes, TakeTask(m) PROVE Undisturbed(n)'
  <2>1. CASE Sendable(m)
    <3>1. {m} \in SUBSET Pending
      BY <2>1 DEF Sendable, Pending
    <3>2. QED
      BY <1>2, <1>5, <2>1, <3>1 DEF TakeTask
  <2>2. CASE ~Sendable(m)
    BY <1>1, <1>5, <2>2 DEF TakeTask
  <2>3. QED
    BY <2>1, <2>2
<1>6. ASSUME NEW f \in Flushes, Flush(f) PROVE Undisturbed(n)'
  BY <1>2, <1>6 DEF Flush
<1>7. ASSUME NEW f \in Flushes, Done(f) PROVE Undisturbed(n)'
  BY <1>3, <1>7 DEF Done, history
<1>8. ASSUME NEW a \in Actors, Render(a) \/ Refuse(a) \/ Interrupt(a) \/ Die(a)
      PROVE  Undisturbed(n)'
  <2>1. UNCHANGED <<row, copies>>
    BY <1>8, StopOrGo
  <2>2. CASE run' = [run EXCEPT ![a].at = "send"] /\ run[a].at = "render" /\ disturbed' = disturbed
    <3>1. Undisturbed(n)
      BY <2>2 DEF HeldOnce
    <3>2. QED
      BY <2>1, <2>2, <3>1, <1>types, OneRunGoes DEF Undisturbed, Holds
  <2>3. CASE run' = [run EXCEPT ![a] = Idle] /\ run[a].at # "link" /\ disturbed' = disturbed
    BY <1>3, <2>1, <2>3
  <2>4. CASE /\ run' = [run EXCEPT ![a] = Idle]
             /\ disturbed' = disturbed \union run[a].batch
    BY <1>3, <2>1, <2>4 DEF Holds
  <2>5. QED
    BY <1>8, <2>2, <2>3, <2>4, StopOrGo
<1>9. ASSUME NEW a \in Actors, Mail(a) PROVE Undisturbed(n)'
  <2>1. disturbed' = disturbed /\ row' = row /\ run[a].at = "send"
    BY <1>9 DEF Mail
  <2>2. Undisturbed(n)
    BY <2>1 DEF HeldOnce
  <2>3. /\ run'[a].at = "link" /\ run'[a].batch = run[a].batch
        /\ \A b \in Actors : b # a => run'[b] = run[b]
    BY <1>9, <1>types, OneRunGoes DEF Mail
  <2>4. CASE Holds(a, n)
    <3>1. copies[n] = 0 /\ \A b \in Actors : Holds(b, n) => b = a
      BY <2>1, <2>2, <2>4 DEF Undisturbed
    <3>2. copies'[n] = 1
      BY <1>9, <2>4, <3>1 DEF Mail, OneMore
    <3>3. QED
      BY <2>1, <2>3, <2>4, <3>1, <3>2 DEF Undisturbed, Holds
  <2>5. CASE ~Holds(a, n)
    <3>1. copies'[n] = copies[n]
      BY <1>9, <2>5 DEF Mail
    <3>2. QED
      BY <2>1, <2>2, <2>3, <2>5, <3>1 DEF Undisturbed, Holds
  <2>6. QED
    BY <2>4, <2>5
<1>10. ASSUME NEW a \in Actors, Link(a) PROVE Undisturbed(n)'
  <2>1. copies' = copies /\ disturbed' = disturbed
    BY <1>10 DEF Link, history
  <2>2. Undisturbed(n)
    BY <2>1 DEF HeldOnce
  <2>3. run'[a].batch = {} /\ \A b \in Actors : b # a => run'[b] = run[b]
    BY <1>10, LinkMoves
  <2>4. row'[n] \in {"none", "pending"} => row[n] \in {"none", "pending"} /\ ~Holds(a, n)
    BY <1>10 DEF Link, Linked, Holds
  <2>5. QED
    BY <2>1, <2>2, <2>3, <2>4 DEF Undisturbed, Holds
<1>11. ASSUME Expire \/ Open \/ Close \/ UNCHANGED vars PROVE Undisturbed(n)'
  BY <1>1, <1>11 DEF Expire, Open, Close, vars, history
<1>12. QED
  BY <1>4, <1>5, <1>6, <1>7, <1>8, <1>9, <1>10, <1>11 DEF Next, Step

-----------------------------------------------------------------------------
\* A window's digest is mailed once, unless flushes clashed.
LEMMA FlushStep ==
  ASSUME TypeInv, TypeInv', OneFlush, [Next]_vars
  PROVE  OneFlush'
<1> USE FlushIsActor
<1>types. TypeOK /\ Batches
  BY DEF TypeInv
<1>busy. \A f \in Flushes : run[f] # Idle <=> run[f].at # "idle"
  BY IdleFields DEF TypeInv, Batches
<1>busier. \A f \in Flushes : run'[f] # Idle <=> run'[f].at # "idle"
  BY IdleFields DEF TypeInv, Batches
<1> DEFINE Goal == /\ \A f, g \in Flushes : run'[f].at # "idle" /\ run'[g].at # "idle" => f = g
                   /\ \A f \in Flushes : run'[f].at \in {"render", "send"} => digests' = 0
                   /\ digests' <= 1
                   /\ (\A f \in Flushes : run'[f].at = "idle") /\ digests' > 0 => last'
<1>goal. (~clashed' => Goal) => OneFlush'
  BY <1>busier DEF OneFlush, Busy
<1>now. ~clashed => /\ \A f, g \in Flushes : run[f].at # "idle" /\ run[g].at # "idle" => f = g
                    /\ \A f \in Flushes : run[f].at \in {"render", "send"} => digests = 0
                    /\ digests <= 1
                    /\ (\A f \in Flushes : run[f].at = "idle") /\ digests > 0 => last
  BY <1>busy DEF OneFlush, Busy
<1> SUFFICES ASSUME ~clashed' PROVE Goal
  BY <1>goal
<1>digests. digests \in 0..2
  BY <1>types DEF TypeOK
\* Nothing about the flushes changes.
<1>1. ASSUME \A f \in Flushes : run'[f] = run[f], UNCHANGED <<digests, last, clashed>>
      PROVE  Goal
  BY <1>1, <1>now
<1>2. ASSUME NEW n \in Notes, Notify(n) \/ TakeTask(n) \/ Purge(n) PROVE Goal
  <2>1. \A f \in Flushes : run'[f] = run[f]
    <3>1. CASE UNCHANGED run
      BY <3>1
    <3>2. CASE TakeTask(n) /\ Reads(n, {n}, task[n])
      BY <3>2, <1>types, ReadsMoves
    <3>3. QED
      BY <1>2, <3>1, <3>2 DEF Notify, TakeTask, Purge
  <2>2. UNCHANGED <<digests, last, clashed>>
    BY <1>2 DEF Notify, TakeTask, Purge, history
  <2>3. QED
    BY <1>1, <2>1, <2>2
\* The window is open, no digest was marked and no flush is under way: none was mailed.
<1>3. ASSUME NEW f \in Flushes, Flush(f) PROVE Goal
  <2>1. ~clashed /\ \A g \in Flushes : run[g].at = "idle"
    BY <1>3, <1>busy DEF Flush, Flushing, Busy
  <2>2. digests' = digests /\ last' = last /\ ~last
    BY <1>3 DEF Flush, Due
  <2>3. digests = 0
    BY <2>1, <2>2, <1>digests, <1>now
  <2>4. \A g \in Flushes : g # f => run'[g] = run[g]
    BY <1>3, <1>types, ReadsMoves DEF Flush
  <2>5. QED
    BY <2>1, <2>2, <2>3, <2>4, <1>now
<1>4. ASSUME NEW f \in Flushes, Done(f) PROVE Goal
  <2>1. last' /\ digests' = digests /\ clashed' = clashed
    BY <1>4 DEF Done, history
  <2>2. run'[f].at = "idle" /\ \A g \in Flushes : g # f => run'[g] = run[g]
    BY <1>4, <1>types, OneRun, IdleFields DEF Done
  <2>3. QED
    BY <2>1, <2>2, <1>now
<1>5. ASSUME NEW a \in Actors, Render(a) \/ Refuse(a) \/ Interrupt(a) \/ Die(a) PROVE Goal
  <2>1. digests' = digests /\ last' = last /\ ~clashed
    BY <1>5, StopOrGo
  <2>2. CASE run' = [run EXCEPT ![a].at = "send"] /\ run[a].at = "render"
    <3>1. run'[a].at = "send" /\ \A b \in Actors : b # a => run'[b] = run[b]
      BY <2>2, <1>types, OneRunGoes
    <3>2. QED
      BY <2>1, <2>2, <3>1, <1>now
  <2>3. CASE run' = [run EXCEPT ![a] = Idle] /\ (a \in Flushes => run[a].at \notin {"link", "done"})
    <3>1. run'[a].at = "idle" /\ \A b \in Actors : b # a => run'[b] = run[b]
      BY <2>3, <1>types, OneRun, IdleFields
    <3>2. run[a].at \in {"idle", "render", "send", "link", "done"} /\ run[a].at # "idle"
      BY <1>5, <1>types, RunType, AtBusy DEF Render, Refuse, Interrupt, Die
    <3>3. a \in Flushes => digests = 0
      BY <2>1, <2>3, <3>2, <1>now
    <3>4. QED
      BY <2>1, <3>1, <3>2, <3>3, <1>now
  <2>4. QED
    BY <1>5, <2>2, <2>3, StopOrGo
<1>6. ASSUME NEW a \in Actors, Mail(a) PROVE Goal
  <2>1. /\ run'[a].at = "link" /\ run[a].at = "send"
        /\ \A b \in Actors : b # a => run'[b] = run[b]
    BY <1>6, <1>types, OneRunGoes DEF Mail
  <2>2. last' = last /\ ~clashed
    BY <1>6 DEF Mail
  <2>3. CASE a \in Flushes
    <3>1. digests = 0 /\ \A g \in Flushes : run[g].at # "idle" => g = a
      BY <2>1, <2>2, <2>3, <1>now
    <3>2. digests' = 1
      BY <1>6, <2>3, <3>1 DEF Mail, OneMore
    <3>3. QED
      BY <2>1, <2>2, <2>3, <3>1, <3>2, <1>now
  <2>4. CASE a \notin Flushes
    <3>1. digests' = digests /\ \A f \in Flushes : run'[f] = run[f]
      BY <1>6, <2>1, <2>4 DEF Mail
    <3>2. QED
      BY <2>2, <3>1, <1>now
  <2>5. QED
    BY <2>3, <2>4
<1>7. ASSUME NEW a \in Actors, Link(a) PROVE Goal
  <2>1. /\ run[a].at = "link" /\ run'[a].at = IF a \in Flushes THEN "done" ELSE "idle"
        /\ \A b \in Actors : b # a => run'[b] = run[b]
    BY <1>7, LinkMoves
  <2>2. digests' = digests /\ last' = last /\ ~clashed
    BY <1>7 DEF Link, history
  <2>3. QED
    BY <2>1, <2>2, <1>now
<1>8. ASSUME Open PROVE Goal
  <2>1. digests' = 0 /\ run' = run /\ \A f \in Flushes : run[f].at = "idle"
    BY <1>8, <1>busy DEF Open, Flushing, Busy
  <2>2. QED
    BY <2>1, <1>now
<1>9. ASSUME Expire \/ Close \/ UNCHANGED vars PROVE Goal
  <2>1. UNCHANGED <<run, digests, last, clashed>>
    BY <1>9 DEF Expire, Close, vars, history
  <2>2. QED
    BY <1>1, <2>1
<1>10. Goal
  BY <1>2, <1>3, <1>4, <1>5, <1>6, <1>7, <1>8, <1>9 DEF Next, Step
<1>11. QED
  BY <1>10

-----------------------------------------------------------------------------
LEMMA StepInv == NotificationsInv /\ [Next]_vars => NotificationsInv'
BY TypeStep, LinkedStep, HeldStep, FlushStep DEF NotificationsInv

LEMMA InvHolds == Spec => []NotificationsInv
<1>1. Init => NotificationsInv
  BY InitInv
<1>2. NotificationsInv /\ [Next]_vars => NotificationsInv'
  BY StepInv
<1>3. QED
  BY <1>1, <1>2, PTL DEF Spec

\* The types of notify's rows, the queued sends, the runs, the failure counter and
\* the histories.
THEOREM TypeCorrect == Spec => []TypeOK
<1>1. NotificationsInv => TypeOK
  BY DEF NotificationsInv, TypeInv
<1>2. QED
  BY <1>1, InvHolds, PTL

\* However many senders and flushes run, a notification that only one of them held at
\* a time, and that nobody failed to mark after mailing it, is mailed once.
THEOREM MailedOnceCorrect == Spec => []MailedOnce
<1>1. NotificationsInv => MailedOnce
  BY DEF NotificationsInv, HeldOnce, Undisturbed, MailedOnce
<1>2. QED
  BY <1>1, InvHolds, PTL

\* A log entry is set on nothing that was not mailed.
THEOREM SentWasMailedCorrect == Spec => []SentWasMailed
<1>1. NotificationsInv => SentWasMailed
  BY DEF NotificationsInv
<1>2. QED
  BY <1>1, InvHolds, PTL

\* Any number of flushes send one digest a window, unless they overlap or one dies
\* between the mail and the note of it.
THEOREM OneDigestCorrect == Spec => []OneDigestAWindow
<1>1. NotificationsInv => OneDigestAWindow
  BY DEF NotificationsInv, OneFlush, OneDigestAWindow
<1>2. QED
  BY <1>1, InvHolds, PTL

-----------------------------------------------------------------------------
(* Invitations.                                                            *)

Statuses == {"pending", "accepted", "declined", "cancelled", "expired"}
Ages == {"new", "over", "old"}
On(r, i) == serving[r].op \in Answers /\ serving[r].row = i

\* A request works on a row that exists, and a mail it is going to count is within
\* the limit.
RowsExist ==
  \A r \in Requests : serving[r].op \in Answers =>
    /\ serving[r].row \in DOMAIN inv
    /\ serving[r].op = "resend" => serving[r].count <= MaxResends

\* Of what is not in raced, one request at a time reads and writes it.
Alone ==
  \A r, s \in Requests : r # s => Things(serving[r]) \intersect Things(serving[s]) \subseteq raced

\* A request that is alone with a row finds it as it read it.
StillPending ==
  \A r \in Requests : \A i \in DOMAIN inv \ raced : On(r, i) => inv[i].status = "pending"
StillCounted ==
  \A r \in Requests : \A i \in DOMAIN inv \ raced :
    On(r, i) /\ serving[r].op = "resend" => serving[r].count = inv[i].count

\* No more mails than are counted.
MailsCounted ==
  \A i \in DOMAIN inv : IF i \in raced THEN mails[i] = 1 ELSE mails[i] <= inv[i].count

\* An acceptance that adds nobody has nobody to add: its row names no user any more, or
\* one that is active already.
NobodyToAdd ==
  \A r \in Requests :
    serving[r].op = "accept" /\ ~serving[r].adds /\ inv[serving[r].row].invitee => joined

\* As long as creations did not overlap: one row is live; none while a new one is about
\* to be written, and none but its own while an acceptance is.
OneLive ==
  0 \notin raced =>
    /\ \A i, j \in DOMAIN inv : Live(i) /\ Live(j) => i = j
    /\ flow = "account" /\ joined => \A i \in DOMAIN inv : ~Live(i)
    /\ \A r \in Requests :
         /\ serving[r].op = "create" /\ flow = "account" => ~joined
         /\ Creating(r, "write") => \A i \in DOMAIN inv : ~Live(i)
         /\ serving[r].op = "accept" => \A i \in DOMAIN inv : Live(i) => i = serving[r].row

\* And the window has room for the row that is about to be written.
Room ==
  0 \notin raced =>
    /\ Cardinality(InWindow) <= MaxPerWindow
    /\ \A r \in Requests : Creating(r, "write") => Cardinality(InWindow) < MaxPerWindow

InviteTypeInv == InviteTypeOK /\ RowsExist
RacesInv == InviteTypeInv /\ Alone /\ StillPending /\ StillCounted
InvitationsInv == RacesInv /\ MailsCounted /\ OneLive /\ Room /\ OwnersAnswered
                          /\ NobodyToAdd

-----------------------------------------------------------------------------
(* What the types say of rows and of requests.                             *)

LEMMA Bounds == MaxResends \in Nat /\ MaxPerWindow \in Nat \ {0} /\ MaxInvitations \in Nat
BY MaximaAssumption

LEMMA RowFacts ==
  ASSUME InviteTypeOK
  PROVE  /\ Len(inv) \in 0..MaxInvitations
         /\ DOMAIN inv = 1..Len(inv) /\ DOMAIN mails = DOMAIN inv
         /\ \A i \in DOMAIN inv : /\ inv[i] \in Rows
                                  /\ inv[i].status \in Statuses /\ inv[i].age \in Ages
                                  /\ inv[i].count \in 1..(MaxResends + 1)
                                  /\ mails[i] \in 1..(MaxResends + 2)
<1>1. /\ Len(inv) \in Nat /\ DOMAIN inv = 1..Len(inv)
      /\ Len(mails) = Len(inv) /\ DOMAIN mails = 1..Len(mails)
  BY LenProperties DEF InviteTypeOK
<1>2. \A i \in DOMAIN inv : inv[i] \in Rows /\ mails[i] \in 1..(MaxResends + 2)
  BY <1>1, ElementOfSeq DEF InviteTypeOK
<1>3. \A i \in DOMAIN inv : /\ inv[i].status \in Statuses /\ inv[i].age \in Ages
                            /\ inv[i].count \in 1..(MaxResends + 1)
  BY <1>2 DEF Rows, Statuses, Ages
<1>4. QED
  BY <1>1, <1>2, <1>3, Bounds DEF InviteTypeOK

LEMMA RunFacts ==
  ASSUME InviteTypeOK, NEW r \in Requests
  PROVE  /\ serving[r].op \in {"idle", "create"} \union Answers
         /\ serving[r].op = "idle" <=> serving[r] = Free
         /\ serving[r].op = "create" => serving[r] \in [op : {"create"}, at : {"check", "write"}]
         /\ serving[r].op \in Answers =>
              serving[r] \in [op : Answers, row : 1..MaxInvitations, count : 0..(MaxResends + 1),
                                adds : BOOLEAN]
<1>1. serving[r] \in Runs
  BY DEF InviteTypeOK
<1>2. QED
  BY <1>1 DEF Runs, Free, Answers

\* What of the things of a request concerns the creation of rows, and what a row.
LEMMA ThingsOf ==
  ASSUME NEW q \in Runs
  PROVE  /\ Things(q) \subseteq 0..MaxInvitations
         /\ 0 \in Things(q) <=> q.op \in {"create", "accept"}
         /\ \A i \in 1..MaxInvitations : i \in Things(q) <=> q.op \in Answers /\ q.row = i
<1>1. CASE q = Free
  BY <1>1 DEF Free, Things, Answers
<1>2. CASE q \in [op : {"create"}, at : {"check", "write"}]
  BY <1>2, Bounds DEF Things, Answers
<1>3. CASE q \in [op : Answers, row : 1..MaxInvitations, count : 0..(MaxResends + 1),
                  adds : BOOLEAN]
  <2>1. q.op \in Answers /\ q.row \in 1..MaxInvitations
    BY <1>3
  <2>2. CASE q.op = "accept"
    BY <2>1, <2>2, Bounds DEF Things, Answers
  <2>3. CASE q.op # "accept"
    <3>1. Things(q) = {q.row}
      BY <2>1, <2>3 DEF Things, Answers
    <3>2. QED
      BY <2>1, <2>3, <3>1, Bounds DEF Answers
  <2>4. QED
    BY <2>2, <2>3
<1>4. QED
  BY <1>1, <1>2, <1>3 DEF Runs

LEMMA ThingsFacts ==
  ASSUME InviteTypeOK, NEW r \in Requests
  PROVE  /\ Things(serving[r]) \subseteq 0..MaxInvitations
         /\ 0 \in Things(serving[r]) <=> serving[r].op \in {"create", "accept"}
         /\ \A i \in DOMAIN inv : i \in Things(serving[r]) <=> On(r, i)
<1>1. serving[r] \in Runs
  BY DEF InviteTypeOK
<1>2. DOMAIN inv \subseteq 1..MaxInvitations
  <2>1. DOMAIN inv = 1..Len(inv) /\ Len(inv) \in 0..MaxInvitations
    BY RowFacts
  <2>2. QED
    BY <2>1, Bounds
<1>3. QED
  BY <1>1, <1>2, ThingsOf DEF On

-----------------------------------------------------------------------------
(* The steps, with what they leave of the rows and the requests.           *)

Taking(r, i, op) ==
  /\ op \in Answers /\ i \in DOMAIN inv
  /\ op = "resend" /\ inv[i].age = "new" => Resendable(i)
  /\ Take(r, i, op)
Answered(r, status) ==
  /\ serving[r].op \in Answers /\ status \in Statuses \ {"pending"}
  /\ Becomes(r, status)
  /\ IF status = "accepted"
     THEN serving[r].op = "accept" /\ joined' = (joined \/ serving[r].adds)
     ELSE joined' = joined
Growing(i) ==
  \/ Grow(i, "new", "over")
  \/ Grow(i, "over", "old")

LEMMA StepCases ==
  ASSUME [InviteNext]_inviteVars
  PROVE  \/ \E r \in Requests : Create(r) \/ Check(r) \/ Insert(r) \/ Resent(r) \/ Fail(r)
                                  \/ FailMailed(r)
         \/ \E r \in Requests : \E i \in DOMAIN inv, op \in Answers : Taking(r, i, op)
         \/ \E r \in Requests : \E status \in Statuses : Answered(r, status)
         \/ \E i \in DOMAIN inv : Growing(i)
         \/ JoinElsewhere \/ DeleteUser
         \/ UNCHANGED inviteVars
<1>1. ASSUME NEW r \in Requests, Serve(r)
      PROVE  \/ Create(r) \/ Check(r) \/ Insert(r) \/ Resent(r) \/ Fail(r) \/ FailMailed(r)
             \/ \E i \in DOMAIN inv, op \in Answers : Taking(r, i, op)
             \/ \E status \in Statuses : Answered(r, status)
  <2>1. \A i \in DOMAIN inv :
          /\ Take(r, i, "accept") => Taking(r, i, "accept")
          /\ Take(r, i, "cancel") => Taking(r, i, "cancel")
          /\ Take(r, i, "decline") => Taking(r, i, "decline")
          /\ Resend(r, i) => Taking(r, i, "resend")
    BY DEF Taking, Answers, Resend
  <2>2. /\ Accepted(r) => Answered(r, "accepted")
        /\ Declined(r) => Answered(r, "declined")
        /\ Cancelled(r) => Answered(r, "cancelled")
        /\ Marked(r) => Answered(r, "expired")
    BY DEF Accepted, Declined, Cancelled, Marked, Doing, Answered, Answers, Statuses
  <2>3. {"accept", "cancel", "decline", "resend"} \subseteq Answers
        /\ {"accepted", "declined", "cancelled", "expired"} \subseteq Statuses
    BY DEF Answers, Statuses
  <2>4. QED
    BY <1>1, <2>1, <2>2, <2>3 DEF Serve
<1>2. QED
  BY <1>1 DEF InviteNext, Growing
-----------------------------------------------------------------------------
\* A request that ends is idle, and no other changes.
LEMMA EndFacts ==
  ASSUME InviteTypeOK, NEW r \in Requests, End(r)
  PROVE  /\ serving' \in [Requests -> Runs]
         /\ serving'[r] = Free
         /\ \A s \in Requests \ {r} : serving'[s] = serving[s]
<1>1. Free \in Runs
  BY DEF Runs
<1>2. QED
  BY <1>1 DEF End, InviteTypeOK

\* A request that begins was idle; what it shares with others is in raced from now on.
LEMMA BeginFacts ==
  ASSUME InviteTypeOK, NEW r \in Requests, NEW q \in Runs, Begin(r, q)
  PROVE  /\ serving' \in [Requests -> Runs]
         /\ serving'[r] = q
         /\ \A s \in Requests \ {r} : serving'[s] = serving[s]
         /\ raced \subseteq raced' /\ raced' \subseteq 0..MaxInvitations
         /\ \A s \in Requests \ {r} : Things(q) \intersect Things(serving[s]) \subseteq raced'
         /\ mails' \in Seq(1..(MaxResends + 2)) /\ Len(mails') = Len(mails)
         /\ \A i \in DOMAIN inv : mails'[i] = IF i \in raced' THEN 1 ELSE mails[i]
<1>1. /\ serving' \in [Requests -> Runs]
      /\ serving'[r] = q /\ \A s \in Requests \ {r} : serving'[s] = serving[s]
  BY DEF Begin, InviteTypeOK
<1>2. /\ raced \subseteq raced'
      /\ \A s \in Requests \ {r} : Things(q) \intersect Things(serving[s]) \subseteq raced'
  BY DEF Begin
<1>3. raced' \subseteq 0..MaxInvitations
  <2>1. Things(q) \subseteq 0..MaxInvitations
    BY ThingsOf
  <2>2. QED
    BY <2>1 DEF Begin, InviteTypeOK
<1>4. DOMAIN mails = 1..Len(mails) /\ Len(mails) \in Nat /\ DOMAIN mails = DOMAIN inv
      /\ \A i \in DOMAIN mails : mails[i] \in 1..(MaxResends + 2)
  BY RowFacts, LenProperties DEF InviteTypeOK
<1>5. mails' = [i \in 1..Len(mails) |-> IF i \in raced' THEN 1 ELSE mails[i]]
  BY <1>4 DEF Begin
<1>6. mails' \in [1..Len(mails) -> 1..(MaxResends + 2)]
  BY <1>4, <1>5, Bounds
<1>7. mails' \in Seq(1..(MaxResends + 2))
  BY <1>4, <1>6, SeqDef
<1>8. Len(mails') = Len(mails)
  <2>1. DOMAIN mails' = 1..Len(mails) /\ DOMAIN mails' = 1..Len(mails') /\ Len(mails') \in Nat
    BY <1>5, <1>7, LenProperties
  <2>2. QED
    BY <1>4, <2>1
<1>9. QED
  BY <1>1, <1>2, <1>3, <1>4, <1>5, <1>7, <1>8

\* The request that an action begins, in a name of its own.
NewCreate == [op |-> "create", at |-> "check"]
NewTake(i, op) == [op |-> IF inv[i].age = "new" THEN op ELSE "expire",
                   row |-> i, count |-> IF op = "resend" THEN inv[i].count ELSE 0,
                   adds |-> op = "accept" /\ Adds(i)]

LEMMA CreateFacts ==
  ASSUME InviteTypeOK, NEW r \in Requests, Create(r)
  PROVE  /\ NewCreate \in Runs /\ Begin(r, NewCreate) /\ serving[r] = Free /\ ~joined
         /\ UNCHANGED <<flow, inv, joined>>
BY DEF Create, NewCreate, Runs, Occupied, Taken

LEMMA TakingFacts ==
  ASSUME InviteTypeOK, NEW r \in Requests, NEW i \in DOMAIN inv, NEW op \in Answers, Taking(r, i, op)
  PROVE  /\ NewTake(i, op) \in Runs /\ Begin(r, NewTake(i, op)) /\ serving[r] = Free
         /\ NewTake(i, op).row = i /\ NewTake(i, op).op \in Answers
         /\ inv[i].status = "pending"
         /\ NewTake(i, op).op \in {"accept", "resend"} => inv[i].age = "new" /\ op = NewTake(i, op).op
         /\ NewTake(i, op).op = "resend" =>
              NewTake(i, op).count = inv[i].count /\ inv[i].count <= MaxResends
         /\ NewTake(i, op).op = "accept" => (NewTake(i, op).adds <=> Adds(i))
         /\ UNCHANGED <<flow, inv, joined>>
<1>1. Begin(r, NewTake(i, op)) /\ serving[r] = Free /\ inv[i].status = "pending"
      /\ UNCHANGED <<flow, inv, joined>>
  BY DEF Taking, Take, NewTake, Occupied, Waiting
<1>2. i \in 1..MaxInvitations /\ inv[i].count \in 1..(MaxResends + 1)
  <2>1. DOMAIN inv = 1..Len(inv) /\ Len(inv) \in 0..MaxInvitations
    BY RowFacts
  <2>2. QED
    BY <2>1, RowFacts, Bounds
<1>3. NewTake(i, op).op = IF inv[i].age = "new" THEN op ELSE "expire"
  BY DEF NewTake
<1>4. NewTake(i, op).row = i /\ NewTake(i, op).count = IF op = "resend" THEN inv[i].count ELSE 0
  BY DEF NewTake
<1>5. NewTake(i, op).op \in Answers /\ NewTake(i, op).count \in 0..(MaxResends + 1)
  BY <1>2, <1>3, <1>4, Bounds DEF Answers
<1>adds. NewTake(i, op).adds \in BOOLEAN /\ (NewTake(i, op).adds <=> op = "accept" /\ Adds(i))
  BY DEF NewTake
<1>6. NewTake(i, op) \in [op : Answers, row : 1..MaxInvitations, count : 0..(MaxResends + 1),
                          adds : BOOLEAN]
  BY <1>2, <1>5, <1>adds DEF NewTake
<1>7. NewTake(i, op) \in Runs
  BY <1>6 DEF Runs
<1>8. NewTake(i, op).op \in {"accept", "resend"} => inv[i].age = "new" /\ op = NewTake(i, op).op
  BY <1>3
<1>9. NewTake(i, op).op = "resend" =>
        NewTake(i, op).count = inv[i].count /\ inv[i].count <= MaxResends
  BY <1>4, <1>8 DEF Taking, Resendable
<1>10. QED
  BY <1>1, <1>4, <1>5, <1>7, <1>8, <1>9, <1>adds

\* A creation that has passed its checks, or ends.
LEMMA CheckFacts ==
  ASSUME InviteTypeOK, NEW r \in Requests, Check(r)
  PROVE  /\ serving' \in [Requests -> Runs] /\ Creating(r, "check")
         /\ \A s \in Requests \ {r} : serving'[s] = serving[s]
         /\ serving'[r] = Free \/ (Acceptable /\ serving'[r] = [op |-> "create", at |-> "write"])
         /\ UNCHANGED <<flow, inv, joined, mails, raced>>
<1>1. Creating(r, "check") /\ UNCHANGED <<flow, inv, joined, mails, raced>>
  BY DEF Check
<1>2. CASE ~Acceptable
  <2>1. End(r)
    BY <1>2 DEF Check
  <2>2. QED
    BY <1>1, <2>1, EndFacts
<1>3. CASE Acceptable
  <2>1. serving' = [serving EXCEPT ![r].at = "write"]
    BY <1>3 DEF Check
  <2>2. serving[r] \in [op : {"create"}, at : {"check", "write"}]
    BY <1>1, RunFacts DEF Creating
  <2>3. [serving[r] EXCEPT !.at = "write"] = [op |-> "create", at |-> "write"]
    BY <2>2
  <2>4. [op |-> "create", at |-> "write"] \in Runs
    BY DEF Runs
  <2>5. QED
    BY <1>1, <1>3, <2>1, <2>3, <2>4 DEF InviteTypeOK
<1>4. QED
  BY <1>2, <1>3

\* The row that a creation adds.
NewRow == [status |-> "pending", age |-> "new", count |-> 1, invitee |-> TRUE]

LEMMA InsertFacts ==
  ASSUME InviteTypeOK, NEW r \in Requests, Insert(r)
  PROVE  /\ Creating(r, "write") /\ End(r)
         /\ inv' \in Seq(Rows) /\ Len(inv') = Len(inv) + 1 /\ Len(inv') <= MaxInvitations
         /\ DOMAIN inv' = DOMAIN inv \union {Len(inv')} /\ Len(inv') \notin DOMAIN inv
         /\ \A i \in DOMAIN inv : inv'[i] = inv[i] /\ mails'[i] = mails[i]
         /\ inv'[Len(inv')] = NewRow
         /\ mails' \in Seq(1..(MaxResends + 2)) /\ Len(mails') = Len(inv')
         /\ mails'[Len(inv')] = 1
         /\ UNCHANGED <<flow, joined, raced>>
<1>1. NewRow \in Rows /\ 1 \in 1..(MaxResends + 2)
  BY Bounds DEF Rows, NewRow
<1>2. inv' = Append(inv, NewRow) /\ mails' = Append(mails, 1) /\ Len(inv) < MaxInvitations
  BY DEF Insert, NewRow
<1>3. /\ inv' \in Seq(Rows) /\ Len(inv') = Len(inv) + 1
      /\ \A i \in 1..Len(inv) : inv'[i] = inv[i]
      /\ inv'[Len(inv) + 1] = NewRow
  BY <1>1, <1>2, AppendProperties DEF InviteTypeOK
<1>4. /\ mails' \in Seq(1..(MaxResends + 2)) /\ Len(mails') = Len(mails) + 1
      /\ \A i \in 1..Len(mails) : mails'[i] = mails[i]
      /\ mails'[Len(mails) + 1] = 1
  BY <1>1, <1>2, AppendProperties DEF InviteTypeOK
<1>5. /\ DOMAIN inv = 1..Len(inv) /\ Len(inv) \in Nat /\ Len(mails) = Len(inv)
      /\ DOMAIN inv' = 1..Len(inv')
  BY <1>3, RowFacts, LenProperties DEF InviteTypeOK
<1>6. QED
  BY <1>2, <1>3, <1>4, <1>5, Bounds DEF Insert

\* A row that changes in one field.
LEMMA SetFacts ==
  ASSUME InviteTypeOK, NEW i \in DOMAIN inv, NEW rec \in Rows, inv' = [inv EXCEPT ![i] = rec]
  PROVE  /\ inv' \in Seq(Rows) /\ Len(inv') = Len(inv) /\ DOMAIN inv' = DOMAIN inv
         /\ inv'[i] = rec /\ \A j \in DOMAIN inv \ {i} : inv'[j] = inv[j]
BY RowFacts, ExceptSeq DEF InviteTypeOK

\* And a count of mails.
LEMMA MailFacts ==
  ASSUME InviteTypeOK, NEW i \in DOMAIN inv, NEW n \in 1..(MaxResends + 2),
         mails' = [mails EXCEPT ![i] = n]
  PROVE  /\ mails' \in Seq(1..(MaxResends + 2)) /\ Len(mails') = Len(mails)
         /\ mails'[i] = n /\ \A j \in DOMAIN inv \ {i} : mails'[j] = mails[j]
BY RowFacts, ExceptSeq, LenProperties DEF InviteTypeOK

LEMMA AnsweredFacts ==
  ASSUME InviteTypeInv, NEW r \in Requests, NEW status \in Statuses, Answered(r, status)
  PROVE  /\ End(r) /\ serving[r].row \in DOMAIN inv /\ On(r, serving[r].row)
         /\ inv' \in Seq(Rows) /\ Len(inv') = Len(inv) /\ DOMAIN inv' = DOMAIN inv
         /\ \A i \in DOMAIN inv : /\ inv'[i].age = inv[i].age /\ inv'[i].count = inv[i].count
                                  /\ inv'[i].invitee = inv[i].invitee
                                  /\ i # serving[r].row => inv'[i].status = inv[i].status
         /\ inv'[serving[r].row].status = status /\ status # "pending"
         /\ UNCHANGED <<flow, mails, raced>>
<1> DEFINE rec == [inv[serving[r].row] EXCEPT !.status = status]
<1>1. InviteTypeOK /\ serving[r].row \in DOMAIN inv /\ On(r, serving[r].row)
  BY DEF InviteTypeInv, RowsExist, Answered, On
<1>2. inv[serving[r].row] \in Rows
  BY <1>1, RowFacts
<1>3. rec \in Rows /\ rec.status = status /\ rec.age = inv[serving[r].row].age
      /\ rec.count = inv[serving[r].row].count /\ rec.invitee = inv[serving[r].row].invitee
  BY <1>2 DEF Rows, Statuses
<1>4. inv' = [inv EXCEPT ![serving[r].row] = rec]
  BY DEF Answered, Becomes
<1> HIDE DEF rec
<1>5. /\ inv' \in Seq(Rows) /\ Len(inv') = Len(inv) /\ DOMAIN inv' = DOMAIN inv
      /\ inv'[serving[r].row] = rec /\ \A j \in DOMAIN inv \ {serving[r].row} : inv'[j] = inv[j]
  BY <1>1, <1>3, <1>4, SetFacts
<1>6. QED
  BY <1>1, <1>3, <1>5 DEF Answered, Becomes

LEMMA AnsweredJoins ==
  ASSUME NEW r, NEW status, Answered(r, status)
  PROVE  /\ status = "accepted" => /\ serving[r].op = "accept"
                                   /\ joined' <=> joined \/ serving[r].adds
         /\ status # "accepted" => (joined' <=> joined)
BY DEF Answered

LEMMA ResentFacts ==
  ASSUME InviteTypeInv, NEW r \in Requests, Resent(r)
  PROVE  /\ End(r) /\ serving[r].row \in DOMAIN inv /\ On(r, serving[r].row) /\ serving[r].op = "resend"
         /\ serving[r].count \in Nat /\ serving[r].count <= MaxResends
         /\ inv' \in Seq(Rows) /\ Len(inv') = Len(inv) /\ DOMAIN inv' = DOMAIN inv
         /\ \A i \in DOMAIN inv : /\ inv'[i].age = inv[i].age /\ inv'[i].status = inv[i].status
                                  /\ inv'[i].invitee = inv[i].invitee
                                  /\ i # serving[r].row => inv'[i].count = inv[i].count
         /\ inv'[serving[r].row].count = serving[r].count + 1
         /\ mails' = [mails EXCEPT ![serving[r].row] = IF serving[r].row \in raced THEN 1 ELSE @ + 1]
         /\ UNCHANGED <<flow, joined, raced>>
<1> DEFINE rec == [inv[serving[r].row] EXCEPT !.count = serving[r].count + 1]
<1>1. InviteTypeOK /\ serving[r].op = "resend" /\ serving[r].op \in Answers
  BY DEF InviteTypeInv, Resent, Doing, Answers
<1>2. serving[r].row \in DOMAIN inv /\ On(r, serving[r].row) /\ serving[r].count <= MaxResends
  BY <1>1 DEF InviteTypeInv, RowsExist, On
<1>3. inv[serving[r].row] \in Rows
  BY <1>1, <1>2, RowFacts
<1>4. serving[r].count \in Nat
  BY <1>1, RunFacts, Bounds
<1>5. serving[r].count + 1 \in 1..(MaxResends + 1)
  BY <1>2, <1>4, Bounds
<1>6. rec \in Rows /\ rec.count = serving[r].count + 1 /\ rec.age = inv[serving[r].row].age
      /\ rec.status = inv[serving[r].row].status /\ rec.invitee = inv[serving[r].row].invitee
  BY <1>3, <1>5 DEF Rows
<1>7. inv' = [inv EXCEPT ![serving[r].row] = rec]
  BY DEF Resent
<1> HIDE DEF rec
<1>8. /\ inv' \in Seq(Rows) /\ Len(inv') = Len(inv) /\ DOMAIN inv' = DOMAIN inv
      /\ inv'[serving[r].row] = rec /\ \A j \in DOMAIN inv \ {serving[r].row} : inv'[j] = inv[j]
  BY <1>1, <1>2, <1>6, <1>7, SetFacts
<1>9. QED
  BY <1>1, <1>2, <1>4, <1>6, <1>8 DEF Resent, Mailed

LEMMA GrowingFacts ==
  ASSUME InviteTypeOK, NEW i \in DOMAIN inv, Growing(i)
  PROVE  /\ inv' \in Seq(Rows) /\ Len(inv') = Len(inv) /\ DOMAIN inv' = DOMAIN inv
         /\ \A j \in DOMAIN inv :
              /\ inv'[j].count = inv[j].count /\ inv'[j].status = inv[j].status
              /\ inv'[j].invitee = inv[j].invitee
              /\ inv'[j].age = "new" => inv[j].age = "new"
              /\ inv[j].age = "old" => inv'[j].age = "old"
         /\ mails' = mails \/ mails' = [mails EXCEPT ![i] = 1]
         /\ UNCHANGED <<flow, joined, serving, raced>>
<1>1. PICK to \in {"over", "old"} : Grow(i, inv[i].age, to) /\ inv[i].age # "old"
  BY DEF Growing, Grow
<1> DEFINE rec == [inv[i] EXCEPT !.age = to]
<1>2. rec \in Rows /\ rec.age = to /\ rec.count = inv[i].count /\ rec.status = inv[i].status
      /\ rec.invitee = inv[i].invitee
  BY RowFacts DEF Rows
<1>3. inv' = [inv EXCEPT ![i] = rec]
  BY <1>1 DEF Grow
<1> HIDE DEF rec
<1>4. /\ inv' \in Seq(Rows) /\ Len(inv') = Len(inv) /\ DOMAIN inv' = DOMAIN inv
      /\ inv'[i] = rec /\ \A j \in DOMAIN inv \ {i} : inv'[j] = inv[j]
  BY <1>2, <1>3, SetFacts
<1>5. QED
  BY <1>1, <1>2, <1>4 DEF Grow

\* A user who is deleted leaves the rows as they are, but for the user they name.
LEMMA DeleteUserFacts ==
  ASSUME InviteTypeOK, DeleteUser
  PROVE  /\ inv' \in Seq(Rows) /\ Len(inv') = Len(inv) /\ DOMAIN inv' = DOMAIN inv
         /\ \A i \in DOMAIN inv :
              /\ inv'[i].status = inv[i].status /\ inv'[i].age = inv[i].age
              /\ inv'[i].count = inv[i].count /\ ~inv'[i].invitee
         /\ ~joined' /\ joined' \in BOOLEAN /\ UNCHANGED <<flow, serving, mails, raced>>
<1>1. /\ inv' = [i \in DOMAIN inv |-> [inv[i] EXCEPT !.invitee = FALSE]]
      /\ joined' = FALSE /\ UNCHANGED <<flow, serving, mails, raced>>
  BY DEF DeleteUser
<1>2. DOMAIN inv = 1..Len(inv) /\ Len(inv) \in Nat /\ \A i \in DOMAIN inv : inv[i] \in Rows
  BY RowFacts, Bounds
<1>3. \A i \in DOMAIN inv :
        /\ inv'[i].status = inv[i].status /\ inv'[i].age = inv[i].age
        /\ inv'[i].count = inv[i].count /\ inv'[i].invitee = FALSE /\ inv'[i] \in Rows
  BY <1>1, <1>2 DEF Rows
<1>4. inv' \in [1..Len(inv) -> Rows]
  BY <1>1, <1>2, <1>3
<1>5. inv' \in Seq(Rows)
  BY <1>2, <1>4, SeqDef
<1>6. Len(inv') = Len(inv)
  <2>1. DOMAIN inv' = 1..Len(inv) /\ DOMAIN inv' = 1..Len(inv') /\ Len(inv') \in Nat
    BY <1>4, <1>5, LenProperties
  <2>2. QED
    BY <1>2, <2>1
<1>7. QED
  BY <1>1, <1>2, <1>3, <1>4, <1>5, <1>6

-----------------------------------------------------------------------------
(* Types.                                                                  *)

LEMMA InviteTypeStep ==
  InviteTypeInv /\ StillCounted /\ MailsCounted /\ [InviteNext]_inviteVars => InviteTypeInv'
<1> SUFFICES ASSUME InviteTypeInv, StillCounted, MailsCounted, [InviteNext]_inviteVars PROVE InviteTypeInv'
  OBVIOUS
<1>types. InviteTypeOK
  BY DEF InviteTypeInv
\* What is left to show when a request ends.
<1>end. ASSUME NEW r \in Requests, End(r), DOMAIN inv \subseteq DOMAIN inv'
        PROVE  serving' \in [Requests -> Runs] /\ RowsExist'
  BY <1>types, <1>end, EndFacts DEF InviteTypeInv, RowsExist, Free, Answers
\* And when it begins.
<1>begin. ASSUME NEW r \in Requests, NEW q \in Runs, Begin(r, q), UNCHANGED <<flow, inv, joined>>,
                 q.op \in Answers => /\ q.row \in DOMAIN inv
                                     /\ q.op = "resend" => q.count <= MaxResends
          PROVE  InviteTypeInv'
  <2>1. InviteTypeOK'
    BY <1>types, <1>begin, BeginFacts DEF InviteTypeOK
  <2>2. RowsExist'
    BY <1>types, <1>begin, BeginFacts DEF InviteTypeInv, RowsExist
  <2>3. QED
    BY <2>1, <2>2 DEF InviteTypeInv
<1>1. ASSUME NEW r \in Requests, Create(r)
      PROVE  InviteTypeInv'
  <2>1. NewCreate \in Runs /\ Begin(r, NewCreate) /\ UNCHANGED <<flow, inv, joined>>
    BY <1>types, <1>1, CreateFacts
  <2>2. NewCreate.op \notin Answers
    BY DEF NewCreate, Answers
  <2>3. QED
    BY <1>begin, <2>1, <2>2
<1>2. ASSUME NEW r \in Requests, NEW i \in DOMAIN inv, NEW op \in Answers, Taking(r, i, op)
      PROVE  InviteTypeInv'
  <2> DEFINE q == NewTake(i, op)
  <2>1. /\ q \in Runs /\ Begin(r, q) /\ UNCHANGED <<flow, inv, joined>>
        /\ q.row = i
        /\ q.op = "resend" => q.count = inv[i].count /\ inv[i].count <= MaxResends
    BY <1>types, <1>2, TakingFacts
  <2> HIDE DEF q
  <2>2. QED
    BY <1>begin, <2>1
<1>3. ASSUME NEW r \in Requests, Check(r)
      PROVE  InviteTypeInv'
  <2>1. RowsExist'
    BY <1>types, <1>3, CheckFacts DEF InviteTypeInv, RowsExist, Free, Answers
  <2>2. InviteTypeOK'
    BY <1>types, <1>3, CheckFacts DEF InviteTypeOK
  <2>3. QED
    BY <2>1, <2>2 DEF InviteTypeInv
<1>4. ASSUME NEW r \in Requests, Insert(r)
      PROVE  InviteTypeInv'
  <2>1. serving' \in [Requests -> Runs] /\ RowsExist'
    BY <1>types, <1>4, <1>end, InsertFacts
  <2>2. QED
    BY <1>types, <1>4, <2>1, InsertFacts DEF InviteTypeInv, InviteTypeOK
<1>5. ASSUME NEW r \in Requests, NEW status \in Statuses, Answered(r, status)
      PROVE  InviteTypeInv'
  <2>1. serving' \in [Requests -> Runs] /\ RowsExist'
    BY <1>5, <1>end, AnsweredFacts
  <2>2. /\ inv' \in Seq(Rows) /\ Len(inv') = Len(inv) /\ UNCHANGED <<flow, mails, raced>>
    BY <1>5, AnsweredFacts
  <2>3. joined' \in BOOLEAN
    BY <1>types, <1>5 DEF InviteTypeOK, Answered
  <2>4. QED
    BY <1>types, <2>1, <2>2, <2>3 DEF InviteTypeInv, InviteTypeOK
<1>6. ASSUME NEW r \in Requests, Resent(r)
      PROVE  InviteTypeInv'
  <2> DEFINE i == serving[r].row
             n == IF i \in raced THEN 1 ELSE mails[i] + 1
  <2>1. serving' \in [Requests -> Runs] /\ RowsExist'
    BY <1>6, <1>end, ResentFacts
  <2>2. i \in DOMAIN inv /\ mails' = [mails EXCEPT ![i] = n]
    BY <1>6, ResentFacts
  <2>3. i \notin raced => mails[i] + 1 <= MaxResends + 2
    <3>1. i \notin raced => mails[i] <= inv[i].count /\ inv[i].count = serving[r].count
      BY <1>6, ResentFacts DEF StillCounted, MailsCounted
    <3>2. serving[r].count \in Nat /\ serving[r].count <= MaxResends /\ mails[i] \in Nat
      BY <1>types, <1>6, ResentFacts, RowFacts, Bounds
    <3>3. QED
      BY <3>1, <3>2, Bounds
  <2>4. n \in 1..(MaxResends + 2)
    BY <1>types, <2>2, <2>3, RowFacts, Bounds
  <2> HIDE DEF n, i
  <2>5. mails' \in Seq(1..(MaxResends + 2)) /\ Len(mails') = Len(mails)
    BY <1>types, <2>2, <2>4, MailFacts
  <2>6. QED
    BY <1>types, <1>6, <2>1, <2>5, ResentFacts DEF InviteTypeInv, InviteTypeOK
<1>7. ASSUME NEW r \in Requests, Fail(r)
      PROVE  InviteTypeInv'
  <2>1. serving' \in [Requests -> Runs] /\ RowsExist'
    BY <1>7, <1>end DEF Fail
  <2>2. QED
    BY <1>types, <1>7, <2>1 DEF Fail, InviteTypeInv, InviteTypeOK
<1>8. ASSUME NEW r \in Requests, FailMailed(r)
      PROVE  InviteTypeInv'
  <2>1. serving' \in [Requests -> Runs] /\ RowsExist'
    BY <1>8, <1>end DEF FailMailed
  <2>2. serving[r].row \in DOMAIN inv /\ 1 \in 1..(MaxResends + 2)
    BY <1>8, Bounds DEF InviteTypeInv, RowsExist, FailMailed, Doing, Answers
  <2>3. mails' = [mails EXCEPT ![serving[r].row] = 1]
    BY <1>8 DEF FailMailed
  <2>4. mails' \in Seq(1..(MaxResends + 2)) /\ Len(mails') = Len(mails)
    BY <1>types, <2>2, <2>3, MailFacts
  <2>5. raced' \subseteq 0..MaxInvitations
    <3>1. serving[r].row \in 0..MaxInvitations
      BY <1>types, <2>2, RowFacts, Bounds
    <3>2. QED
      BY <1>types, <1>8, <3>1 DEF FailMailed, InviteTypeOK
  <2>6. QED
    BY <1>types, <1>8, <2>1, <2>4, <2>5 DEF FailMailed, InviteTypeInv, InviteTypeOK
<1>9. ASSUME NEW i \in DOMAIN inv, Growing(i)
      PROVE  InviteTypeInv'
  <2>1. mails' \in Seq(1..(MaxResends + 2)) /\ Len(mails') = Len(mails)
    <3>1. 1 \in 1..(MaxResends + 2)
      BY Bounds
    <3>2. CASE mails' = mails
      BY <1>types, <3>2 DEF InviteTypeOK
    <3>3. CASE mails' = [mails EXCEPT ![i] = 1]
      BY <1>types, <3>1, <3>3, MailFacts
    <3>4. QED
      BY <1>types, <1>9, <3>2, <3>3, GrowingFacts
  <2>2. QED
    BY <1>types, <1>9, <2>1, GrowingFacts DEF InviteTypeInv, InviteTypeOK, RowsExist
<1>10. CASE JoinElsewhere
  BY <1>10 DEF JoinElsewhere, InviteTypeInv, InviteTypeOK, RowsExist
<1>11. CASE DeleteUser
  BY <1>types, <1>11, DeleteUserFacts DEF InviteTypeInv, InviteTypeOK, RowsExist
<1>12. CASE UNCHANGED inviteVars
  BY <1>12 DEF inviteVars, InviteTypeInv, InviteTypeOK, RowsExist
<1>13. QED
  BY <1>1, <1>2, <1>3, <1>4, <1>5, <1>6, <1>7, <1>8, <1>9, <1>10, <1>11, <1>12, StepCases

-----------------------------------------------------------------------------
(* Who works on what.                                                      *)

\* A request that ends works on nothing, the others on what they did.
LEMMA Idles ==
  ASSUME InviteTypeOK, NEW r \in Requests, End(r)
  PROVE  /\ Things(serving'[r]) = {}
         /\ \A s \in Requests : Things(serving'[s]) \subseteq Things(serving[s])
         /\ \A s \in Requests : serving'[s].op # "idle" => s # r /\ serving'[s] = serving[s]
<1>1. Things(Free) = {} /\ Free.op = "idle"
  BY DEF Things, Free, Answers
<1>2. QED
  BY <1>1, EndFacts

LEMMA AloneStep == InviteTypeInv /\ Alone /\ [InviteNext]_inviteVars => Alone'
<1> SUFFICES ASSUME InviteTypeInv, Alone, [InviteNext]_inviteVars PROVE Alone'
  OBVIOUS
<1>types. InviteTypeOK
  BY DEF InviteTypeInv
<1>less. ASSUME \A s \in Requests : Things(serving'[s]) \subseteq Things(serving[s]), raced \subseteq raced'
         PROVE  Alone'
  BY <1>less DEF Alone
<1>end. ASSUME NEW r \in Requests, End(r), raced \subseteq raced'
        PROVE  Alone'
  BY <1>types, <1>end, <1>less, Idles
<1>begin. ASSUME NEW r \in Requests, NEW q \in Runs, Begin(r, q)
          PROVE  Alone'
  BY <1>types, <1>begin, BeginFacts DEF Alone
<1>1. ASSUME NEW r \in Requests, Create(r)
      PROVE  Alone'
  BY <1>types, <1>1, <1>begin, CreateFacts
<1>2. ASSUME NEW r \in Requests, NEW i \in DOMAIN inv, NEW op \in Answers, Taking(r, i, op)
      PROVE  Alone'
  BY <1>types, <1>2, <1>begin, TakingFacts
<1>3. ASSUME NEW r \in Requests, Check(r)
      PROVE  Alone'
  <2>1. Things(serving[r]) = {0}
    <3>1. Creating(r, "check")
      BY <1>types, <1>3, CheckFacts
    <3>2. QED
      BY <3>1 DEF Creating, Things, Answers
  <2>2. Things(Free) = {} /\ Things([op |-> "create", at |-> "write"]) = {0}
    BY DEF Things, Free, Answers
  <2>3. \A s \in Requests : Things(serving'[s]) \subseteq Things(serving[s])
    BY <1>types, <1>3, <2>1, <2>2, CheckFacts
  <2>4. QED
    BY <1>types, <1>3, <1>less, <2>3, CheckFacts
<1>4. ASSUME NEW r \in Requests, Insert(r)
      PROVE  Alone'
  BY <1>types, <1>4, <1>end, InsertFacts
<1>5. ASSUME NEW r \in Requests, NEW status \in Statuses, Answered(r, status)
      PROVE  Alone'
  BY <1>5, <1>end, AnsweredFacts
<1>6. ASSUME NEW r \in Requests, Resent(r)
      PROVE  Alone'
  BY <1>6, <1>end, ResentFacts
<1>7. ASSUME NEW r \in Requests, Fail(r) \/ FailMailed(r)
      PROVE  Alone'
  <2>1. End(r) /\ raced \subseteq raced'
    BY <1>7 DEF Fail, FailMailed
  <2>2. QED
    BY <1>end, <2>1
<1>8. ASSUME NEW i \in DOMAIN inv, Growing(i)
      PROVE  Alone'
  BY <1>types, <1>8, <1>less, GrowingFacts
<1>9. CASE JoinElsewhere
  BY <1>9, <1>less DEF JoinElsewhere
<1>10. CASE UNCHANGED inviteVars
  BY <1>10, <1>less DEF inviteVars
<1>11. CASE DeleteUser
  BY <1>11, <1>less DEF DeleteUser
<1>12. QED
  BY <1>1, <1>2, <1>3, <1>4, <1>5, <1>6, <1>7, <1>8, <1>9, <1>10, <1>11, StepCases

\* Two requests on one row: it is in raced.
LEMMA NotAlone ==
  ASSUME InviteTypeInv, Alone, NEW r \in Requests, NEW s \in Requests, r # s,
         NEW i \in DOMAIN inv, On(r, i), On(s, i)
  PROVE  i \in raced
<1>1. i \in Things(serving[r]) /\ i \in Things(serving[s])
  BY ThingsFacts DEF InviteTypeInv
<1>2. QED
  BY <1>1 DEF Alone

\* Two requests of which each creates a row or accepts one.
LEMMA NotAloneCreating ==
  ASSUME InviteTypeInv, Alone, NEW r \in Requests, NEW s \in Requests, r # s,
         serving[r].op \in {"create", "accept"}, serving[s].op \in {"create", "accept"}
  PROVE  0 \in raced
<1>1. 0 \in Things(serving[r]) /\ 0 \in Things(serving[s])
  BY ThingsFacts DEF InviteTypeInv
<1>2. QED
  BY <1>1 DEF Alone

-----------------------------------------------------------------------------
(* What a request has read is still so.                                    *)

LEMMA ReadStep == RacesInv /\ [InviteNext]_inviteVars => StillPending' /\ StillCounted'
<1> SUFFICES ASSUME RacesInv, [InviteNext]_inviteVars PROVE StillPending' /\ StillCounted'
  OBVIOUS
<1>types. InviteTypeInv /\ InviteTypeOK /\ Alone
  BY DEF RacesInv, InviteTypeInv
\* Nothing is written and no request begins.
<1>same. ASSUME raced \subseteq raced', DOMAIN inv' = DOMAIN inv,
                \A i \in DOMAIN inv : inv'[i].status = inv[i].status /\ inv'[i].count = inv[i].count,
                \A s \in Requests : serving'[s] = serving[s] \/ serving'[s].op \notin Answers
         PROVE  StillPending' /\ StillCounted'
  BY <1>same DEF RacesInv, StillPending, StillCounted, On
\* A request begins on a row that is pending.
<1>begin. ASSUME NEW r \in Requests, NEW q \in Runs, Begin(r, q), inv' = inv,
                 q.op \in Answers => inv[q.row].status = "pending",
                 q.op = "resend" => q.count = inv[q.row].count
          PROVE  StillPending' /\ StillCounted'
  <2>1. /\ serving'[r] = q /\ \A s \in Requests \ {r} : serving'[s] = serving[s]
        /\ raced \subseteq raced'
    BY <1>types, <1>begin, BeginFacts
  <2>2. QED
    BY <1>begin, <2>1 DEF RacesInv, StillPending, StillCounted, On, Answers
\* A request ends that writes to its row only.
<1>end. ASSUME NEW r \in Requests, End(r), serving[r].row \in DOMAIN inv, On(r, serving[r].row),
               raced \subseteq raced', DOMAIN inv' = DOMAIN inv,
               \A i \in DOMAIN inv \ {serving[r].row} :
                 inv'[i].status = inv[i].status /\ inv'[i].count = inv[i].count
        PROVE  StillPending' /\ StillCounted'
  <2>1. \A s \in Requests : serving'[s].op # "idle" => s # r /\ serving'[s] = serving[s]
    BY <1>types, <1>end, Idles
  <2>2. ASSUME NEW s \in Requests, NEW i \in DOMAIN inv \ raced, On(s, i)'
        PROVE  On(s, i) /\ i # serving[r].row
    <3>1. s # r /\ On(s, i)
      BY <2>1, <2>2 DEF On, Answers
    <3>2. QED
      BY <1>types, <1>end, <2>2, <3>1, NotAlone
  <2>3. ASSUME NEW s \in Requests, NEW i \in (DOMAIN inv \ raced)', On(s, i)'
        PROVE  /\ inv'[i].status = "pending"
               /\ serving'[s].op = "resend" => serving'[s].count = inv'[i].count
    <3>1. i \in DOMAIN inv \ raced /\ On(s, i) /\ i # serving[r].row
      BY <1>end, <2>2, <2>3
    <3>2. serving'[s] = serving[s]
      BY <2>1, <2>3 DEF On, Answers
    <3>3. inv[i].status = "pending" /\ (serving[s].op = "resend" => serving[s].count = inv[i].count)
      BY <3>1 DEF RacesInv, StillPending, StillCounted
    <3>4. QED
      BY <1>end, <3>1, <3>2, <3>3
  <2>4. QED
    BY <2>3 DEF StillPending, StillCounted
<1>idle. Free.op \notin Answers
  BY DEF Free, Answers
<1>1. ASSUME NEW r \in Requests, Create(r)
      PROVE  StillPending' /\ StillCounted'
  <2>1. NewCreate \in Runs /\ Begin(r, NewCreate) /\ inv' = inv
    BY <1>types, <1>1, CreateFacts
  <2>2. NewCreate.op \notin Answers /\ NewCreate.op # "resend"
    BY DEF NewCreate, Answers
  <2>3. QED
    BY <1>begin, <2>1, <2>2
<1>2. ASSUME NEW r \in Requests, NEW i \in DOMAIN inv, NEW op \in Answers, Taking(r, i, op)
      PROVE  StillPending' /\ StillCounted'
  <2> DEFINE q == NewTake(i, op)
  <2>1. /\ q \in Runs /\ Begin(r, q) /\ inv' = inv
        /\ q.row = i /\ inv[i].status = "pending"
        /\ q.op = "resend" => q.count = inv[i].count
    BY <1>types, <1>2, TakingFacts
  <2> HIDE DEF q
  <2>2. QED
    BY <1>begin, <2>1
<1>3. ASSUME NEW r \in Requests, Check(r)
      PROVE  StillPending' /\ StillCounted'
  <2>1. [op |-> "create", at |-> "write"].op \notin Answers
    BY DEF Answers
  <2>2. \A s \in Requests : serving'[s] = serving[s] \/ serving'[s].op \notin Answers
    BY <1>types, <1>3, <1>idle, <2>1, CheckFacts
  <2>3. QED
    BY <1>types, <1>3, <1>same, <2>2, CheckFacts
<1>4. ASSUME NEW r \in Requests, Insert(r)
      PROVE  StillPending' /\ StillCounted'
  <2>1. \A s \in Requests : serving'[s].op # "idle" => serving'[s] = serving[s]
    BY <1>types, <1>4, InsertFacts, Idles
  <2>2. ASSUME NEW s \in Requests, NEW i \in DOMAIN inv', On(s, i)'
        PROVE  serving'[s] = serving[s] /\ On(s, i) /\ i \in DOMAIN inv /\ inv'[i] = inv[i]
    <3>1. serving'[s] = serving[s] /\ On(s, i)
      BY <2>1, <2>2 DEF On, Answers
    <3>2. i \in DOMAIN inv
      BY <1>types, <3>1 DEF InviteTypeInv, RowsExist, On
    <3>3. QED
      BY <1>types, <1>4, <3>1, <3>2, InsertFacts
  <2>3. raced' = raced
    BY <1>4 DEF Insert
  <2>4. QED
    BY <2>2, <2>3 DEF RacesInv, StillPending, StillCounted
<1>5. ASSUME NEW r \in Requests, NEW status \in Statuses, Answered(r, status)
      PROVE  StillPending' /\ StillCounted'
  BY <1>types, <1>5, <1>end, AnsweredFacts
<1>6. ASSUME NEW r \in Requests, Resent(r)
      PROVE  StillPending' /\ StillCounted'
  BY <1>types, <1>6, <1>end, ResentFacts
<1>7. ASSUME NEW r \in Requests, Fail(r) \/ FailMailed(r)
      PROVE  StillPending' /\ StillCounted'
  <2>1. End(r) /\ raced \subseteq raced' /\ inv' = inv
    BY <1>7 DEF Fail, FailMailed
  <2>2. \A s \in Requests : serving'[s] = serving[s] \/ serving'[s].op \notin Answers
    BY <1>types, <1>idle, <2>1, EndFacts
  <2>3. QED
    BY <1>same, <2>1, <2>2
<1>8. ASSUME NEW i \in DOMAIN inv, Growing(i)
      PROVE  StillPending' /\ StillCounted'
  BY <1>types, <1>8, <1>same, GrowingFacts
<1>9. CASE JoinElsewhere
  BY <1>9, <1>same DEF JoinElsewhere
<1>10. CASE UNCHANGED inviteVars
  BY <1>10, <1>same DEF inviteVars
<1>11. CASE DeleteUser
  BY <1>types, <1>11, <1>same, DeleteUserFacts
<1>12. QED
  BY <1>1, <1>2, <1>3, <1>4, <1>5, <1>6, <1>7, <1>8, <1>9, <1>10, <1>11, StepCases

-----------------------------------------------------------------------------
(* Mails.                                                                  *)

LEMMA MailsStep == RacesInv /\ MailsCounted /\ [InviteNext]_inviteVars => MailsCounted'
<1> SUFFICES ASSUME RacesInv, MailsCounted, [InviteNext]_inviteVars PROVE MailsCounted'
  OBVIOUS
<1>types. InviteTypeInv /\ InviteTypeOK
  BY DEF RacesInv, InviteTypeInv
<1>rows. /\ DOMAIN mails = DOMAIN inv
         /\ \A i \in DOMAIN inv : inv[i].count \in Nat /\ inv[i].count >= 1 /\ mails[i] \in Nat
  BY <1>types, RowFacts, Bounds
<1>same. ASSUME raced' = raced, mails' = mails, DOMAIN inv' = DOMAIN inv,
                \A i \in DOMAIN inv : inv'[i].count = inv[i].count
         PROVE  MailsCounted'
  BY <1>same DEF MailsCounted
<1>begin. ASSUME NEW r \in Requests, NEW q \in Runs, Begin(r, q), inv' = inv
          PROVE  MailsCounted'
  <2>1. /\ raced \subseteq raced'
        /\ \A i \in DOMAIN inv : mails'[i] = IF i \in raced' THEN 1 ELSE mails[i]
    BY <1>types, <1>begin, BeginFacts
  <2>2. QED
    BY <1>begin, <2>1 DEF MailsCounted
<1>1. ASSUME NEW r \in Requests, Create(r)
      PROVE  MailsCounted'
  BY <1>types, <1>1, <1>begin, CreateFacts
<1>2. ASSUME NEW r \in Requests, NEW i \in DOMAIN inv, NEW op \in Answers, Taking(r, i, op)
      PROVE  MailsCounted'
  BY <1>types, <1>2, <1>begin, TakingFacts
<1>3. ASSUME NEW r \in Requests, Check(r)
      PROVE  MailsCounted'
  BY <1>types, <1>3, <1>same, CheckFacts
<1>4. ASSUME NEW r \in Requests, Insert(r)
      PROVE  MailsCounted'
  <2> DEFINE n == Len(inv')
  <2>1. /\ DOMAIN inv' = DOMAIN inv \union {n} /\ raced' = raced
        /\ \A i \in DOMAIN inv : inv'[i] = inv[i] /\ mails'[i] = mails[i]
        /\ inv'[n] = NewRow /\ mails'[n] = 1
    BY <1>types, <1>4, InsertFacts
  <2>2. inv'[n].count = 1
    BY <2>1 DEF NewRow
  <2> HIDE DEF n
  <2>3. ASSUME NEW i \in DOMAIN inv'
        PROVE  IF i \in raced' THEN mails'[i] = 1 ELSE mails'[i] <= inv'[i].count
    <3>1. CASE i = n
      BY <2>1, <2>2, <3>1
    <3>2. CASE i # n
      BY <2>1, <2>3, <3>2 DEF MailsCounted
    <3>3. QED
      BY <3>1, <3>2
  <2>4. QED
    BY <2>3 DEF MailsCounted
<1>5. ASSUME NEW r \in Requests, NEW status \in Statuses, Answered(r, status)
      PROVE  MailsCounted'
  BY <1>types, <1>5, <1>same, AnsweredFacts
<1>6. ASSUME NEW r \in Requests, Resent(r)
      PROVE  MailsCounted'
  <2> DEFINE i == serving[r].row
  <2>1. /\ i \in DOMAIN inv /\ On(r, i) /\ serving[r].op = "resend" /\ DOMAIN inv' = DOMAIN inv
        /\ \A j \in DOMAIN inv \ {i} : inv'[j].count = inv[j].count
        /\ inv'[i].count = serving[r].count + 1 /\ raced' = raced
        /\ mails' = [mails EXCEPT ![i] = IF i \in raced THEN 1 ELSE @ + 1]
    BY <1>types, <1>6, ResentFacts
  <2>2. i \notin raced => serving[r].count = inv[i].count
    BY <2>1 DEF RacesInv, StillCounted
  <2> HIDE DEF i
  <2>3. \A j \in DOMAIN inv : mails'[j] = IF j # i THEN mails[j] ELSE IF i \in raced THEN 1 ELSE mails[i] + 1
    BY <1>rows, <2>1
  <2>4. QED
    BY <1>rows, <2>1, <2>2, <2>3 DEF MailsCounted
<1>7. ASSUME NEW r \in Requests, Fail(r)
      PROVE  MailsCounted'
  BY <1>7, <1>same DEF Fail
<1>8. ASSUME NEW r \in Requests, FailMailed(r)
      PROVE  MailsCounted'
  <2>1. /\ inv' = inv /\ raced' = raced \union {serving[r].row}
        /\ mails' = [mails EXCEPT ![serving[r].row] = 1]
    BY <1>8 DEF FailMailed
  <2>2. QED
    BY <1>rows, <2>1 DEF MailsCounted
<1>9. ASSUME NEW i \in DOMAIN inv, Growing(i)
      PROVE  MailsCounted'
  <2>1. /\ DOMAIN inv' = DOMAIN inv /\ raced' = raced
        /\ \A j \in DOMAIN inv : inv'[j].count = inv[j].count
        /\ mails' = mails \/ mails' = [mails EXCEPT ![i] = 1]
    BY <1>types, <1>9, GrowingFacts
  <2>2. QED
    BY <1>rows, <2>1 DEF MailsCounted
<1>10. CASE JoinElsewhere
  BY <1>10, <1>same DEF JoinElsewhere
<1>11. CASE UNCHANGED inviteVars
  BY <1>11, <1>same DEF inviteVars
<1>12. CASE DeleteUser
  BY <1>types, <1>12, <1>same, DeleteUserFacts
<1>13. QED
  BY <1>1, <1>2, <1>3, <1>4, <1>5, <1>6, <1>7, <1>8, <1>9, <1>10, <1>11, <1>12, StepCases

-----------------------------------------------------------------------------
(* One live invitation.                                                    *)

\* Fewer rows are live, some requests have ended, and nobody joins: then the same holds.
LEMMA LessLive ==
  ASSUME OneLive, raced \subseteq raced', flow' = flow, (joined' => joined) \/ flow # "account",
         \A i \in DOMAIN inv' : Live(i)' => i \in DOMAIN inv /\ Live(i),
         \A s \in Requests : serving'[s] = serving[s] \/ serving'[s].op \notin {"create", "accept"}
  PROVE  OneLive'
<1> SUFFICES ASSUME 0 \notin raced' PROVE OneLive'
  BY DEF OneLive
<1>1. /\ \A i, j \in DOMAIN inv : Live(i) /\ Live(j) => i = j
      /\ flow = "account" /\ joined => \A i \in DOMAIN inv : ~Live(i)
      /\ \A s \in Requests :
           /\ serving[s].op = "create" /\ flow = "account" => ~joined
           /\ Creating(s, "write") => \A i \in DOMAIN inv : ~Live(i)
           /\ serving[s].op = "accept" => \A i \in DOMAIN inv : Live(i) => i = serving[s].row
  BY DEF OneLive
<1>2. \A i, j \in DOMAIN inv' : Live(i)' /\ Live(j)' => i = j
  BY <1>1
<1>3. flow' = "account" /\ joined' => \A i \in DOMAIN inv' : ~Live(i)'
  BY <1>1
<1>4. ASSUME NEW s \in Requests
      PROVE  /\ serving'[s].op = "create" /\ flow' = "account" => ~joined'
             /\ Creating(s, "write")' => \A i \in DOMAIN inv' : ~Live(i)'
             /\ serving'[s].op = "accept" => \A i \in DOMAIN inv' : Live(i)' => i = serving'[s].row
  BY <1>1 DEF Creating
<1>5. QED
  BY <1>2, <1>3, <1>4 DEF OneLive

LEMMA OneLiveStep == RacesInv /\ OneLive /\ [InviteNext]_inviteVars => OneLive'
<1> SUFFICES ASSUME RacesInv, OneLive, [InviteNext]_inviteVars PROVE OneLive'
  OBVIOUS
<1>types. InviteTypeInv /\ InviteTypeOK /\ Alone
  BY DEF RacesInv, InviteTypeInv
<1>idle. Free.op = "idle"
  BY DEF Free
\* Nobody joins and no row is live that was not.
<1>less. ASSUME raced \subseteq raced', flow' = flow, joined' = joined, DOMAIN inv' = DOMAIN inv,
                \A i \in DOMAIN inv :
                  /\ inv'[i].status = "pending" => inv[i].status = "pending"
                  /\ inv'[i].age = "new" => inv[i].age = "new",
                \A s \in Requests : serving'[s] = serving[s] \/ serving'[s].op \notin {"create", "accept"}
         PROVE  OneLive'
  BY <1>less, LessLive DEF Live
<1>1. ASSUME NEW r \in Requests, Create(r), 0 \notin raced'
      PROVE  OneLive'
  <2>1. /\ serving'[r] = NewCreate /\ \A s \in Requests \ {r} : serving'[s] = serving[s]
        /\ raced \subseteq raced' /\ ~joined /\ UNCHANGED <<flow, inv, joined>>
    BY <1>types, <1>1, CreateFacts, BeginFacts
  <2>2. NewCreate.op = "create" /\ NewCreate.at = "check"
    BY DEF NewCreate
  <2>3. QED
    BY <1>1, <2>1, <2>2 DEF OneLive, Live, Creating
<1>2. ASSUME NEW r \in Requests, NEW i \in DOMAIN inv, NEW op \in Answers, Taking(r, i, op),
             0 \notin raced'
      PROVE  OneLive'
  <2> DEFINE q == NewTake(i, op)
  <2>1. /\ q \in Runs /\ Begin(r, q) /\ q.row = i /\ q.op \in Answers /\ inv[i].status = "pending"
        /\ q.op = "accept" => inv[i].age = "new"
        /\ UNCHANGED <<flow, inv, joined>>
    BY <1>types, <1>2, TakingFacts
  <2> HIDE DEF q
  <2>2. /\ serving'[r] = q /\ \A s \in Requests \ {r} : serving'[s] = serving[s]
        /\ raced \subseteq raced'
    BY <1>types, <2>1, BeginFacts
  <2>3. q.op = "accept" => \A j \in DOMAIN inv : Live(j) => j = i
    BY <1>2, <2>1, <2>2 DEF OneLive, Live
  <2>4. q.op # "create"
    BY <2>1 DEF Answers
  <2>5. QED
    BY <1>2, <2>1, <2>2, <2>3, <2>4 DEF OneLive, Live, Creating
<1>3. ASSUME NEW r \in Requests, Check(r), 0 \notin raced'
      PROVE  OneLive'
  <2>1. /\ Creating(r, "check") /\ \A s \in Requests \ {r} : serving'[s] = serving[s]
        /\ serving'[r] = Free \/ (Acceptable /\ serving'[r] = [op |-> "create", at |-> "write"])
        /\ UNCHANGED <<flow, inv, joined, raced>>
    BY <1>types, <1>3, CheckFacts
  <2>2. CASE serving'[r] = Free
    BY <1>idle, <1>less, <2>1, <2>2
  <2>3. CASE Acceptable /\ serving'[r] = [op |-> "create", at |-> "write"]
    <3>1. serving'[r].op = "create" /\ serving[r].op = "create"
      BY <2>1, <2>3 DEF Creating
    <3>2. \A i \in DOMAIN inv : ~Live(i)
      BY <2>3 DEF Acceptable
    <3>3. QED
      BY <1>3, <2>1, <3>1, <3>2 DEF OneLive, Live, Creating
  <2>4. QED
    BY <2>1, <2>2, <2>3
<1>4. ASSUME NEW r \in Requests, Insert(r), 0 \notin raced'
      PROVE  OneLive'
  <2> DEFINE n == Len(inv')
  <2>1. /\ DOMAIN inv' = DOMAIN inv \union {n} /\ \A i \in DOMAIN inv : inv'[i] = inv[i]
        /\ Creating(r, "write") /\ End(r) /\ UNCHANGED <<flow, joined, raced>>
    BY <1>types, <1>4, InsertFacts
  <2> HIDE DEF n
  <2>2. serving[r].op = "create" /\ \A i \in DOMAIN inv : ~Live(i)
    BY <1>4, <2>1 DEF OneLive, Creating
  <2>3. flow = "account" => ~joined
    BY <1>4, <2>1, <2>2 DEF OneLive
  <2>4. \A s \in Requests : serving'[s].op \notin {"create", "accept"}
    <3>1. \A s \in Requests : serving'[s].op # "idle" => s # r /\ serving'[s] = serving[s]
      BY <1>types, <2>1, Idles
    <3>2. QED
      BY <1>types, <1>4, <2>1, <2>2, <3>1, NotAloneCreating
  <2>5. \A i \in DOMAIN inv' : Live(i)' => i = n
    BY <2>1, <2>2 DEF Live
  <2>6. QED
    BY <2>1, <2>3, <2>4, <2>5 DEF OneLive, Creating
<1>5. ASSUME NEW r \in Requests, NEW status \in Statuses, Answered(r, status), 0 \notin raced'
      PROVE  OneLive'
  <2>1. /\ End(r) /\ serving[r].row \in DOMAIN inv /\ DOMAIN inv' = DOMAIN inv
        /\ \A i \in DOMAIN inv : /\ inv'[i].age = inv[i].age
                                 /\ i # serving[r].row => inv'[i].status = inv[i].status
        /\ inv'[serving[r].row].status # "pending"
        /\ UNCHANGED <<flow, raced>>
    BY <1>types, <1>5, AnsweredFacts
  <2>join. /\ status = "accepted" => /\ serving[r].op = "accept"
                                     /\ joined' <=> joined \/ serving[r].adds
           /\ status # "accepted" => (joined' <=> joined)
    BY <1>5, AnsweredJoins
  <2>2. \A s \in Requests : serving'[s].op # "idle" => s # r /\ serving'[s] = serving[s]
    BY <1>types, <2>1, Idles
  <2>3. \A i \in DOMAIN inv : Live(i)' => Live(i) /\ i # serving[r].row
    BY <2>1 DEF Live
  <2>4. CASE status # "accepted"
    BY <2>1, <2>join, <2>2, <2>3, <2>4, LessLive
  <2>5. CASE status = "accepted"
    <3>1. \A i \in DOMAIN inv : ~Live(i)'
      BY <1>5, <2>1, <2>join, <2>3, <2>5 DEF OneLive
    <3>2. \A s \in Requests : serving'[s].op \notin {"create", "accept"}
      BY <1>types, <1>5, <2>1, <2>join, <2>2, <2>5, NotAloneCreating
    <3>3. QED
      BY <2>1, <3>1, <3>2 DEF OneLive, Creating
  <2>6. QED
    BY <2>4, <2>5
<1>6. ASSUME NEW r \in Requests, Resent(r)
      PROVE  OneLive'
  <2>1. \A s \in Requests : serving'[s] = serving[s] \/ serving'[s].op \notin {"create", "accept"}
    BY <1>types, <1>6, ResentFacts, Idles
  <2>2. QED
    BY <1>types, <1>6, <1>less, <2>1, ResentFacts
<1>7. ASSUME NEW r \in Requests, Fail(r) \/ FailMailed(r)
      PROVE  OneLive'
  <2>1. End(r) /\ raced \subseteq raced' /\ UNCHANGED <<flow, inv, joined>>
    BY <1>7 DEF Fail, FailMailed
  <2>2. \A s \in Requests : serving'[s] = serving[s] \/ serving'[s].op \notin {"create", "accept"}
    BY <1>types, <2>1, Idles
  <2>3. QED
    BY <1>less, <2>1, <2>2
<1>8. ASSUME NEW i \in DOMAIN inv, Growing(i)
      PROVE  OneLive'
  BY <1>types, <1>8, <1>less, GrowingFacts
<1>9. CASE JoinElsewhere
  <2>1. flow # "account" /\ UNCHANGED <<flow, inv, serving, raced>>
    BY <1>9 DEF JoinElsewhere
  <2>2. QED
    BY <2>1, LessLive DEF Live
<1>10. CASE UNCHANGED inviteVars
  BY <1>10, <1>less DEF inviteVars
<1>11. CASE 0 \in raced'
  BY <1>11 DEF OneLive
<1>12. CASE DeleteUser
  BY <1>types, <1>12, LessLive, DeleteUserFacts DEF Live
<1>13. QED
  BY <1>1, <1>2, <1>3, <1>4, <1>5, <1>6, <1>7, <1>8, <1>9, <1>10, <1>11, <1>12, StepCases

-----------------------------------------------------------------------------
(* Room in the window.                                                     *)

LEMMA WindowFinite ==
  ASSUME InviteTypeOK
  PROVE  IsFiniteSet(InWindow) /\ Cardinality(InWindow) \in Nat
<1>1. InWindow \subseteq 1..Len(inv) /\ Len(inv) \in Int
  BY RowFacts DEF InWindow
<1>2. IsFiniteSet(1..Len(inv))
  BY <1>1, FS_Interval
<1>3. IsFiniteSet(InWindow)
  BY <1>1, <1>2, FS_Subset
<1>4. QED
  BY <1>3, FS_CardinalityType

\* The window does not grow and no creation passes its checks: then the same holds.
LEMMA LessRoom ==
  ASSUME InviteTypeOK, Room, raced \subseteq raced', InWindow' \subseteq InWindow,
         \A s \in Requests : serving'[s] = serving[s] \/ ~Creating(s, "write")'
  PROVE  Room'
<1>1. Cardinality(InWindow) \in Nat /\ Cardinality(InWindow') <= Cardinality(InWindow)
      /\ Cardinality(InWindow') \in Nat
  BY WindowFinite, FS_Subset, FS_CardinalityType
<1>2. QED
  BY <1>1, Bounds DEF Room, Creating

LEMMA RoomStep == RacesInv /\ Room /\ [InviteNext]_inviteVars => Room'
<1> SUFFICES ASSUME RacesInv, Room, [InviteNext]_inviteVars PROVE Room'
  OBVIOUS
<1>types. InviteTypeInv /\ InviteTypeOK /\ Alone
  BY DEF RacesInv, InviteTypeInv
<1>idle. Free.op = "idle"
  BY DEF Free
<1>less. ASSUME raced \subseteq raced', DOMAIN inv' = DOMAIN inv,
                \A i \in DOMAIN inv : inv[i].age = "old" => inv'[i].age = "old",
                \A s \in Requests : serving'[s] = serving[s] \/ ~Creating(s, "write")'
         PROVE  Room'
  <2>1. InWindow' \subseteq InWindow
    BY <1>less DEF InWindow
  <2>2. QED
    BY <1>types, <1>less, <2>1, LessRoom
\* A request that ends creates nothing.
<1>end. ASSUME NEW r \in Requests, End(r)
        PROVE  \A s \in Requests : serving'[s] = serving[s] \/ ~Creating(s, "write")'
  BY <1>types, <1>idle, <1>end, EndFacts DEF Creating
<1>1. ASSUME NEW r \in Requests, Create(r)
      PROVE  Room'
  <2>1. /\ serving'[r] = NewCreate /\ \A s \in Requests \ {r} : serving'[s] = serving[s]
        /\ raced \subseteq raced' /\ inv' = inv
    BY <1>types, <1>1, CreateFacts, BeginFacts
  <2>2. ~Creating(r, "write")'
    BY <2>1 DEF Creating, NewCreate
  <2>3. QED
    BY <1>less, <2>1, <2>2
<1>2. ASSUME NEW r \in Requests, NEW i \in DOMAIN inv, NEW op \in Answers, Taking(r, i, op)
      PROVE  Room'
  <2> DEFINE q == NewTake(i, op)
  <2>1. q \in Runs /\ Begin(r, q) /\ q.op \in Answers /\ inv' = inv
    BY <1>types, <1>2, TakingFacts
  <2> HIDE DEF q
  <2>2. /\ serving'[r] = q /\ \A s \in Requests \ {r} : serving'[s] = serving[s]
        /\ raced \subseteq raced'
    BY <1>types, <2>1, BeginFacts
  <2>3. ~Creating(r, "write")'
    BY <2>1, <2>2 DEF Creating, Answers
  <2>4. QED
    BY <1>less, <2>1, <2>2, <2>3
<1>3. ASSUME NEW r \in Requests, Check(r)
      PROVE  Room'
  <2>1. /\ \A s \in Requests \ {r} : serving'[s] = serving[s]
        /\ serving'[r] = Free \/ Acceptable
        /\ UNCHANGED <<flow, inv, joined, raced>>
    BY <1>types, <1>3, CheckFacts
  <2>2. CASE serving'[r] = Free
    BY <1>idle, <1>less, <2>1, <2>2 DEF Creating
  <2>3. CASE Acceptable
    <3>1. Cardinality(InWindow) < MaxPerWindow /\ InWindow' = InWindow
      BY <2>1, <2>3 DEF Acceptable, InWindow
    <3>2. QED
      BY <2>1, <3>1, WindowFinite, <1>types, Bounds DEF Room
  <2>4. QED
    BY <2>1, <2>2, <2>3
<1>4. ASSUME NEW r \in Requests, Insert(r), 0 \notin raced'
      PROVE  Room'
  <2> DEFINE n == Len(inv')
  <2>1. /\ DOMAIN inv' = DOMAIN inv \union {n} /\ \A i \in DOMAIN inv : inv'[i] = inv[i]
        /\ n \notin DOMAIN inv /\ inv'[n] = NewRow
        /\ Creating(r, "write") /\ End(r) /\ UNCHANGED <<flow, joined, raced>>
    BY <1>types, <1>4, InsertFacts
  <2>2. inv'[n].age = "new"
    BY <2>1 DEF NewRow
  <2> HIDE DEF n
  <2>3. InWindow' = InWindow \union {n} /\ n \notin InWindow
    BY <2>1, <2>2 DEF InWindow
  <2>4. Cardinality(InWindow') = Cardinality(InWindow) + 1
    BY <1>types, <2>3, WindowFinite, FS_AddElement
  <2>5. Cardinality(InWindow) < MaxPerWindow
    BY <1>4, <2>1 DEF Room
  <2>6. \A s \in Requests : serving'[s].op # "create"
    <3>1. /\ serving[r].op = "create"
          /\ \A s \in Requests : serving'[s].op # "idle" => s # r /\ serving'[s] = serving[s]
      BY <1>types, <2>1, Idles DEF Creating
    <3>2. QED
      BY <1>types, <1>4, <2>1, <3>1, NotAloneCreating
  <2>7. Cardinality(InWindow') <= MaxPerWindow
    BY <1>types, <2>4, <2>5, WindowFinite, Bounds
  <2>8. QED
    BY <2>6, <2>7 DEF Room, Creating
<1>5. ASSUME NEW r \in Requests, NEW status \in Statuses, Answered(r, status)
      PROVE  Room'
  BY <1>types, <1>5, <1>end, <1>less, AnsweredFacts
<1>6. ASSUME NEW r \in Requests, Resent(r)
      PROVE  Room'
  BY <1>types, <1>6, <1>end, <1>less, ResentFacts
<1>7. ASSUME NEW r \in Requests, Fail(r) \/ FailMailed(r)
      PROVE  Room'
  <2>1. End(r) /\ raced \subseteq raced' /\ inv' = inv
    BY <1>7 DEF Fail, FailMailed
  <2>2. QED
    BY <1>end, <1>less, <2>1
<1>8. ASSUME NEW i \in DOMAIN inv, Growing(i)
      PROVE  Room'
  BY <1>types, <1>8, <1>less, GrowingFacts
<1>9. CASE JoinElsewhere
  BY <1>9, <1>less DEF JoinElsewhere
<1>10. CASE UNCHANGED inviteVars
  BY <1>10, <1>less DEF inviteVars
<1>11. CASE 0 \in raced'
  BY <1>11 DEF Room
<1>12. CASE DeleteUser
  BY <1>types, <1>12, <1>less, DeleteUserFacts
<1>13. QED
  BY <1>1, <1>2, <1>3, <1>4, <1>5, <1>6, <1>7, <1>8, <1>9, <1>10, <1>11, <1>12, StepCases

-----------------------------------------------------------------------------
(* Owners.                                                                 *)

LEMMA OwnersStep ==
  RacesInv /\ OwnersAnswered /\ NobodyToAdd /\ [InviteNext]_inviteVars => OwnersAnswered'
<1> SUFFICES ASSUME RacesInv, OwnersAnswered, NobodyToAdd, [InviteNext]_inviteVars
             PROVE  OwnersAnswered'
  OBVIOUS
<1>types. InviteTypeInv /\ InviteTypeOK
  BY DEF RacesInv, InviteTypeInv
\* Nobody joins and no row changes its status.
<1>same. ASSUME flow' = flow, joined' = joined, raced \subseteq raced', DOMAIN inv' = DOMAIN inv,
                \A i \in DOMAIN inv : inv'[i].status = inv[i].status
                                      /\ inv'[i].invitee = inv[i].invitee
         PROVE  OwnersAnswered'
  BY <1>same DEF OwnersAnswered
<1>1. ASSUME NEW r \in Requests, Create(r)
      PROVE  OwnersAnswered'
  BY <1>types, <1>1, <1>same, CreateFacts, BeginFacts
<1>2. ASSUME NEW r \in Requests, NEW i \in DOMAIN inv, NEW op \in Answers, Taking(r, i, op)
      PROVE  OwnersAnswered'
  <2>1. raced \subseteq raced' /\ UNCHANGED <<flow, inv, joined>>
    BY <1>types, <1>2, TakingFacts DEF Begin
  <2>2. QED
    BY <1>same, <2>1
<1>3. ASSUME NEW r \in Requests, Check(r)
      PROVE  OwnersAnswered'
  BY <1>types, <1>3, <1>same, CheckFacts
<1>4. ASSUME NEW r \in Requests, Insert(r)
      PROVE  OwnersAnswered'
  <2> DEFINE n == Len(inv')
  <2>1. /\ DOMAIN inv' = DOMAIN inv \union {n} /\ \A i \in DOMAIN inv : inv'[i] = inv[i]
        /\ inv'[n] = NewRow
        /\ UNCHANGED <<flow, joined, raced>>
    BY <1>types, <1>4, InsertFacts
  <2>2. inv'[n].status = "pending"
    BY <2>1 DEF NewRow
  <2> HIDE DEF n
  <2>3. QED
    BY <2>1, <2>2 DEF OwnersAnswered
\* The row that is answered was pending, unless it is in raced.
<1>5. ASSUME NEW r \in Requests, NEW status \in Statuses, Answered(r, status)
      PROVE  OwnersAnswered'
  <2> DEFINE rec == serving[r].row
  <2>1. /\ rec \in DOMAIN inv /\ On(r, rec) /\ DOMAIN inv' = DOMAIN inv
        /\ \A i \in DOMAIN inv : /\ inv'[i].invitee = inv[i].invitee
                                 /\ i # rec => inv'[i].status = inv[i].status
        /\ inv'[rec].status = status /\ status # "pending"
        /\ UNCHANGED <<flow, raced>>
    BY <1>types, <1>5, AnsweredFacts
  <2>join. /\ status = "accepted" => /\ serving[r].op = "accept"
                                     /\ joined' <=> joined \/ serving[r].adds
           /\ status # "accepted" => (joined' <=> joined)
    BY <1>5, AnsweredJoins
  <2>2. rec \notin raced => inv[rec].status = "pending"
    BY <2>1 DEF RacesInv, StillPending
  <2>3. status = "accepted" /\ inv[rec].invitee => joined'
    BY <2>join DEF NobodyToAdd
  <2> HIDE DEF rec
  \* Whom another accepted row names has joined before.
  <2>4. ASSUME NEW i \in DOMAIN inv', inv'[i].status = "accepted", inv'[i].invitee
        PROVE  joined'
    <3>1. CASE i = rec
      BY <2>1, <2>3, <2>4, <3>1
    <3>2. CASE i # rec
      <4>1. joined
        BY <2>1, <2>4, <3>2 DEF OwnersAnswered
      <4>2. QED
        BY <2>join, <4>1
    <3>3. QED
      BY <3>1, <3>2
  \* Who owned the account had an answered row, that is answered still.
  <2>5. ASSUME flow = "account", joined'
        PROVE  \E i \in DOMAIN inv' : \/ inv'[i].status = "accepted"
                                      \/ i \in raced' /\ inv'[i].status # "pending"
    <3>1. CASE status = "accepted"
      BY <2>1, <3>1
    <3>2. CASE status # "accepted"
      <4>1. PICK i \in DOMAIN inv : \/ inv[i].status = "accepted"
                                    \/ i \in raced /\ inv[i].status # "pending"
        BY <2>join, <2>5, <3>2 DEF OwnersAnswered
      <4>2. \/ inv'[i].status = "accepted"
            \/ i \in raced' /\ inv'[i].status # "pending"
        BY <2>1, <2>2, <4>1
      <4>3. QED
        BY <2>1, <4>2
    <3>3. QED
      BY <3>1, <3>2
  <2>6. QED
    BY <2>1, <2>4, <2>5 DEF OwnersAnswered
<1>6. ASSUME NEW r \in Requests, Resent(r)
      PROVE  OwnersAnswered'
  BY <1>types, <1>6, <1>same, ResentFacts
<1>7. ASSUME NEW r \in Requests, Fail(r) \/ FailMailed(r)
      PROVE  OwnersAnswered'
  <2>1. raced \subseteq raced' /\ UNCHANGED <<flow, inv, joined>>
    BY <1>7 DEF Fail, FailMailed
  <2>2. QED
    BY <1>same, <2>1
<1>8. ASSUME NEW i \in DOMAIN inv, Growing(i)
      PROVE  OwnersAnswered'
  BY <1>types, <1>8, <1>same, GrowingFacts
<1>9. CASE JoinElsewhere
  BY <1>9 DEF JoinElsewhere, OwnersAnswered
<1>10. CASE DeleteUser
  BY <1>types, <1>10, DeleteUserFacts DEF OwnersAnswered
<1>11. CASE UNCHANGED inviteVars
  BY <1>11, <1>same DEF inviteVars
<1>12. QED
  BY <1>1, <1>2, <1>3, <1>4, <1>5, <1>6, <1>7, <1>8, <1>9, <1>10, <1>11, StepCases

LEMMA NobodyStep == RacesInv /\ NobodyToAdd /\ [InviteNext]_inviteVars => NobodyToAdd'
<1> SUFFICES ASSUME RacesInv, NobodyToAdd, [InviteNext]_inviteVars PROVE NobodyToAdd'
  OBVIOUS
<1>types. InviteTypeInv /\ InviteTypeOK
  BY DEF RacesInv, InviteTypeInv
\* Nobody leaves, no row gets a user, and no acceptance begins.
<1>same. ASSUME joined => joined',
                \A i \in DOMAIN inv : inv'[i].invitee => inv[i].invitee,
                \A s \in Requests : serving'[s] = serving[s] \/ serving'[s].op # "accept"
         PROVE  NobodyToAdd'
  <2>1. \A s \in Requests : serving[s].op = "accept" => serving[s].row \in DOMAIN inv
    BY <1>types DEF InviteTypeInv, RowsExist, Answers
  <2>2. QED
    BY <1>same, <2>1 DEF NobodyToAdd
<1>end. ASSUME NEW r \in Requests, End(r)
        PROVE  \A s \in Requests : serving'[s] = serving[s] \/ serving'[s].op # "accept"
  BY <1>types, <1>end, EndFacts DEF Free
<1>1. ASSUME NEW r \in Requests, Create(r)
      PROVE  NobodyToAdd'
  <2>1. \A s \in Requests : serving'[s] = serving[s] \/ serving'[s].op # "accept"
    BY <1>types, <1>1, CreateFacts, BeginFacts DEF NewCreate
  <2>2. QED
    BY <1>types, <1>1, <1>same, <2>1, CreateFacts
<1>2. ASSUME NEW r \in Requests, NEW i \in DOMAIN inv, NEW op \in Answers, Taking(r, i, op)
      PROVE  NobodyToAdd'
  <2> DEFINE q == NewTake(i, op)
  <2>1. /\ q \in Runs /\ Begin(r, q) /\ q.row = i
        /\ q.op = "accept" => (q.adds <=> Adds(i))
        /\ UNCHANGED <<flow, inv, joined>>
    BY <1>types, <1>2, TakingFacts
  <2> HIDE DEF q
  <2>2. /\ serving'[r] = q /\ \A s \in Requests \ {r} : serving'[s] = serving[s]
    BY <1>types, <2>1, BeginFacts
  <2>3. q.op = "accept" /\ ~q.adds /\ inv[i].invitee => joined
    BY <2>1 DEF Adds
  <2>4. QED
    BY <2>1, <2>2, <2>3 DEF NobodyToAdd
<1>3. ASSUME NEW r \in Requests, Check(r)
      PROVE  NobodyToAdd'
  <2>1. \A s \in Requests : serving'[s] = serving[s] \/ serving'[s].op # "accept"
    BY <1>types, <1>3, CheckFacts DEF Free
  <2>2. QED
    BY <1>types, <1>3, <1>same, <2>1, CheckFacts
<1>4. ASSUME NEW r \in Requests, Insert(r)
      PROVE  NobodyToAdd'
  BY <1>types, <1>4, <1>same, <1>end, InsertFacts
<1>5. ASSUME NEW r \in Requests, NEW status \in Statuses, Answered(r, status)
      PROVE  NobodyToAdd'
  <2>1. joined => joined'
    BY <1>5, AnsweredJoins
  <2>2. QED
    BY <1>types, <1>5, <1>same, <1>end, <2>1, AnsweredFacts
<1>6. ASSUME NEW r \in Requests, Resent(r)
      PROVE  NobodyToAdd'
  BY <1>types, <1>6, <1>same, <1>end, ResentFacts
<1>7. ASSUME NEW r \in Requests, Fail(r) \/ FailMailed(r)
      PROVE  NobodyToAdd'
  <2>1. End(r) /\ UNCHANGED <<flow, inv, joined>>
    BY <1>7 DEF Fail, FailMailed
  <2>2. QED
    BY <1>same, <1>end, <2>1
<1>8. ASSUME NEW i \in DOMAIN inv, Growing(i)
      PROVE  NobodyToAdd'
  BY <1>types, <1>8, <1>same, GrowingFacts
<1>9. CASE JoinElsewhere
  BY <1>9, <1>same DEF JoinElsewhere
<1>10. CASE DeleteUser
  <2>1. \A s \in Requests : serving[s].op = "accept" => serving[s].row \in DOMAIN inv
    BY <1>types DEF InviteTypeInv, RowsExist, Answers
  <2>2. QED
    BY <1>types, <1>10, <2>1, DeleteUserFacts DEF NobodyToAdd
<1>11. CASE UNCHANGED inviteVars
  BY <1>11, <1>same DEF inviteVars
<1>12. QED
  BY <1>1, <1>2, <1>3, <1>4, <1>5, <1>6, <1>7, <1>8, <1>9, <1>10, <1>11, StepCases

-----------------------------------------------------------------------------
(* The invariant, and what follows from it.                                *)

LEMMA InviteInitInv == InviteInit => InvitationsInv
<1> SUFFICES ASSUME InviteInit PROVE InvitationsInv
  OBVIOUS
<1>1. inv = <<>> /\ mails = <<>> /\ raced = {} /\ joined = FALSE /\ flow \in {"account", "user"}
      /\ serving = [r \in Requests |-> Free]
  BY DEF InviteInit
<1>2. /\ DOMAIN inv = {} /\ Len(inv) = 0 /\ Len(mails) = 0
      /\ inv \in Seq(Rows) /\ mails \in Seq(1..(MaxResends + 2))
  BY <1>1, EmptySeq
<1>3. Free \in Runs /\ Free.op = "idle" /\ Free.op \notin Answers
  BY DEF Runs, Free, Answers
<1>4. InviteTypeOK
  <2>1. serving \in [Requests -> Runs] /\ joined \in BOOLEAN /\ raced \subseteq 0..MaxInvitations
    BY <1>1, <1>3
  <2>2. 0 <= MaxInvitations
    BY Bounds
  <2>3. QED
    BY <1>1, <1>2, <2>1, <2>2 DEF InviteTypeOK
<1>5. RowsExist /\ StillPending /\ StillCounted /\ MailsCounted
  BY <1>1, <1>2, <1>3 DEF RowsExist, StillPending, StillCounted, MailsCounted
<1>6. Alone
  <2>1. Things(Free) = {}
    BY DEF Things, Free, Answers
  <2>2. QED
    BY <1>1, <2>1 DEF Alone
<1>7. OneLive
  BY <1>1, <1>2, <1>3 DEF OneLive, Creating
<1>8. Room
  <2>1. InWindow = {}
    BY <1>2 DEF InWindow
  <2>2. Cardinality(InWindow) = 0
    BY <2>1, FS_EmptySet
  <2>3. QED
    BY <1>1, <1>3, <2>2, Bounds DEF Room, Creating
<1>9. OwnersAnswered /\ NobodyToAdd
  BY <1>1, <1>2, <1>3 DEF OwnersAnswered, NobodyToAdd
<1>10. QED
  BY <1>4, <1>5, <1>6, <1>7, <1>8, <1>9 DEF InvitationsInv, RacesInv, InviteTypeInv

LEMMA InvStep == InvitationsInv /\ [InviteNext]_inviteVars => InvitationsInv'
<1> SUFFICES ASSUME InvitationsInv, [InviteNext]_inviteVars PROVE InvitationsInv'
  OBVIOUS
<1>1. RacesInv /\ InviteTypeInv /\ Alone /\ StillCounted /\ MailsCounted /\ OneLive /\ Room /\ OwnersAnswered
      /\ NobodyToAdd
  BY DEF InvitationsInv, RacesInv
<1>2. InviteTypeInv'
  BY <1>1, InviteTypeStep
<1>3. Alone'
  BY <1>1, AloneStep
<1>4. StillPending' /\ StillCounted'
  BY <1>1, ReadStep
<1>5. MailsCounted'
  BY <1>1, MailsStep
<1>6. OneLive' /\ Room' /\ OwnersAnswered' /\ NobodyToAdd'
  BY <1>1, OneLiveStep, RoomStep, OwnersStep, NobodyStep
<1>7. QED
  BY <1>2, <1>3, <1>4, <1>5, <1>6 DEF InvitationsInv, RacesInv

LEMMA InvAlways == InviteSpec => []InvitationsInv
BY InviteInitInv, InvStep, PTL DEF InviteSpec

\* The state of the flows is well formed: no count passes MaxResends + 1, whatever
\* requests read and write at once.
THEOREM InviteTypeCorrect == InviteSpec => []InviteTypeOK
<1>1. InvitationsInv => InviteTypeOK
  BY DEF InvitationsInv, RacesInv, InviteTypeInv
<1>2. QED
  BY <1>1, InvAlways, PTL

\* Who is an owner through an invitation has accepted one, unless another answer given at
\* once was written over it; and the user whom an accepted invitation names is an owner,
\* or active, whatever requests overlapped and whoever is deleted in between
\* (accept_invitation, cancel, decline_invitation).
THEOREM OwnersCorrect == InviteSpec => []OwnersAnswered
<1>1. InvitationsInv => OwnersAnswered
  BY DEF InvitationsInv
<1>2. QED
  BY <1>1, InvAlways, PTL

\* One invitation of an address can be answered at a time, and none of an owner's, for
\* any number of requests that do not create or accept at once (create_invitation).
THEOREM OnePendingCorrect == InviteSpec => []OnePending
<1>1. ASSUME InvitationsInv PROVE OnePending
  <2> DEFINE L == {i \in DOMAIN inv : Live(i)}
  <2>1. SUFFICES ASSUME 0 \notin raced
                 PROVE  /\ Cardinality(L) <= 1
                        /\ flow = "account" /\ joined => \A i \in DOMAIN inv : ~Live(i)
    BY DEF OnePending
  <2>2. /\ \A i, j \in DOMAIN inv : Live(i) /\ Live(j) => i = j
        /\ flow = "account" /\ joined => \A i \in DOMAIN inv : ~Live(i)
    BY <1>1, <2>1 DEF InvitationsInv, OneLive
  <2>3. L = {} \/ \E i \in DOMAIN inv : L = {i}
    BY <2>2
  <2> HIDE DEF L
  <2>4. Cardinality(L) <= 1
    BY <2>3, FS_EmptySet, FS_Singleton
  <2>5. QED
    BY <2>2, <2>4
<1>2. QED
  BY <1>1, InvAlways, PTL

\* An address gets no more invitations a window, nor mails of one invitation, than the
\* limits say, but for requests that overlap and mails whose request then fails
\* (check_invitation_limit, check_resend, record_send).
THEOREM MailsBoundedCorrect == InviteSpec => []MailsBounded
<1>1. ASSUME InvitationsInv PROVE MailsBounded
  <2>1. InviteTypeOK /\ MailsCounted /\ Room
    BY <1>1 DEF InvitationsInv, RacesInv, InviteTypeInv
  <2>2. \A i \in DOMAIN inv \ raced : mails[i] <= MaxResends + 1
    BY <2>1, RowFacts, Bounds DEF MailsCounted
  <2>3. QED
    BY <2>1, <2>2 DEF MailsBounded, Room
<1>2. QED
  BY <1>1, InvAlways, PTL
=============================================================================
