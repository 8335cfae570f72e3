--------------------------- MODULE Notifications ---------------------------
(***************************************************************************)
(* How one user's notifications reach the mailbox (app/notifications).     *)
(* notify stores a row and, for an immediate one, queues a task that sends *)
(* it (send_notification_now) and retries.  A periodic task sends all that *)
(* is pending as one digest when the user's window is open                 *)
(* (flush_email_digests); after MaxFailures failures in a row it leaves    *)
(* the user alone until the counter expires.  Another task deletes rows    *)
(* past their retention (purge_old_notifications).                         *)
(*                                                                         *)
(* The tasks run outside any transaction: what one has read, another may   *)
(* have sent by the time the first sends it.  A worker that dies loses its *)
(* task.  Users are independent of each other: there is one.               *)
(***************************************************************************)
EXTENDS Integers, FiniteSets

CONSTANTS
  Notes,        \* notifications, each of them sent to notify once
  Immediate,    \* those that are CRITICAL, of a kind that cannot be suppressed, or
                \* of one that the user wants at once
  Unsure,       \* those whose templates may be impossible to render
  Flushes,      \* runs of flush_email_digests that may overlap
  MaxFailures,  \* _DIGEST_MAX_FAILURES
  MaxRetries,   \* NOTIFICATIONS_SEND_MAX_RETRIES
  MaxFaults     \* bound: workers that die, and mails that were accepted although
                \* the attempt then failed

ASSUME NotesAssumption ==
  /\ Immediate \subseteq Notes /\ Unsure \subseteq Notes /\ Notes \cap Flushes = {}
ASSUME LimitsAssumption ==
  /\ MaxFailures \in Nat \ {0} /\ MaxRetries \in Nat
  /\ MaxFaults \in Nat

VARIABLES
  broken,     \* those whose templates cannot be rendered
  row,        \* a notification: "none", "pending" (no log_entry), "sent", "purged"
  task,       \* its send_notification_now in the queue: its retries so far, or NoTask
  run,        \* what each sender and each flush is at, with the batch it has read
              \* and the retries or failures it counts from
  failures,   \* the failure counter in the cache; 0 if it is not there
  open,       \* whether the delivery window is open
  last,       \* last_digest_sent_at lies in the latest window
  faults,     \* how many of MaxFaults happened
  copies,     \* how often a notification was mailed (history)
  digests,    \* the digests mailed since the window opened (history)
  disturbed,  \* notifications that two runs held at once, or that a run mailed
              \* and did not mark (history)
  clashed     \* the same of the digest, since the window opened (history)

history == <<copies, digests, disturbed, clashed>>
vars == <<broken, row, task, run, failures, open, last, faults, history>>

Actors == Notes \union Flushes    \* the sender of a notification goes by its name
NoTask == -1
Idle == [at |-> "idle", batch |-> {}, count |-> 0]
Pending == {n \in Notes : row[n] = "pending"}
Holds(a, n) == n \in run[a].batch
Busy(a) == run[a].at # "idle"
Flushing == {f \in Flushes : Busy(f)}

-----------------------------------------------------------------------------
\* notify, of a kind that is not switched off.
Notify(n) ==
  /\ row[n] = "none"
  /\ row' = [row EXCEPT ![n] = "pending"]
  /\ task' = IF n \in Immediate THEN [task EXCEPT ![n] = 0] ELSE task
  /\ UNCHANGED <<broken, run, failures, open, last, faults, history>>

\* A run reads what it is going to send.
Reads(a, batch, count) ==
  /\ run' = [run EXCEPT ![a] = [at |-> "render", batch |-> batch, count |-> count]]
  /\ disturbed' = disturbed \union {n \in batch : \E b \in Actors : Holds(b, n)}

\* send_notification_now starts.  Mutant: it does not look at log_entry.
Unchecked(n) == row[n] \in {"pending", "sent"}
Sendable(n) == row[n] = "pending"
TakeTask(n) ==
  /\ task[n] # NoTask /\ ~Busy(n)
  /\ task' = [task EXCEPT ![n] = NoTask]
  /\ IF Sendable(n) THEN Reads(n, {n}, task[n]) ELSE UNCHANGED <<run, disturbed>>
  /\ UNCHANGED <<broken, row, failures, open, last, faults, copies, digests, clashed>>

\* The user is left alone.  Mutant: the counter is not looked at.
NotSuspended == FALSE
Suspended == failures >= MaxFailures

\* flush_email_digests finds the user's window open and lists what is pending.
\* Mutant: it does not compare last_digest_sent_at with the window.
DueAgain == open
Due == open /\ ~last
Flush(f) ==
  /\ ~Busy(f)
  /\ ~Suspended /\ Due /\ Pending # {}
  /\ Reads(f, Pending, failures)
  /\ clashed' = (clashed \/ Flushing # {})
  /\ UNCHANGED <<broken, row, task, failures, open, last, faults, copies, digests>>

-----------------------------------------------------------------------------
(* EmailChannel._dispatch, for a sender and for a flush.                   *)

\* The attempt raises: a sender tries again later, a flush counts it.
Failed(a) ==
  /\ run' = [run EXCEPT ![a] = Idle]
  /\ IF a \in Flushes
     THEN failures' = run[a].count + 1 /\ UNCHANGED task
     ELSE /\ task' = IF run[a].count < MaxRetries
                     THEN [task EXCEPT ![a] = run[a].count + 1] ELSE task
          /\ UNCHANGED failures

\* The bodies are rendered, all before the log row is created.
Render(a) ==
  /\ run[a].at = "render"
  /\ IF run[a].batch \intersect broken = {}
     THEN run' = [run EXCEPT ![a].at = "send"] /\ UNCHANGED <<task, failures>>
     ELSE Failed(a)
  /\ UNCHANGED <<broken, row, open, last, faults, history>>

Refuse(a) ==
  /\ run[a].at = "send"
  /\ Failed(a)
  /\ UNCHANGED <<broken, row, open, last, faults, history>>

\* Counted up to two.
OneMore(count) == IF count = 0 THEN 1 ELSE 2

Mail(a) ==
  /\ run[a].at = "send"
  /\ run' = [run EXCEPT ![a].at = "link"]
  /\ copies' = [n \in Notes |-> IF Holds(a, n) THEN OneMore(copies[n]) ELSE copies[n]]
  /\ digests' = IF a \in Flushes THEN OneMore(digests) ELSE digests
  /\ UNCHANGED <<broken, row, task, failures, open, last, faults, disturbed, clashed>>

\* The rows that get the log entry.  Mutant: all that are pending by now.
AllPending(a) == Pending
Linked(a) == {n \in run[a].batch : row[n] # "purged"}
Link(a) ==
  /\ run[a].at = "link"
  /\ row' = [n \in Notes |-> IF n \in Linked(a) THEN "sent" ELSE row[n]]
  /\ run' = [run EXCEPT ![a] = IF a \in Flushes THEN [@ EXCEPT !.at = "done", !.batch = {}]
                                                ELSE Idle]
  /\ UNCHANGED <<broken, task, failures, open, last, faults, history>>

\* The counter is deleted and the time of the digest saved.
Done(f) ==
  /\ run[f].at = "done"
  /\ run' = [run EXCEPT ![f] = Idle]
  /\ failures' = 0
  /\ last' = TRUE
  /\ UNCHANGED <<broken, row, task, open, faults, history>>

\* What is left half done by a run that ends here.
Undone(a) ==
  /\ faults < MaxFaults
  /\ faults' = faults + 1
  /\ disturbed' = disturbed \union IF run[a].at = "link" THEN run[a].batch ELSE {}
  /\ clashed' = (clashed \/ (a \in Flushes /\ run[a].at \in {"link", "done"}))

\* The attempt raises after the mail was accepted: a lost answer, the soft time
\* limit, a database error.
Interrupt(a) ==
  /\ run[a].at = "link"
  /\ Undone(a)
  /\ Failed(a)
  /\ UNCHANGED <<broken, row, open, last, copies, digests>>

\* The worker dies: its task was acknowledged when it started.
Die(a) ==
  /\ Busy(a)
  /\ Undone(a)
  /\ run' = [run EXCEPT ![a] = Idle]
  /\ UNCHANGED <<broken, row, task, failures, open, last, copies, digests>>

-----------------------------------------------------------------------------
\* Three days after the last failure.  Mutant: the key has no timeout.
NoTimeout == FALSE
Timeout == failures # 0
Expire ==
  /\ Timeout
  /\ failures' = 0
  /\ UNCHANGED <<broken, row, task, run, open, last, faults, history>>

\* A flush takes minutes, and windows are hours apart.
Open ==
  /\ ~open /\ Flushing = {}
  /\ open' = TRUE /\ last' = FALSE
  /\ digests' = 0 /\ clashed' = FALSE
  /\ UNCHANGED <<broken, row, task, run, failures, faults, copies, disturbed>>

Close ==
  /\ open
  /\ open' = FALSE
  /\ UNCHANGED <<broken, row, task, run, failures, last, faults, history>>

\* A row is past its retention, which is much longer than anything else takes: it
\* may be any one here.  Nothing asks any more for one that was sent.
Purge(n) ==
  /\ row[n] = "pending"
  /\ row' = [row EXCEPT ![n] = "purged"]
  /\ UNCHANGED <<broken, task, run, failures, open, last, faults, history>>

-----------------------------------------------------------------------------
Init ==
  /\ broken \in SUBSET Unsure
  /\ row = [n \in Notes |-> "none"]
  /\ task = [n \in Notes |-> NoTask]
  /\ run = [a \in Actors |-> Idle]
  /\ failures = 0 /\ faults = 0
  /\ open = FALSE /\ last = FALSE
  /\ copies = [n \in Notes |-> 0] /\ digests = 0
  /\ disturbed = {} /\ clashed = FALSE

Step(a) == Render(a) \/ Refuse(a) \/ Mail(a) \/ Link(a) \/ Interrupt(a) \/ Die(a)

Next ==
  \/ \E n \in Notes : Notify(n) \/ TakeTask(n) \/ Purge(n)
  \/ \E f \in Flushes : Flush(f) \/ Done(f)
  \/ \E a \in Actors : Step(a)
  \/ Expire \/ Open \/ Close

Spec == Init /\ [][Next]_vars

\* Windows come, the flush runs in some of them, a run goes on, the mail server
\* does not refuse for ever, and the counter of a user that is left alone expires.
\* Nothing is assumed of the immediate sends, nor that rows are ever purged.
Fairness ==
  /\ WF_vars(Open) /\ WF_vars(Close) /\ WF_vars(Expire)
  /\ SF_vars(\E f \in Flushes : Flush(f)) /\ SF_vars(\E f \in Flushes : Mail(f))
  /\ WF_vars(\E f \in Flushes : Render(f) \/ Link(f) \/ Done(f))

FairSpec == Spec /\ Fairness

-----------------------------------------------------------------------------
TypeOK ==
  /\ broken \subseteq Unsure
  /\ row \in [Notes -> {"none", "pending", "sent", "purged"}]
  /\ task \in [Notes -> {NoTask} \union 0..MaxRetries]
  /\ run \in [Actors -> [at : {"idle", "render", "send", "link", "done"},
                         batch : SUBSET Notes, count : Nat]]
  /\ failures \in 0..MaxFailures /\ faults \in 0..MaxFaults
  /\ open \in BOOLEAN /\ last \in BOOLEAN
  /\ copies \in [Notes -> 0..2] /\ digests \in 0..2
  /\ disturbed \subseteq Notes /\ clashed \in BOOLEAN

\* A notification is mailed once, by a task of its own or in a digest: unless two
\* runs held it at the same time, or one could not mark what it had mailed.
MailedOnce == \A n \in Notes \ disturbed : copies[n] <= 1

\* What has a log entry was mailed, also when it arrived while a digest was on
\* its way.
SentWasMailed == \A n \in Notes : row[n] = "sent" => copies[n] > 0

\* The user gets one digest a window, whatever arrives after it: unless two
\* flushes overlapped, or one died between the mail and the note of it.
OneDigestAWindow == clashed \/ digests <= 1

\* A pending notification is mailed, however often workers die, servers refuse
\* and the user is left alone for a while: unless it is purged before, or is
\* listed with one that cannot be rendered, which holds up every digest.
Delivered ==
  \A n \in Notes :
    row[n] = "pending" ~> (copies[n] > 0 \/ row[n] = "purged" \/ broken \intersect Pending # {})
=============================================================================
