-------------------------- MODULE NotificationQueue --------------------------
(***************************************************************************)
(* The two-stage notification queue of services/notification_jobs.py and   *)
(* the delivery of one notification in services/push_notify.py.            *)
(*                                                                         *)
(* A published flyer has one parent job; a parent job creates one child    *)
(* job per recipient; a child job stores an inbox row and sends a push.    *)
(* Workers are concurrent calls of NotificationJobWorker.run_pending: the  *)
(* scheduler's tick, POST /ops/cron/notifications, a second instance       *)
(* during a deploy.  One action is one database call of a worker, so that  *)
(* calls of different workers and of request handlers interleave, and a    *)
(* worker may die between any two of them.                                 *)
(***************************************************************************)
EXTENDS Integers, FiniteSets

CONSTANTS
  Flyers,          \* published target flyers (rows of table flyers)
  Users,           \* accounts that can be recipients
  Parent,          \* the "user" of a parent job: any value outside Users
  Workers,         \* concurrent run_pending calls
  MaxAttempts,     \* column max_attempts of notification_jobs
  Limit,           \* DEFAULT_LIMIT: jobs claimed by one query
  PoolSize,        \* settings.notification_delivery_workers
  RetryTicks,      \* RETRY_DELAY_MINUTES, in ticks of the clock
  TicksPerDay,     \* length of a Rome day in ticks
  NotificationTick,\* 10:00 Europe/Rome, as a tick of the day
  MaxNow,          \* bound: the clock stops here
  Windows,         \* the validity windows a flyer may be given
  DirectPostgres,  \* has_direct_postgres(): claim with _CLAIM_SQL
  Postponable,     \* managers may change the validity of a published flyer
  Faults,          \* a database call inside _dispatch may raise
  Crashes          \* a worker or a request may die between two calls

NoDate == -1       \* valid_from IS NULL; a window open at its end ends after MaxNow

ASSUME QueueAssumption ==
  /\ Parent \notin Users
  /\ MaxAttempts \in Nat \ {0}
  /\ Limit \in Nat \ {0}
  /\ PoolSize \in Nat \ {0}
  /\ RetryTicks \in Nat
  /\ TicksPerDay \in Nat \ {0}
  /\ NotificationTick \in 0 .. (TicksPerDay - 1)
  /\ MaxNow \in Nat
  /\ Windows \subseteq [from : Int, to : Int]
  /\ DirectPostgres \in BOOLEAN
  /\ Postponable \in BOOLEAN
  /\ Faults \in BOOLEAN
  /\ Crashes \in BOOLEAN

VARIABLES
  now,        \* the wall clock, in ticks
  flyer,      \* rows of table flyers with flyer_kind published_target
  publisher,  \* what the request handling a flyer still has to do
  job,        \* table notification_jobs, by idempotency key
  pass,       \* where each run_pending call is
  task,       \* what each worker is doing with each job it holds
  inbox,      \* rows of app_notifications per child job
  pushes,     \* pushes sent per child job
  late        \* history: flyers whose dates have changed after a job had begun

vars == <<now, flyer, publisher, late, job, pass, task, inbox, pushes>>
queueVars == <<job, pass, task, inbox, pushes>>
publisherVars == <<flyer, publisher, late>>

-----------------------------------------------------------------------------
(* Idempotency keys: "flyer-published:{flyer}" is <<flyer, Parent>>, and   *)
(* "flyer-published:{flyer}:{user}" is <<flyer, user>>.                    *)

Child == Flyers \X Users
Key == Flyers \X (Users \cup {Parent})
ParentKey(f) == <<f, Parent>>
IsParent(k) == k[2] = Parent

Status == {"absent", "pending", "processing", "done", "failed", "dead"}
Job == [status : Status, attempts : Nat, at : Nat]

(* A task is the execution of a job by a worker: the job dictionary it     *)
(* holds (attempts) and the next call it will make.                        *)
Step == {"none", "selected", "claimed", "eligible", "insert", "refresh",
         "push", "enqueue", "finish", "failed"}
Task == [step : Step, attempts : Nat, push : BOOLEAN, todo : SUBSET Users]
NoTask == [step |-> "none", attempts |-> 0, push |-> FALSE, todo |-> {}]

Today == now \div TicksPerDay
TenOClock(d) == d * TicksPerDay + NotificationTick
(* _flyer_notification_available_at                                        *)
NotifyAt(from) ==
  IF from = NoDate \/ TenOClock(from) <= now THEN now ELSE TenOClock(from)

(* _flyer_is_notification_eligible; a deleted row is not found.            *)
Eligible(f) ==
  /\ flyer[f].state = "public"
  /\ flyer[f].from = NoDate \/ flyer[f].from <= Today
  /\ Today <= flyer[f].to

Init ==
  /\ now = 0
  /\ flyer = [f \in Flyers |-> [state |-> "none", from |-> NoDate, to |-> 0]]
  /\ publisher = [f \in Flyers |-> "idle"]
  /\ job = [k \in Key |-> [status |-> "absent", attempts |-> 0, at |-> 0]]
  /\ pass = [w \in Workers |-> "idle"]
  /\ task = [w \in Workers |-> [k \in Key |-> NoTask]]
  /\ inbox = [k \in Child |-> 0]
  /\ pushes = [k \in Child |-> 0]
  /\ late = {}

-----------------------------------------------------------------------------
(* The publishing requests of api/routers/flyers.py, as far as the queue   *)
(* sees them: each writes the flyer row first and the job afterwards.      *)

PublishTargetFlyer(f, window) ==
  /\ publisher[f] = "idle"
  /\ flyer[f].state = "none"
  /\ flyer' = [flyer EXCEPT ![f] =
       [state |-> "public", from |-> window.from, to |-> window.to]]
  /\ publisher' = [publisher EXCEPT ![f] = "enqueue"]
  /\ UNCHANGED <<now, late, queueVars>>

(* Mutant of Enqueued: an upsert that overwrites the existing row.         *)
EnqueuedAgain(k, at) ==
  [job EXCEPT ![k] = [status |-> "pending", attempts |-> 0, at |-> at]]

(* The upsert of _enqueue with ignore_duplicates: an existing row stays.   *)
Enqueued(k, at) ==
  IF job[k].status = "absent"
  THEN [job EXCEPT ![k] = [status |-> "pending", attempts |-> 0, at |-> at]]
  ELSE job

EnqueueFlyerPublished(f) ==
  /\ publisher[f] = "enqueue"
  /\ job' = Enqueued(ParentKey(f), NotifyAt(flyer[f].from))
  /\ publisher' = [publisher EXCEPT ![f] = "idle"]
  /\ UNCHANGED <<now, flyer, late, pass, task, inbox, pushes>>

(* No job of the flyer has begun: the parent waits, and nobody has read it *)
(* to claim it.                                                            *)
NoneBegun(f) ==
  /\ job[ParentKey(f)].status \in {"pending", "failed"}
  /\ \A w \in Workers : task[w][ParentKey(f)].step = "none"
  /\ \A u \in Users : job[<<f, u>>].status = "absent"

(* _sync_flyer_validity: the flyer is late until its parent is rescheduled *)
(* while no job has begun.                                                 *)
SyncValidity(f, window) ==
  /\ Postponable
  /\ publisher[f] = "idle"
  /\ flyer[f].state = "public"
  /\ flyer' = [flyer EXCEPT ![f].from = window.from, ![f].to = window.to]
  /\ publisher' = [publisher EXCEPT ![f] = "reschedule"]
  /\ late' = late \cup {f}
  /\ UNCHANGED <<now, queueVars>>

(* Mutant of RescheduleFlyerPublished: jobs to be retried keep their hour. *)
ReschedulePending(f) ==
  /\ publisher[f] = "reschedule"
  /\ job' = IF job[ParentKey(f)].status = "pending"
            THEN [job EXCEPT ![ParentKey(f)].at = NotifyAt(flyer[f].from)]
            ELSE job
  /\ publisher' = [publisher EXCEPT ![f] = "idle"]
  /\ late' = IF NoneBegun(f) THEN late \ {f} ELSE late
  /\ UNCHANGED <<now, flyer, pass, task, inbox, pushes>>

RescheduleFlyerPublished(f) ==
  /\ publisher[f] = "reschedule"
  /\ job' = IF job[ParentKey(f)].status \in {"pending", "failed"}
            THEN [job EXCEPT ![ParentKey(f)].at = NotifyAt(flyer[f].from)]
            ELSE job
  /\ publisher' = [publisher EXCEPT ![f] = "idle"]
  /\ late' = IF NoneBegun(f) THEN late \ {f} ELSE late
  /\ UNCHANGED <<now, flyer, pass, task, inbox, pushes>>

DeleteFlyer(f) ==
  /\ publisher[f] = "idle"
  /\ flyer[f].state = "public"
  /\ flyer' = [flyer EXCEPT ![f].state = "deleted"]
  /\ UNCHANGED <<now, publisher, late, queueVars>>

RequestDies(f) ==
  /\ Crashes
  /\ publisher[f] # "idle"
  /\ publisher' = [publisher EXCEPT ![f] = "idle"]
  /\ UNCHANGED <<now, flyer, late, queueVars>>

-----------------------------------------------------------------------------
(* Claiming: run_pending claims parents, runs them, claims recipients.     *)

Holds(w, k) == task[w][k].step \notin {"none", "selected"}
Quiet(w) == \A k \in Key : task[w][k].step = "none"

(* Mutants of Due: rows left in processing are taken again; failed rows    *)
(* are not retried.                                                        *)
DueProcessing(kind) ==
  {k \in Key : /\ IsParent(k) <=> kind = "parents"
               /\ job[k].status \in {"pending", "failed", "processing"}
               /\ job[k].at <= now}

DuePending(kind) ==
  {k \in Key : /\ IsParent(k) <=> kind = "parents"
               /\ job[k].status = "pending"
               /\ job[k].at <= now}

Due(kind) ==
  {k \in Key : /\ IsParent(k) <=> kind = "parents"
               /\ job[k].status \in {"pending", "failed"}
               /\ job[k].at <= now}
AttemptsLeft(k) == job[k].attempts < MaxAttempts

(* ORDER BY created_at LIMIT n over S: which rows are the oldest is left   *)
(* open.                                                                   *)
Batches(S) ==
  {B \in SUBSET S : /\ Cardinality(B) <= Limit
                    /\ B # S => Cardinality(B) = Limit}

Held(k, step) ==
  [step |-> step, attempts |-> job[k].attempts + (IF step = "claimed" THEN 1 ELSE 0),
   push |-> FALSE, todo |-> {}]

(* _CLAIM_SQL: one statement selects, locks and marks the batch.           *)
ClaimSql(w, kind) ==
  \E B \in Batches({k \in Due(kind) : AttemptsLeft(k)}) :
    /\ job' = [k \in Key |->
         IF k \in B THEN [job[k] EXCEPT !.status = "processing", !.attempts = @ + 1]
                    ELSE job[k]]
    /\ task' = [task EXCEPT ![w] =
         [k \in Key |-> IF k \in B THEN Held(k, "claimed") ELSE NoTask]]

(* _claim_jobs_via_supabase: a select, then one update per row; the limit  *)
(* applies before the rows without attempts left are dropped.              *)
SelectJobs(w, kind) ==
  \E B \in Batches(Due(kind)) :
    /\ task' = [task EXCEPT ![w] =
         [k \in Key |-> IF k \in B /\ AttemptsLeft(k)
                        THEN Held(k, "selected") ELSE NoTask]]
    /\ UNCHANGED job

ClaimJobs(w, kind) ==
  /\ IF DirectPostgres THEN ClaimSql(w, kind) ELSE SelectJobs(w, kind)
  /\ pass' = [pass EXCEPT ![w] = kind]
  /\ UNCHANGED <<now, publisherVars, inbox, pushes>>

ClaimParents(w) == pass[w] = "idle" /\ ClaimJobs(w, "parents")
ClaimRecipients(w) ==
  pass[w] = "parents" /\ Quiet(w) /\ ClaimJobs(w, "recipients")

EndPass(w) ==
  /\ pass[w] = "recipients"
  /\ Quiet(w)
  /\ pass' = [pass EXCEPT ![w] = "idle"]
  /\ UNCHANGED <<now, publisherVars, job, task, inbox, pushes>>

MarkProcessing(w, k) ==
  /\ task[w][k].step = "selected"
  /\ LET attempts == task[w][k].attempts + 1 IN
     /\ job' = [job EXCEPT ![k].status = "processing", ![k].attempts = attempts]
     /\ task' = [task EXCEPT ![w][k].step = "claimed", ![w][k].attempts = attempts]
  /\ UNCHANGED <<now, publisherVars, pass, inbox, pushes>>

-----------------------------------------------------------------------------
(* Running a job: _run_job.  Parents run one after the other, recipients   *)
(* in a thread pool; both start when the whole batch has been claimed.     *)

Running(w) == {k \in Key : Holds(w, k) /\ task[w][k].step # "claimed"}
MayStart(w, k) ==
  /\ task[w][k].step = "claimed"
  /\ \A other \in Key : task[w][other].step # "selected"
  /\ IF IsParent(k) THEN Running(w) = {}
                    ELSE Cardinality(Running(w)) < PoolSize

Goto(w, k, step) == task' = [task EXCEPT ![w][k].step = step]

CheckEligible(w, k) ==
  /\ MayStart(w, k)
  /\ Goto(w, k, IF Eligible(k[1]) THEN "eligible" ELSE "finish")
  /\ UNCHANGED <<now, publisherVars, job, pass, inbox, pushes>>

(* _materialize_recipients: the recipients query, then one upsert each.    *)
ResolveRecipients(w, k) ==
  /\ task[w][k].step = "eligible"
  /\ IsParent(k)
  /\ \E recipients \in SUBSET Users :
       task' = [task EXCEPT ![w][k].step = "enqueue", ![w][k].todo = recipients]
  /\ UNCHANGED <<now, publisherVars, job, pass, inbox, pushes>>

EnqueueRecipient(w, k, u) ==
  /\ task[w][k].step = "enqueue"
  /\ u \in task[w][k].todo
  /\ job' = Enqueued(<<k[1], u>>, now)
  /\ task' = [task EXCEPT ![w][k].todo = @ \ {u}]
  /\ UNCHANGED <<now, publisherVars, pass, inbox, pushes>>

RecipientsEnqueued(w, k) ==
  /\ task[w][k].step = "enqueue"
  /\ task[w][k].todo = {}
  /\ Goto(w, k, "finish")
  /\ UNCHANGED <<now, publisherVars, job, pass, inbox, pushes>>

(* deliver_public_flyer_published_to_recipient: the profile may be gone,   *)
(* or have notifications_enabled either way; then the inbox is searched.   *)
FindExisting(w, k) ==
  /\ task[w][k].step = "eligible"
  /\ ~IsParent(k)
  /\ \/ Goto(w, k, "finish")
     \/ \E enabled \in BOOLEAN :
          task' = [task EXCEPT
            ![w][k].step = IF inbox[k] > 0 THEN "refresh" ELSE "insert",
            ![w][k].push = enabled]
  /\ UNCHANGED <<now, publisherVars, job, pass, inbox, pushes>>

AfterInsert(w, k) == Goto(w, k, IF task[w][k].push THEN "push" ELSE "finish")

(* _persist_notification logs and drops an exception of the insert.        *)
PersistNotification(w, k) ==
  /\ task[w][k].step = "insert"
  /\ AfterInsert(w, k)
  /\ \/ inbox' = [inbox EXCEPT ![k] = @ + 1]
     \/ Faults /\ UNCHANGED inbox
  /\ UNCHANGED <<now, publisherVars, job, pass, pushes>>

(* The update of an existing row, which may have been deleted meanwhile;   *)
(* its title and read mark are not modelled.                               *)
RefreshNotification(w, k) ==
  /\ task[w][k].step = "refresh"
  /\ Goto(w, k, "finish")
  /\ UNCHANGED <<now, publisherVars, job, pass, inbox, pushes>>

(* A push that is lost, or has no subscription to go to, is not retried.   *)
SendPush(w, k) ==
  /\ task[w][k].step = "push"
  /\ Goto(w, k, "finish")
  /\ \/ pushes' = [pushes EXCEPT ![k] = @ + 1]
     \/ UNCHANGED pushes
  /\ UNCHANGED <<now, publisherVars, job, pass, inbox>>

DispatchRaises(w, k) ==
  /\ Faults
  /\ \/ MayStart(w, k)
     \/ task[w][k].step \in {"eligible", "enqueue", "refresh"}
  /\ Goto(w, k, "failed")
  /\ UNCHANGED <<now, publisherVars, job, pass, inbox, pushes>>

Drop(w, k) == task' = [task EXCEPT ![w][k] = NoTask]

MarkDone(w, k) ==
  /\ task[w][k].step = "finish"
  /\ job' = [job EXCEPT ![k].status = "done"]
  /\ Drop(w, k)
  /\ UNCHANGED <<now, publisherVars, pass, inbox, pushes>>

(* Mutant of MarkFailed: an off-by-one on max_attempts.                   *)
MarkFailedOnceMore(w, k) ==
  /\ task[w][k].step = "failed"
  /\ job' = [job EXCEPT
       ![k].status = IF task[w][k].attempts > MaxAttempts THEN "dead" ELSE "failed",
       ![k].at = now + RetryTicks]
  /\ Drop(w, k)
  /\ UNCHANGED <<now, publisherVars, pass, inbox, pushes>>

MarkFailed(w, k) ==
  /\ task[w][k].step = "failed"
  /\ job' = [job EXCEPT
       ![k].status = IF task[w][k].attempts >= MaxAttempts THEN "dead" ELSE "failed",
       ![k].at = now + RetryTicks]
  /\ Drop(w, k)
  /\ UNCHANGED <<now, publisherVars, pass, inbox, pushes>>

(* In a pool thread, creating the client or the update of MarkDone or      *)
(* MarkFailed raises: the other threads go on, nobody holds the job.       *)
MarkRaises(w, k) ==
  /\ Crashes
  /\ ~IsParent(k)
  /\ MayStart(w, k) \/ task[w][k].step \in {"finish", "failed"}
  /\ Drop(w, k)
  /\ UNCHANGED <<now, publisherVars, job, pass, inbox, pushes>>

(* The process dies, or an exception leaves run_pending.                   *)
Crash(w) ==
  /\ Crashes
  /\ pass[w] # "idle"
  /\ pass' = [pass EXCEPT ![w] = "idle"]
  /\ task' = [task EXCEPT ![w] = [k \in Key |-> NoTask]]
  /\ UNCHANGED <<now, publisherVars, job, inbox, pushes>>

-----------------------------------------------------------------------------
(* The owner of an inbox deletes the notification.                         *)
DeleteNotification(k) ==
  /\ inbox[k] > 0
  /\ inbox' = [inbox EXCEPT ![k] = 0]
  /\ UNCHANGED <<now, publisherVars, job, pass, task, pushes>>

Tick ==
  /\ now < MaxNow
  /\ now' = now + 1
  /\ UNCHANGED <<publisherVars, queueVars>>

PublisherNext ==
  \E f \in Flyers :
    \/ \E window \in Windows : PublishTargetFlyer(f, window) \/ SyncValidity(f, window)
    \/ EnqueueFlyerPublished(f)
    \/ RescheduleFlyerPublished(f)
    \/ DeleteFlyer(f)
    \/ RequestDies(f)

PassStep(w) == ClaimParents(w) \/ ClaimRecipients(w) \/ EndPass(w)

TaskStep(w, k) ==
  \/ MarkProcessing(w, k)
  \/ CheckEligible(w, k)
  \/ ResolveRecipients(w, k)
  \/ \E u \in Users : EnqueueRecipient(w, k, u)
  \/ RecipientsEnqueued(w, k)
  \/ FindExisting(w, k)
  \/ PersistNotification(w, k)
  \/ RefreshNotification(w, k)
  \/ SendPush(w, k)
  \/ MarkDone(w, k)
  \/ MarkFailed(w, k)

Next ==
  \/ PublisherNext
  \/ \E w \in Workers : PassStep(w) \/ Crash(w)
  \/ \E w \in Workers, k \in Key :
       TaskStep(w, k) \/ DispatchRaises(w, k) \/ MarkRaises(w, k)
  \/ \E k \in Child : DeleteNotification(k)
  \/ Tick

Spec == Init /\ [][Next]_vars

(* Time passes, the scheduler starts a pass every minute, and a pass that  *)
(* is running goes on; nothing makes a request or a crash happen.          *)
Fairness ==
  /\ WF_vars(Tick)
  /\ \A w \in Workers :
       /\ WF_vars(PassStep(w))
       /\ \A k \in Key : WF_vars(TaskStep(w, k))

FairSpec == Spec /\ Fairness
-----------------------------------------------------------------------------
(* The types of the variables: columns of notification_jobs and of flyers, *)
(* and the local state of run_pending.                                     *)
TypeOK ==
  /\ now \in 0 .. MaxNow
  /\ flyer \in [Flyers -> [state : {"none", "public", "deleted"}, from : Int, to : Int]]
  /\ publisher \in [Flyers -> {"idle", "enqueue", "reschedule"}]
  /\ job \in [Key -> Job]
  /\ pass \in [Workers -> {"idle", "parents", "recipients"}]
  /\ task \in [Workers -> [Key -> Task]]
  /\ inbox \in [Child -> Nat]
  /\ pushes \in [Child -> Nat]
  /\ late \subseteq Flyers

(* A job that some call of run_pending is executing is in status           *)
(* processing and no other call holds it: two overlapping drains never     *)
(* work on the same job (FOR UPDATE SKIP LOCKED in _CLAIM_SQL).            *)
ClaimExclusive ==
  \A w \in Workers, k \in Key : Holds(w, k) =>
    /\ job[k].status = "processing"
    /\ \A v \in Workers : Holds(v, k) => v = w

(* Whatever fails, is retried or overlaps, a recipient is sent at most one *)
(* push for a flyer and has at most one inbox row for it.                  *)
NoDuplicateDelivery == \A k \in Child : inbox[k] <= 1 /\ pushes[k] <= 1

(* A failed job still has an attempt left, so that the claim query will    *)
(* see it again; a dead job used all of them (_mark_failed against the     *)
(* attempts < max_attempts of the claim).                                  *)
FailedIsRetryable ==
  \A k \in Key : /\ job[k].status = "failed" => job[k].attempts < MaxAttempts
                 /\ job[k].status = "dead" => job[k].attempts = MaxAttempts

(* The attempts of a job never exceed max_attempts, also when two drains   *)
(* mark it from a stale read (_mark_processing).                           *)
AttemptsBounded == \A k \in Key : job[k].attempts <= MaxAttempts

(* What makes the three invariants above inductive on the path of          *)
(* _CLAIM_SQL: the holder of a job knows its attempts, and a child job has *)
(* delivered nothing until its delivery is past the insert.                *)
HoldersKnowTheJob ==
  \A w \in Workers, k \in Key :
    /\ task[w][k].step \notin {"selected", "refresh"}
    /\ Holds(w, k) => task[w][k].attempts = job[k].attempts
    /\ task[w][k].step \in {"insert", "push"} => ~IsParent(k)
    /\ task[w][k].step = "enqueue" => IsParent(k)

Untold(k) == inbox[k] = 0 /\ pushes[k] = 0
UntoldUntilInsert ==
  \A k \in Child :
    /\ job[k].status \in {"absent", "pending", "failed"} => Untold(k)
    /\ \A w \in Workers :
         /\ task[w][k].step \in {"claimed", "eligible", "insert", "failed"} => Untold(k)
         /\ task[w][k].step = "push" => pushes[k] = 0

AttemptsMatchStatus ==
  \A k \in Key : job[k].status \in {"absent", "pending"} => job[k].attempts = 0

QueueInv ==
  /\ ClaimExclusive
  /\ HoldersKnowTheJob
  /\ UntoldUntilInsert
  /\ AttemptsMatchStatus
  /\ AttemptsBounded
  /\ FailedIsRetryable
  /\ NoDuplicateDelivery

(* docs/jobs.md:9, "the parent job waits until 10:00 Europe/Rome on its    *)
(* valid_from; changing that date reschedules only jobs not yet            *)
(* delivered": nobody hears of a flyer before that hour, also when its     *)
(* dates change while its parent job waits or is to be retried.  Excused   *)
(* are flyers whose dates change after a job has begun: nothing holds its  *)
(* recipients back then.                                                   *)
NothingBeforeTen ==
  \A k \in Child : (inbox[k] > 0 \/ pushes[k] > 0) /\ k[1] \notin late =>
    \/ flyer[k[1]].from = NoDate
    \/ now >= TenOClock(flyer[k[1]].from)

(* A job that is done or dead is never touched again: not by a repeated    *)
(* publication (ignore_duplicates), not by a reschedule, not by a late     *)
(* worker.                                                                 *)
SettledForever ==
  [][\A k \in Key : (job[k].status \in {"done", "dead"}) => job'[k] = job[k]]_vars

(* docs/jobs.md:9, jobs are retried before they move to dead: every job    *)
(* that was enqueued ends done or dead.                                    *)
EveryJobSettles ==
  \A k \in Key :
    job[k].status # "absent" ~> job[k].status \in {"done", "dead"}

(* No job is left waiting or running: each ends, or has used max_attempts. *)
(* (A failed job without attempts left, which FailedIsRetryable excludes   *)
(* on the path of _CLAIM_SQL, is what two drains that select the same row  *)
(* can leave.)                                                             *)
EveryJobIsServed ==
  \A k \in Key :
    job[k].status # "absent" ~>
      \/ job[k].status \in {"done", "dead"}
      \/ job[k].status = "failed" /\ job[k].attempts = MaxAttempts

(* The queue implements NotificationPromise for its child jobs.            *)
Promise == INSTANCE NotificationPromise WITH
  Recipients <- Child,
  stored <- {k \in Child : inbox[k] > 0},
  pushed <- {k \in Child : pushes[k] > 0},
  closed <- {k \in Child : job[k].status \in {"done", "dead"}}

PromiseKept == Promise!Spec
=============================================================================
