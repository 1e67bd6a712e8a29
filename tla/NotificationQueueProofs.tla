----------------------- MODULE NotificationQueueProofs -----------------------
(***************************************************************************)
(* Proofs about NotificationQueue, for any numbers of flyers, users and    *)
(* workers, any limits and any validity windows.                           *)
(***************************************************************************)
EXTENDS NotificationQueue, TLAPS

(* Keys of jobs: both forms of idempotency key are keys, and the flyer and *)
(* the recipient of a key are a flyer and a user (or Parent).              *)
LEMMA KeyForms ==
  /\ \A f \in Flyers : ParentKey(f) \in Key
  /\ Child \subseteq Key
  /\ \A k \in Key : k[1] \in Flyers
  /\ \A k \in Key, u \in Users : <<k[1], u>> \in Child
  /\ \A k \in Key : ~IsParent(k) => k \in Child
  /\ \A k \in Child : ~IsParent(k)
BY QueueAssumption DEF Key, Child, ParentKey, IsParent

(* The upsert of _enqueue writes a well-formed row and leaves existing     *)
(* rows alone.                                                             *)
LEMMA EnqueuedIsJobTable ==
  ASSUME TypeOK, NEW k \in Key, NEW at \in Nat
  PROVE  Enqueued(k, at) \in [Key -> Job]
BY DEF TypeOK, Enqueued, Job, Status

(* A notification is never scheduled before the clock's time.              *)
LEMMA NotifyAtIsTime ==
  ASSUME TypeOK, NEW from \in Int
  PROVE  NotifyAt(from) \in Nat
<1>1. now \in Nat
  BY QueueAssumption DEF TypeOK
<1>2. TenOClock(from) \in Int
  BY QueueAssumption DEF TenOClock
<1>3. QED
  BY <1>1, <1>2 DEF NotifyAt

(* Replacing the task of one worker and one job keeps the table of tasks   *)
(* well-formed, whichever of the fields of the task change.                *)
TaskTable == [Workers -> [Key -> Task]]

LEMMA TaskUpdate ==
  ASSUME NEW T \in TaskTable, NEW w \in Workers, NEW k \in Key, NEW t \in Task
  PROVE  [T EXCEPT ![w][k] = t] \in TaskTable
<1>1. T[w] \in [Key -> Task]
  BY DEF TaskTable
<1>2. [T[w] EXCEPT ![k] = t] \in [Key -> Task]
  BY <1>1
<1>3. QED
  BY <1>2 DEF TaskTable

LEMMA TaskFields ==
  ASSUME NEW t \in Task, NEW step \in Step, NEW attempts \in Nat,
         NEW push \in BOOLEAN, NEW todo \in SUBSET Users
  PROVE  /\ [t EXCEPT !.step = step] \in Task
         /\ [t EXCEPT !.todo = todo] \in Task
         /\ [t EXCEPT !.step = step, !.attempts = attempts] \in Task
         /\ [t EXCEPT !.step = step, !.push = push] \in Task
         /\ [t EXCEPT !.step = step, !.todo = todo] \in Task
BY DEF Task

LEMMA JobFields ==
  ASSUME NEW j \in Job, NEW status \in Status, NEW attempts \in Nat, NEW at \in Nat
  PROVE  /\ [j EXCEPT !.status = status, !.attempts = attempts] \in Job
         /\ [j EXCEPT !.status = status, !.at = at] \in Job
BY DEF Job

LEMMA GotoType ==
  ASSUME task \in TaskTable, NEW w \in Workers, NEW k \in Key, NEW step \in Step,
         Goto(w, k, step)
  PROVE  task' \in TaskTable
<1>1. task[w][k] \in Task
  BY DEF TaskTable
<1>2. [task[w][k] EXCEPT !.step = step] \in Task
  BY <1>1, TaskFields
<1>3. task' = [task EXCEPT ![w][k] = [task[w][k] EXCEPT !.step = step]]
  BY DEF Goto
<1>4. QED
  BY <1>2, <1>3, TaskUpdate

LEMMA ClaimType ==
  ASSUME TypeOK, NEW w \in Workers, NEW kind \in {"parents", "recipients"},
         ClaimJobs(w, kind)
  PROVE  TypeOK'
<1>1. ASSUME NEW k \in Key, NEW step \in {"claimed", "selected"}
      PROVE  Held(k, step) \in Task
  BY <1>1 DEF Held, Task, Step, TypeOK, Job
<1>2. NoTask \in Task
  BY DEF NoTask, Task, Step
<1>3. ASSUME NEW B, NEW step \in {"claimed", "selected"},
             task' = [task EXCEPT ![w] =
               [k \in Key |-> IF k \in B THEN Held(k, step) ELSE NoTask]]
      PROVE  task' \in [Workers -> [Key -> Task]]
  <2>1. [k \in Key |-> IF k \in B THEN Held(k, step) ELSE NoTask] \in [Key -> Task]
    BY <1>1, <1>2
  <2>2. QED
    BY <1>3, <2>1 DEF TypeOK
<1>4. CASE DirectPostgres
  <2>1. PICK B \in Batches({k \in Due(kind) : AttemptsLeft(k)}) : ClaimSql(w, kind)!(B)
    BY <1>4 DEF ClaimJobs, ClaimSql
  <2>2. ASSUME NEW k \in Key
        PROVE  [job[k] EXCEPT !.status = "processing", !.attempts = @ + 1] \in Job
    <3>1. job[k] \in Job /\ job[k].attempts + 1 \in Nat
      BY DEF TypeOK, Job
    <3>2. QED
      BY <3>1, JobFields DEF Status
  <2>3. job' \in [Key -> Job]
    BY <2>1, <2>2 DEF TypeOK
  <2>4. task' \in [Workers -> [Key -> Task]]
    BY <1>3, <2>1
  <2>5. QED
    BY <2>3, <2>4 DEF TypeOK, ClaimJobs, publisherVars
<1>5. CASE ~DirectPostgres
  <2>1. PICK B \in Batches(Due(kind)) : SelectJobs(w, kind)!(B)
    BY <1>5 DEF ClaimJobs, SelectJobs
  <2> DEFINE C == {k \in B : AttemptsLeft(k)}
  <2>2. task' = [task EXCEPT ![w] =
          [k \in Key |-> IF k \in C THEN Held(k, "selected") ELSE NoTask]]
    BY <2>1
  <2>3. task' \in [Workers -> [Key -> Task]]
    <3> HIDE DEF C
    <3>1. QED
      BY <1>3, <2>2
  <2>4. QED
    BY <2>1, <2>3 DEF TypeOK, ClaimJobs, publisherVars
<1>6. QED
  BY <1>4, <1>5

LEMMA TypeStep == TypeOK /\ [Next]_vars => TypeOK'
<1> SUFFICES ASSUME TypeOK, [Next]_vars
             PROVE  TypeOK'
  OBVIOUS
<1>1. ASSUME NEW f \in Flyers, NEW window \in Windows,
             PublishTargetFlyer(f, window) \/ SyncValidity(f, window)
      PROVE  TypeOK'
  <2>1. window \in [from : Int, to : Int]
    BY QueueAssumption
  <2>2. flyer' \in [Flyers -> [state : {"none", "public", "deleted"}, from : Int, to : Int]]
    BY <1>1, <2>1 DEF PublishTargetFlyer, SyncValidity, TypeOK
  <2>3. QED
    BY <1>1, <2>2 DEF PublishTargetFlyer, SyncValidity, TypeOK, queueVars
<1>2. ASSUME NEW f \in Flyers, EnqueueFlyerPublished(f)
      PROVE  TypeOK'
  <2>1. flyer[f].from \in Int
    BY DEF TypeOK
  <2>2. job' \in [Key -> Job]
    BY <1>2, <2>1, NotifyAtIsTime, KeyForms, EnqueuedIsJobTable
       DEF EnqueueFlyerPublished
  <2>3. QED
    BY <1>2, <2>2 DEF EnqueueFlyerPublished, TypeOK
<1>3. ASSUME NEW f \in Flyers, RescheduleFlyerPublished(f)
      PROVE  TypeOK'
  <2>1. NotifyAt(flyer[f].from) \in Nat
    BY NotifyAtIsTime DEF TypeOK
  <2>2. job' \in [Key -> Job]
    BY <1>3, <2>1, KeyForms DEF RescheduleFlyerPublished, TypeOK, Job
  <2>3. QED
    BY <1>3, <2>2 DEF RescheduleFlyerPublished, TypeOK
<1>4. ASSUME NEW f \in Flyers, DeleteFlyer(f) \/ RequestDies(f)
      PROVE  TypeOK'
  BY <1>4 DEF DeleteFlyer, RequestDies, TypeOK, queueVars
<1>5. ASSUME NEW w \in Workers, PassStep(w)
      PROVE  TypeOK'
  <2>1. CASE ClaimParents(w) \/ ClaimRecipients(w)
    BY <2>1, ClaimType DEF ClaimParents, ClaimRecipients
  <2>2. CASE EndPass(w)
    BY <2>2 DEF EndPass, TypeOK, publisherVars
  <2>3. QED
    BY <1>5, <2>1, <2>2 DEF PassStep
<1>6. ASSUME NEW w \in Workers, Crash(w)
      PROVE  TypeOK'
  BY <1>6 DEF Crash, TypeOK, publisherVars, NoTask, Task, Step
<1>7. ASSUME NEW w \in Workers, NEW k \in Key,
             TaskStep(w, k) \/ DispatchRaises(w, k) \/ MarkRaises(w, k)
      PROVE  TypeOK'
  <2> USE DEF TypeOK, publisherVars
  <2>a. task \in TaskTable /\ task[w][k] \in Task /\ NoTask \in Task
    BY DEF TaskTable, NoTask, Task, Step
  <2>b. ASSUME Drop(w, k)
        PROVE  task' \in TaskTable
    <3>1. task' = [task EXCEPT ![w][k] = NoTask]
      BY <2>b DEF Drop
    <3>2. QED
      BY <2>a, <3>1, TaskUpdate
  <2>1. CASE MarkProcessing(w, k)
    <3> DEFINE n == task[w][k].attempts + 1
    <3>1. n \in Nat
      BY <2>a DEF Task
    <3>2. [task[w][k] EXCEPT !.step = "claimed", !.attempts = n] \in Task
      BY <2>a, <3>1, TaskFields DEF Step
    <3>3. task' = [task EXCEPT ![w][k] =
            [task[w][k] EXCEPT !.step = "claimed", !.attempts = n]]
      BY <2>1, <2>a DEF MarkProcessing, TaskTable
    <3>4. task' \in TaskTable
      BY <2>a, <3>2, <3>3, TaskUpdate
    <3>5. job' \in [Key -> Job]
      BY <2>1, <3>1 DEF MarkProcessing, Job, Status
    <3>6. QED
      BY <2>1, <3>4, <3>5 DEF MarkProcessing, TaskTable
  <2>2. CASE CheckEligible(w, k)
    <3>1. task' \in TaskTable
      BY <2>2, <2>a, GotoType DEF CheckEligible, Step
    <3>2. QED
      BY <2>2, <3>1 DEF CheckEligible, TaskTable
  <2>3. CASE ResolveRecipients(w, k)
    <3>1. PICK recipients \in SUBSET Users : ResolveRecipients(w, k)!3!(recipients)
      BY <2>3 DEF ResolveRecipients
    <3>2. [task[w][k] EXCEPT !.step = "enqueue", !.todo = recipients] \in Task
      BY <2>a, TaskFields DEF Step
    <3>3. task' = [task EXCEPT ![w][k] =
            [task[w][k] EXCEPT !.step = "enqueue", !.todo = recipients]]
      BY <3>1, <2>a DEF TaskTable
    <3>4. task' \in TaskTable
      BY <2>a, <3>2, <3>3, TaskUpdate
    <3>5. QED
      BY <2>3, <3>4 DEF ResolveRecipients, TaskTable
  <2>4. ASSUME NEW u \in Users, EnqueueRecipient(w, k, u)
        PROVE  TypeOK'
    <3>1. now \in Nat
      BY QueueAssumption
    <3>2. job' \in [Key -> Job]
      BY <2>4, <3>1, KeyForms, EnqueuedIsJobTable DEF EnqueueRecipient
    <3>3. [task[w][k] EXCEPT !.todo = @ \ {u}] \in Task
      BY <2>a DEF Task
    <3>4. task' = [task EXCEPT ![w][k] = [task[w][k] EXCEPT !.todo = @ \ {u}]]
      BY <2>4, <2>a DEF EnqueueRecipient, TaskTable
    <3>5. task' \in TaskTable
      BY <2>a, <3>3, <3>4, TaskUpdate
    <3>6. QED
      BY <2>4, <3>2, <3>5 DEF EnqueueRecipient, TaskTable
  <2>5. CASE RecipientsEnqueued(w, k)
    <3>1. task' \in TaskTable
      BY <2>5, <2>a, GotoType DEF RecipientsEnqueued, Step
    <3>2. QED
      BY <2>5, <3>1 DEF RecipientsEnqueued, TaskTable
  <2>6. CASE FindExisting(w, k)
    <3>1. CASE Goto(w, k, "finish")
      BY <2>6, <3>1, <2>a, GotoType DEF FindExisting, Step, TaskTable
    <3>2. ASSUME NEW enabled \in BOOLEAN, NEW step \in {"refresh", "insert"},
                 task' = [task EXCEPT ![w][k].step = step, ![w][k].push = enabled]
          PROVE  task' \in TaskTable
      <4>1. [task[w][k] EXCEPT !.step = step, !.push = enabled] \in Task
        BY <2>a, TaskFields DEF Step
      <4>2. task' = [task EXCEPT ![w][k] =
              [task[w][k] EXCEPT !.step = step, !.push = enabled]]
        BY <3>2, <2>a DEF TaskTable
      <4>3. QED
        BY <2>a, <4>1, <4>2, TaskUpdate
    <3>3. QED
      BY <2>6, <3>1, <3>2 DEF FindExisting, TaskTable
  <2>7. CASE PersistNotification(w, k)
    <3>1. task' \in TaskTable
      BY <2>7, <2>a, GotoType DEF PersistNotification, AfterInsert, Step
    <3>2. QED
      BY <2>7, <3>1 DEF PersistNotification, TaskTable
  <2>8. CASE RefreshNotification(w, k)
    <3>1. task' \in TaskTable
      BY <2>8, <2>a, GotoType DEF RefreshNotification, Step
    <3>2. QED
      BY <2>8, <3>1 DEF RefreshNotification, TaskTable
  <2>9. CASE SendPush(w, k)
    <3>1. task' \in TaskTable
      BY <2>9, <2>a, GotoType DEF SendPush, Step
    <3>2. QED
      BY <2>9, <3>1 DEF SendPush, TaskTable
  <2>10. CASE MarkDone(w, k)
    BY <2>10, <2>b DEF MarkDone, Job, Status, TaskTable
  <2>11. CASE MarkFailed(w, k)
    <3>1. now + RetryTicks \in Nat
      BY QueueAssumption
    <3> DEFINE end == IF task[w][k].attempts >= MaxAttempts THEN "dead" ELSE "failed"
    <3>2. [job[k] EXCEPT !.status = end, !.at = now + RetryTicks] \in Job
      BY <3>1, JobFields DEF Status
    <3>3. job' = [job EXCEPT ![k] = [job[k] EXCEPT !.status = end, !.at = now + RetryTicks]]
      BY <2>11 DEF MarkFailed
    <3>4. job' \in [Key -> Job]
      BY <3>2, <3>3
    <3>5. QED
      BY <2>11, <2>b, <3>4 DEF MarkFailed, TaskTable
  <2>12. CASE DispatchRaises(w, k)
    <3>1. task' \in TaskTable
      BY <2>12, <2>a, GotoType DEF DispatchRaises, Step
    <3>2. QED
      BY <2>12, <3>1 DEF DispatchRaises, TaskTable
  <2>13. CASE MarkRaises(w, k)
    BY <2>13, <2>b DEF MarkRaises, TaskTable
  <2>14. QED
    BY <1>7, <2>1, <2>2, <2>3, <2>4, <2>5, <2>6, <2>7, <2>8, <2>9, <2>10,
       <2>11, <2>12, <2>13 DEF TaskStep
<1>8. ASSUME NEW k \in Child, DeleteNotification(k)
      PROVE  TypeOK'
  BY <1>8 DEF DeleteNotification, TypeOK, publisherVars
<1>9. CASE Tick
  BY <1>9, QueueAssumption DEF Tick, TypeOK, publisherVars, queueVars
<1>10. CASE UNCHANGED vars
  BY <1>10 DEF vars, TypeOK
<1>11. QED
  BY <1>1, <1>2, <1>3, <1>4, <1>5, <1>6, <1>7, <1>8, <1>9, <1>10
     DEF Next, PublisherNext

(* The columns of the tables and the local state of the workers keep their *)
(* types, on either claim path.                                            *)
THEOREM TypeCorrect == Spec => []TypeOK
<1>1. Init => TypeOK
  BY QueueAssumption
     DEF Init, TypeOK, NoDate, Job, Status, Task, Step, NoTask
<1>2. QED
  BY <1>1, TypeStep, PTL DEF Spec
-----------------------------------------------------------------------------
(* The inductive invariant QueueInv, job by job: a step of a worker or of  *)
(* a request touches the row, the tasks and the inbox of few keys.         *)
KeyInv(k) ==
  /\ \A w \in Workers :
       /\ task[w][k].step \notin {"selected", "refresh"}
       /\ task[w][k].step \in {"insert", "push"} => ~IsParent(k)
       /\ task[w][k].step = "enqueue" => IsParent(k)
       /\ Holds(w, k) =>
            /\ job[k].status = "processing"
            /\ task[w][k].attempts = job[k].attempts
            /\ \A v \in Workers : Holds(v, k) => v = w
  /\ job[k].attempts <= MaxAttempts
  /\ job[k].status \in {"absent", "pending"} => job[k].attempts = 0
  /\ job[k].status = "failed" => job[k].attempts < MaxAttempts
  /\ job[k].status = "dead" => job[k].attempts = MaxAttempts
  /\ k \in Child =>
       /\ inbox[k] <= 1 /\ pushes[k] <= 1
       /\ job[k].status \in {"absent", "pending", "failed"} => Untold(k)
       /\ \A w \in Workers :
            /\ task[w][k].step \in {"claimed", "eligible", "insert", "failed"} => Untold(k)
            /\ task[w][k].step = "push" => pushes[k] = 0

LEMMA QueueInvByKey == QueueInv <=> \A k \in Key : KeyInv(k)
BY KeyForms
   DEF QueueInv, KeyInv, ClaimExclusive, HoldersKnowTheJob, UntoldUntilInsert,
       AttemptsMatchStatus, AttemptsBounded, FailedIsRetryable, NoDuplicateDelivery,
       Holds

LEMMA QueueInvByKeyNext == QueueInv' <=> \A k \in Key : KeyInv(k)'
BY KeyForms
   DEF QueueInv, KeyInv, ClaimExclusive, HoldersKnowTheJob, UntoldUntilInsert,
       AttemptsMatchStatus, AttemptsBounded, FailedIsRetryable, NoDuplicateDelivery,
       Holds, Untold

(* A step that leaves the row, the tasks and the deliveries of a key alone *)
(* preserves the invariant of that key.                                    *)
LEMMA Frame ==
  ASSUME NEW k \in Key, KeyInv(k), job'[k] = job[k],
         \A w \in Workers : task'[w][k] = task[w][k],
         k \in Child => inbox'[k] = inbox[k] /\ pushes'[k] = pushes[k]
  PROVE  KeyInv(k)'
BY DEF KeyInv, Holds, Untold

(* Replacing one task of the table leaves the others as they are.          *)
LEMMA OtherTasks ==
  ASSUME NEW T \in TaskTable, NEW w \in Workers, NEW k \in Key, NEW t,
         NEW v \in Workers, NEW j \in Key
  PROVE  [T EXCEPT ![w][k] = t][v][j] = IF v = w /\ j = k THEN t ELSE T[v][j]
BY DEF TaskTable

(* A worker's call about one job: the invariant of the other keys is kept, *)
(* so only the key of that job needs an argument.                          *)
LEMMA OneKey ==
  ASSUME TypeOK, QueueInv, NEW w \in Workers, NEW k \in Key,
         \A v \in Workers, j \in Key : (v # w \/ j # k) => task'[v][j] = task[v][j],
         \A j \in Key \ {k} : job'[j] = job[j],
         \A j \in Child \ {k} : inbox'[j] = inbox[j] /\ pushes'[j] = pushes[j],
         KeyInv(k)'
  PROVE  QueueInv'
<1>1. ASSUME NEW j \in Key \ {k}
      PROVE  KeyInv(j)'
  BY QueueInvByKey, Frame
<1>2. QED
  BY <1>1, QueueInvByKeyNext

(* The calls that only advance a task that is being executed.              *)
LEMMA GotoKeeps ==
  ASSUME TypeOK, QueueInv, NEW w \in Workers, NEW k \in Key, NEW step \in Step,
         Holds(w, k), Goto(w, k, step),
         step \notin {"none", "selected", "refresh", "insert", "push", "enqueue"},
         step \in {"claimed", "eligible", "failed"} =>
           task[w][k].step \in {"claimed", "eligible"} \/ IsParent(k),
         UNCHANGED <<job, inbox, pushes>>
  PROVE  QueueInv'
<1>1. task \in TaskTable
  BY DEF TypeOK, TaskTable
<1>2. task' = [task EXCEPT ![w][k] = [task[w][k] EXCEPT !.step = step]]
  BY DEF Goto
<1>3. \A v \in Workers, j \in Key : (v # w \/ j # k) => task'[v][j] = task[v][j]
  BY <1>1, <1>2, OtherTasks
<1>4. /\ task'[w][k].step = step
      /\ task'[w][k].attempts = task[w][k].attempts
  BY <1>1, <1>2 DEF TaskTable, Task
<1>5. KeyInv(k)'
  BY <1>3, <1>4, QueueInvByKey, KeyForms DEF KeyInv, Holds, Untold, Step
<1>6. QED
  BY <1>3, <1>5, OneKey
(* A claim through _CLAIM_SQL takes only keys that nobody holds.           *)
LEMMA ClaimKeeps ==
  ASSUME DirectPostgres, TypeOK, QueueInv, NEW w \in Workers,
         NEW kind \in {"parents", "recipients"}, ClaimJobs(w, kind)
  PROVE  QueueInv'
<1>1. PICK B \in Batches({k \in Due(kind) : AttemptsLeft(k)}) : ClaimSql(w, kind)!(B)
  BY DEF ClaimJobs, ClaimSql
<1>2. ASSUME NEW k \in Key
      PROVE  KeyInv(k)'
  <2>1. KeyInv(k)
    BY QueueInvByKey
  <2>2. \A v \in Workers \ {w} : task'[v][k] = task[v][k]
    BY <1>1 DEF TypeOK
  <2>3. inbox' = inbox /\ pushes' = pushes
    BY DEF ClaimJobs
  <2>4. CASE k \in B
    <3>1. /\ job[k].status \in {"pending", "failed"}
          /\ job[k].attempts < MaxAttempts
      BY <2>4 DEF Batches, Due, AttemptsLeft
    <3>2. job'[k] = [job[k] EXCEPT !.status = "processing", !.attempts = @ + 1]
      BY <1>1, <2>4
    <3>3. /\ job'[k].status = "processing"
          /\ job'[k].attempts = job[k].attempts + 1
      BY <3>2 DEF TypeOK, Job
    <3>4. task'[w][k] = Held(k, "claimed")
      BY <1>1, <2>4 DEF TypeOK
    <3>5. /\ task'[w][k].step = "claimed"
          /\ task'[w][k].attempts = job'[k].attempts
      BY <3>3, <3>4 DEF Held
    <3>6. job[k].attempts \in Nat /\ MaxAttempts \in Nat
      BY QueueAssumption DEF TypeOK, Job
    <3>7. \A v \in Workers : ~Holds(v, k)
      BY <2>1, <3>1 DEF KeyInv
    <3>8. QED
      BY <2>1, <2>2, <2>3, <3>1, <3>3, <3>5, <3>6, <3>7 DEF KeyInv, Holds, Untold
  <2>5. CASE k \notin B
    <3>1. job'[k] = job[k]
      BY <1>1, <2>5
    <3>2. task'[w][k] = NoTask
      BY <1>1, <2>5 DEF TypeOK
    <3>3. task'[w][k].step = "none"
      BY <3>2 DEF NoTask
    <3>4. QED
      BY <2>1, <2>2, <2>3, <3>1, <3>3 DEF KeyInv, Holds, Untold
  <2>6. QED
    BY <2>4, <2>5
<1>3. QED
  BY <1>2, QueueInvByKeyNext

(* An upsert that ignores duplicates: the row is new, or nothing changes.  *)
LEMMA EnqueueKeeps ==
  ASSUME TypeOK, NEW k \in Key, KeyInv(k), NEW at \in Nat,
         NEW key \in Key, job' = Enqueued(key, at),
         \A v \in Workers :
           /\ task'[v][k].step = task[v][k].step
           /\ task'[v][k].attempts = task[v][k].attempts,
         UNCHANGED <<inbox, pushes>>
  PROVE  KeyInv(k)'
<1>1. CASE key = k /\ job[k].status = "absent"
  <2>1. job'[k] = [status |-> "pending", attempts |-> 0, at |-> at]
    BY <1>1 DEF Enqueued, TypeOK
  <2>2. \A v \in Workers : ~Holds(v, k)
    BY <1>1 DEF KeyInv
  <2>3. QED
    BY <1>1, <2>1, <2>2, QueueAssumption DEF KeyInv, Holds, Untold
<1>2. CASE ~(key = k /\ job[k].status = "absent")
  <2>1. job'[k] = job[k]
    BY <1>2 DEF Enqueued, TypeOK
  <2>2. QED
    BY <2>1 DEF KeyInv, Holds, Untold
<1>3. QED
  BY <1>1, <1>2

(* The calls of a worker about the job k.                                  *)
LEMMA WorkerKeeps ==
  ASSUME DirectPostgres, TypeOK, QueueInv, NEW w \in Workers, NEW k \in Key,
         TaskStep(w, k) \/ DispatchRaises(w, k) \/ MarkRaises(w, k)
  PROVE  QueueInv'
<1>1. task \in TaskTable /\ KeyInv(k)
  BY QueueInvByKey DEF TypeOK, TaskTable
<1>2. ASSUME NEW t, task' = [task EXCEPT ![w][k] = t]
      PROVE  /\ task'[w][k] = t
             /\ \A v \in Workers, j \in Key : (v # w \/ j # k) => task'[v][j] = task[v][j]
  BY <1>1, <1>2, OtherTasks
<1>3. CASE MarkProcessing(w, k)
  BY <1>1, <1>3 DEF MarkProcessing, KeyInv
<1>4. CASE CheckEligible(w, k)
  BY <1>4, GotoKeeps DEF CheckEligible, MayStart, Holds, Step
<1>5. CASE ResolveRecipients(w, k)
  <2>1. PICK recipients \in SUBSET Users : ResolveRecipients(w, k)!3!(recipients)
    BY <1>5 DEF ResolveRecipients
  <2>2. task' = [task EXCEPT ![w][k] =
          [task[w][k] EXCEPT !.step = "enqueue", !.todo = recipients]]
    BY <1>1, <2>1 DEF TaskTable
  <2>3. /\ task'[w][k].step = "enqueue"
        /\ task'[w][k].attempts = task[w][k].attempts
    BY <1>1, <1>2, <2>2 DEF TaskTable, Task
  <2>4. IsParent(k) /\ k \notin Child /\ Holds(w, k) /\ UNCHANGED <<job, inbox, pushes>>
    BY <1>5, KeyForms DEF ResolveRecipients, Holds
  <2>5. KeyInv(k)'
    BY <1>1, <1>2, <2>2, <2>3, <2>4 DEF KeyInv, Holds
  <2>6. QED
    BY <1>2, <2>2, <2>4, <2>5, OneKey
<1>6. ASSUME NEW u \in Users, EnqueueRecipient(w, k, u)
      PROVE  QueueInv'
  <2>1. task' = [task EXCEPT ![w][k] = [task[w][k] EXCEPT !.todo = @ \ {u}]]
    BY <1>1, <1>6 DEF EnqueueRecipient, TaskTable
  <2>2. \A v \in Workers, j \in Key :
          /\ task'[v][j].step = task[v][j].step
          /\ task'[v][j].attempts = task[v][j].attempts
    BY <1>1, <1>2, <2>1 DEF TaskTable, Task
  <2>3. now \in Nat /\ <<k[1], u>> \in Key
    BY KeyForms, QueueAssumption DEF TypeOK
  <2>4. QED
    BY <1>6, <2>2, <2>3, EnqueueKeeps, QueueInvByKey, QueueInvByKeyNext
       DEF EnqueueRecipient
<1>7. CASE RecipientsEnqueued(w, k)
  BY <1>7, GotoKeeps DEF RecipientsEnqueued, Holds, Step
<1>8. CASE FindExisting(w, k)
  <2>1. k \in Child /\ inbox[k] = 0 /\ Holds(w, k)
    BY <1>1, <1>8, KeyForms DEF FindExisting, KeyInv, Untold, Holds
  <2>2. CASE Goto(w, k, "finish")
    BY <1>8, <2>1, <2>2, GotoKeeps DEF FindExisting, Step
  <2>3. ASSUME NEW enabled \in BOOLEAN,
               task' = [task EXCEPT ![w][k].step = "insert", ![w][k].push = enabled]
        PROVE  QueueInv'
    <3>1. task' = [task EXCEPT ![w][k] =
            [task[w][k] EXCEPT !.step = "insert", !.push = enabled]]
      BY <1>1, <2>3 DEF TaskTable
    <3>2. /\ task'[w][k].step = "insert"
          /\ task'[w][k].attempts = task[w][k].attempts
      BY <1>1, <1>2, <3>1 DEF TaskTable, Task
    <3>3. KeyInv(k)'
      BY <1>1, <1>2, <1>8, <3>1, <3>2 DEF FindExisting, KeyInv, Holds, Untold
    <3>4. QED
      BY <1>2, <1>8, <3>1, <3>3, OneKey DEF FindExisting
  <2>4. QED
    BY <1>8, <2>1, <2>2, <2>3 DEF FindExisting
<1>9. CASE PersistNotification(w, k)
  <2>1. PICK step \in {"push", "finish"} : Goto(w, k, step)
    BY <1>9 DEF PersistNotification, AfterInsert
  <2>2. task' = [task EXCEPT ![w][k] = [task[w][k] EXCEPT !.step = step]]
    BY <2>1 DEF Goto
  <2>3. /\ task'[w][k].step = step
        /\ task'[w][k].attempts = task[w][k].attempts
    BY <1>1, <1>2, <2>2 DEF TaskTable, Task
  <2>4. Holds(w, k) /\ k \in Child
    BY <1>1, <1>9, KeyForms DEF PersistNotification, Holds, KeyInv
  <2>5. inbox[k] = 0 /\ pushes[k] = 0 /\ inbox'[k] \in {0, 1} /\ pushes' = pushes
    BY <1>1, <1>9, <2>4 DEF PersistNotification, KeyInv, Untold, TypeOK
  <2>6. KeyInv(k)'
    BY <1>1, <1>2, <1>9, <2>2, <2>3, <2>4, <2>5
       DEF PersistNotification, KeyInv, Holds, Untold
  <2>7. \A j \in Child \ {k} : inbox'[j] = inbox[j]
    BY <1>9 DEF PersistNotification, TypeOK
  <2>8. QED
    BY <1>2, <1>9, <2>2, <2>6, <2>7, OneKey DEF PersistNotification
<1>10. CASE RefreshNotification(w, k)
  BY <1>1, <1>10 DEF RefreshNotification, KeyInv
<1>11. CASE SendPush(w, k)
  <2>1. task' = [task EXCEPT ![w][k] = [task[w][k] EXCEPT !.step = "finish"]]
    BY <1>11 DEF SendPush, Goto
  <2>2. /\ task'[w][k].step = "finish"
        /\ task'[w][k].attempts = task[w][k].attempts
    BY <1>1, <1>2, <2>1 DEF TaskTable, Task
  <2>3. Holds(w, k) /\ k \in Child
    BY <1>1, <1>11, KeyForms DEF SendPush, Holds, KeyInv
  <2>4. pushes[k] = 0 /\ pushes'[k] \in {0, 1} /\ inbox' = inbox
    BY <1>1, <1>11, <2>3 DEF SendPush, KeyInv, TypeOK
  <2>5. KeyInv(k)'
    BY <1>1, <1>2, <1>11, <2>1, <2>2, <2>3, <2>4
       DEF SendPush, KeyInv, Holds, Untold
  <2>6. \A j \in Child \ {k} : pushes'[j] = pushes[j]
    BY <1>11 DEF SendPush, TypeOK
  <2>7. QED
    BY <1>2, <1>11, <2>1, <2>5, <2>6, OneKey DEF SendPush
<1>12. CASE MarkDone(w, k)
  <2>1. task'[w][k].step = "none" /\ job'[k].status = "done"
        /\ job'[k].attempts = job[k].attempts
    BY <1>2, <1>12 DEF MarkDone, Drop, NoTask, TypeOK, Job
  <2>2. Holds(w, k)
    BY <1>12 DEF MarkDone, Holds
  <2>3. KeyInv(k)'
    BY <1>1, <1>2, <1>12, <2>1, <2>2 DEF MarkDone, Drop, KeyInv, Holds, Untold
  <2>4. \A j \in Key \ {k} : job'[j] = job[j]
    BY <1>12 DEF MarkDone, TypeOK
  <2>5. QED
    BY <1>2, <1>12, <2>3, <2>4, OneKey DEF MarkDone, Drop
<1>13. CASE MarkFailed(w, k)
  <2>1. task'[w][k].step = "none"
    <3>1. task' = [task EXCEPT ![w][k] = NoTask]
      BY <1>13 DEF MarkFailed, Drop
    <3>2. task'[w][k] = NoTask
      BY <1>2, <3>1
    <3>3. QED
      BY <3>2 DEF NoTask
  <2>2. Holds(w, k) /\ task[w][k].attempts = job[k].attempts
    BY <1>1, <1>13 DEF MarkFailed, Holds, KeyInv
  <2>3. /\ job'[k].status = IF job[k].attempts >= MaxAttempts THEN "dead" ELSE "failed"
        /\ job'[k].attempts = job[k].attempts
    BY <1>13, <2>2 DEF MarkFailed, TypeOK, Job
  <2>4. job[k].attempts \in Nat /\ MaxAttempts \in Nat
    BY QueueAssumption DEF TypeOK, Job
  <2>5. KeyInv(k)'
    BY <1>1, <1>2, <1>13, <2>1, <2>2, <2>3, <2>4
       DEF MarkFailed, Drop, KeyInv, Holds, Untold
  <2>6. \A j \in Key \ {k} : job'[j] = job[j]
    BY <1>13 DEF MarkFailed, TypeOK
  <2>7. QED
    BY <1>2, <1>13, <2>5, <2>6, OneKey DEF MarkFailed, Drop
<1>14. CASE DispatchRaises(w, k)
  <2>1. Goto(w, k, "failed") /\ UNCHANGED <<job, inbox, pushes>>
    BY <1>14 DEF DispatchRaises
  <2>2. task[w][k].step \in {"claimed", "eligible"} \/ IsParent(k)
    BY <1>1, <1>14 DEF DispatchRaises, MayStart, KeyInv
  <2>3. Holds(w, k)
    BY <1>14 DEF DispatchRaises, MayStart, Holds
  <2>4. QED
    BY <2>1, <2>2, <2>3, GotoKeeps DEF Step
<1>15. CASE MarkRaises(w, k)
  <2>1. task'[w][k].step = "none"
    <3>1. task' = [task EXCEPT ![w][k] = NoTask]
      BY <1>15 DEF MarkRaises, Drop
    <3>2. task'[w][k] = NoTask
      BY <1>2, <3>1
    <3>3. QED
      BY <3>2 DEF NoTask
  <2>2. KeyInv(k)'
    BY <1>1, <1>2, <1>15, <2>1 DEF MarkRaises, Drop, KeyInv, Holds, Untold
  <2>3. QED
    BY <1>2, <1>15, <2>2, OneKey DEF MarkRaises, Drop
<1>16. QED
  BY <1>3, <1>4, <1>5, <1>6, <1>7, <1>8, <1>9, <1>10, <1>11, <1>12, <1>13,
     <1>14, <1>15 DEF TaskStep

LEMMA QueueStep ==
  ASSUME DirectPostgres
  PROVE  TypeOK /\ QueueInv /\ [Next]_vars => QueueInv'
<1> SUFFICES ASSUME TypeOK, QueueInv, [Next]_vars
             PROVE  QueueInv'
  OBVIOUS
<1>1. ASSUME UNCHANGED <<job, task, inbox, pushes>>
      PROVE  QueueInv'
  BY <1>1, QueueInvByKey, QueueInvByKeyNext, Frame
<1>2. ASSUME NEW f \in Flyers, EnqueueFlyerPublished(f)
      PROVE  QueueInv'
  <2>1. NotifyAt(flyer[f].from) \in Nat
    BY NotifyAtIsTime DEF TypeOK
  <2>2. QED
    BY <1>2, <2>1, KeyForms, EnqueueKeeps, QueueInvByKey, QueueInvByKeyNext
       DEF EnqueueFlyerPublished
<1>3. ASSUME NEW f \in Flyers, RescheduleFlyerPublished(f)
      PROVE  QueueInv'
  <2>1. \A k \in Key : /\ job'[k].status = job[k].status
                       /\ job'[k].attempts = job[k].attempts
    BY <1>3, KeyForms DEF RescheduleFlyerPublished, TypeOK, Job
  <2>2. UNCHANGED <<task, inbox, pushes>>
    BY <1>3 DEF RescheduleFlyerPublished
  <2>3. QED
    BY <2>1, <2>2, QueueInvByKey, QueueInvByKeyNext DEF KeyInv, Holds, Untold
<1>4. ASSUME NEW f \in Flyers,
             \/ DeleteFlyer(f) \/ RequestDies(f)
             \/ \E window \in Windows : PublishTargetFlyer(f, window) \/ SyncValidity(f, window)
      PROVE  QueueInv'
  BY <1>1, <1>4
     DEF DeleteFlyer, RequestDies, PublishTargetFlyer, SyncValidity, queueVars
<1>5. ASSUME NEW w \in Workers, PassStep(w)
      PROVE  QueueInv'
  <2>1. CASE ClaimParents(w)
    BY <2>1, ClaimKeeps DEF ClaimParents
  <2>2. CASE ClaimRecipients(w)
    BY <2>2, ClaimKeeps DEF ClaimRecipients
  <2>3. CASE EndPass(w)
    BY <1>1, <2>3 DEF EndPass
  <2>4. QED
    BY <1>5, <2>1, <2>2, <2>3 DEF PassStep
<1>6. ASSUME NEW w \in Workers, Crash(w)
      PROVE  QueueInv'
  <2>1. \A k \in Key : task'[w][k].step = "none"
    BY <1>6 DEF Crash, TypeOK, NoTask
  <2>2. \A v \in Workers \ {w} : task'[v] = task[v]
    BY <1>6 DEF Crash, TypeOK
  <2>3. UNCHANGED <<job, inbox, pushes>>
    BY <1>6 DEF Crash
  <2>4. ASSUME NEW k \in Key
        PROVE  KeyInv(k)'
    BY <2>1, <2>2, <2>3, QueueInvByKey DEF KeyInv, Holds, Untold
  <2>5. QED
    BY <2>4, QueueInvByKeyNext
<1>7. ASSUME NEW w \in Workers, NEW k \in Key,
             TaskStep(w, k) \/ DispatchRaises(w, k) \/ MarkRaises(w, k)
      PROVE  QueueInv'
  BY <1>7, WorkerKeeps
<1>8. ASSUME NEW k \in Child, DeleteNotification(k)
      PROVE  QueueInv'
  <2>1. \A j \in Child : inbox'[j] \in {0, inbox[j]}
    BY <1>8 DEF DeleteNotification, TypeOK
  <2>2. UNCHANGED <<job, task, pushes>>
    BY <1>8 DEF DeleteNotification
  <2>3. ASSUME NEW j \in Key
        PROVE  KeyInv(j)'
    BY <2>1, <2>2, QueueInvByKey DEF KeyInv, Holds, Untold
  <2>4. QED
    BY <2>3, QueueInvByKeyNext
<1>9. CASE Tick
  BY <1>1, <1>9 DEF Tick, queueVars
<1>10. CASE UNCHANGED vars
  BY <1>1, <1>10 DEF vars
<1>11. QED
  BY <1>2, <1>3, <1>4, <1>5, <1>6, <1>7, <1>8, <1>9, <1>10
     DEF Next, PublisherNext

(* With _CLAIM_SQL, whatever crashes or fails, the inductive invariant of  *)
(* the queue holds.                                                        *)
THEOREM QueueInvariant ==
  ASSUME DirectPostgres
  PROVE  Spec => []QueueInv
<1>1. Init => QueueInv
  BY QueueAssumption
     DEF Init, QueueInv, ClaimExclusive, HoldersKnowTheJob, UntoldUntilInsert,
         AttemptsMatchStatus, AttemptsBounded, FailedIsRetryable,
         NoDuplicateDelivery, Holds, Untold, NoTask
<1>2. TypeOK /\ QueueInv /\ [Next]_vars => QueueInv'
  BY QueueStep
<1>3. QED
  BY <1>1, <1>2, TypeCorrect, PTL DEF Spec

(* With _CLAIM_SQL, a job in execution is in status processing and has one *)
(* holder, for any number of overlapping drains and crashes.               *)
THEOREM ClaimsAreExclusive ==
  ASSUME DirectPostgres
  PROVE  Spec => []ClaimExclusive
<1>1. QueueInv => ClaimExclusive
  BY DEF QueueInv
<1>2. QED
  BY <1>1, QueueInvariant, PTL

(* With _CLAIM_SQL, no recipient ever has two inbox rows for a flyer or is *)
(* sent two pushes, whatever is retried.                                   *)
THEOREM DeliveredAtMostOnce ==
  ASSUME DirectPostgres
  PROVE  Spec => []NoDuplicateDelivery
<1>1. QueueInv => NoDuplicateDelivery
  BY DEF QueueInv
<1>2. QED
  BY <1>1, QueueInvariant, PTL

(* With _CLAIM_SQL, a failed job is always one the claim query can select  *)
(* again, and a job is dead only after all its attempts.                   *)
THEOREM FailedJobsAreRetryable ==
  ASSUME DirectPostgres
  PROVE  Spec => []FailedIsRetryable
<1>1. QueueInv => FailedIsRetryable
  BY DEF QueueInv
<1>2. QED
  BY <1>1, QueueInvariant, PTL

-----------------------------------------------------------------------------
(* A job that is done or dead is held by nobody and is never due, so no    *)
(* step writes its row.                                                    *)
LEMMA SettledStep ==
  ASSUME DirectPostgres
  PROVE  TypeOK /\ QueueInv /\ [Next]_vars =>
           [\A k \in Key : (job[k].status \in {"done", "dead"}) => job'[k] = job[k]]_vars
<1> SUFFICES ASSUME TypeOK, QueueInv, Next, NEW k \in Key,
                    job[k].status \in {"done", "dead"}
             PROVE  job'[k] = job[k]
  OBVIOUS
<1>1. \A w \in Workers : ~Holds(w, k) /\ task[w][k].step # "selected"
  BY QueueInvByKey DEF KeyInv
<1>2. ASSUME NEW key \in Key, NEW at, job' = Enqueued(key, at)
      PROVE  job'[k] = job[k]
  BY <1>2 DEF Enqueued, TypeOK
<1>3. ASSUME NEW w \in Workers, NEW kind \in {"parents", "recipients"},
             ClaimJobs(w, kind)
      PROVE  job'[k] = job[k]
  <2>1. PICK B \in Batches({j \in Due(kind) : AttemptsLeft(j)}) : ClaimSql(w, kind)!(B)
    BY <1>3 DEF ClaimJobs, ClaimSql
  <2>2. k \notin B
    BY DEF Batches, Due
  <2>3. QED
    BY <2>1, <2>2
<1>4. ASSUME NEW w \in Workers, NEW j \in Key,
             TaskStep(w, j) \/ DispatchRaises(w, j) \/ MarkRaises(w, j)
      PROVE  job'[k] = job[k]
  <2>1. CASE MarkProcessing(w, j) \/ MarkDone(w, j) \/ MarkFailed(w, j)
    <3>1. j # k
      BY <1>1, <2>1 DEF MarkProcessing, MarkDone, MarkFailed, Holds
    <3>2. QED
      BY <2>1, <3>1 DEF MarkProcessing, MarkDone, MarkFailed, TypeOK
  <2>2. ASSUME NEW u \in Users, EnqueueRecipient(w, j, u)
        PROVE  job'[k] = job[k]
    BY <1>2, <2>2, KeyForms DEF EnqueueRecipient
  <2>3. QED
    BY <1>4, <2>1, <2>2
       DEF TaskStep, CheckEligible, ResolveRecipients, RecipientsEnqueued,
           FindExisting, PersistNotification, RefreshNotification, SendPush,
           DispatchRaises, MarkRaises
<1>5. ASSUME NEW f \in Flyers, RescheduleFlyerPublished(f)
      PROVE  job'[k] = job[k]
  BY <1>5, KeyForms DEF RescheduleFlyerPublished, TypeOK
<1>6. ASSUME NEW f \in Flyers, EnqueueFlyerPublished(f)
      PROVE  job'[k] = job[k]
  BY <1>2, <1>6, KeyForms DEF EnqueueFlyerPublished
<1>7. QED
  BY <1>3, <1>4, <1>5, <1>6
     DEF Next, PublisherNext, PublishTargetFlyer, SyncValidity, DeleteFlyer,
         RequestDies, PassStep, ClaimParents, ClaimRecipients, EndPass, Crash,
         DeleteNotification, Tick, queueVars

(* With _CLAIM_SQL, a job that ended stays exactly as it ended: a second   *)
(* publication, a reschedule or another drain never brings it back.        *)
THEOREM SettledJobsStay ==
  ASSUME DirectPostgres
  PROVE  Spec => SettledForever
<1>1. TypeOK /\ QueueInv /\ [Next]_vars =>
        [\A k \in Key : (job[k].status \in {"done", "dead"}) => job'[k] = job[k]]_vars
  BY SettledStep
<1>2. QED
  BY <1>1, TypeCorrect, QueueInvariant, PTL DEF Spec, SettledForever

-----------------------------------------------------------------------------
(* The queue on the path of _CLAIM_SQL implements NotificationPromise:     *)
(* every step of the queue maps to one step of the promise to one          *)
(* recipient, or to none.                                                  *)

(* The refinement mapping of Promise.                                      *)
Stored == {k \in Child : inbox[k] > 0}
Pushed == {k \in Child : pushes[k] > 0}
Closed == {k \in Child : job[k].status \in {"done", "dead"}}
PromiseStep == [Promise!Next]_<<Stored, Pushed, Closed>>

(* A step that neither delivers nor ends a job is a stutter of the promise. *)
LEMMA Stutters ==
  ASSUME UNCHANGED <<inbox, pushes>>,
         \A k \in Key : (job'[k].status \in {"done", "dead"})
                          <=> (job[k].status \in {"done", "dead"})
  PROVE  PromiseStep
<1>1. Closed' = Closed
  BY KeyForms DEF Closed
<1>2. QED
  BY <1>1 DEF PromiseStep, Stored, Pushed

(* A step that sets the status of one job that was running closes that     *)
(* notification, when the job is a recipient's and has ended.              *)
LEMMA Settling ==
  ASSUME TypeOK, NEW k \in Key, job[k].status = "processing", NEW row \in Job,
         job' = [job EXCEPT ![k] = row], UNCHANGED <<inbox, pushes>>
  PROVE  PromiseStep
<1>1. CASE k \in Child /\ row.status \in {"done", "dead"}
  <2>1. Closed' = Closed \cup {k}
    BY <1>1, KeyForms DEF Closed, TypeOK
  <2>2. k \notin Closed
    BY DEF Closed
  <2>3. Promise!Close(k)
    BY <2>1, <2>2 DEF Promise!Close, Closed, Stored, Pushed
  <2>4. QED
    BY <1>1, <2>3 DEF PromiseStep, Promise!Next
<1>2. CASE ~(k \in Child /\ row.status \in {"done", "dead"})
  <2>1. Closed' = Closed
    BY <1>2, KeyForms DEF Closed, TypeOK
  <2>2. QED
    BY <2>1 DEF PromiseStep, Stored, Pushed
<1>3. QED
  BY <1>1, <1>2

(* A new job is not settled, and an existing one is left alone.            *)
LEMMA EnqueuingStutters ==
  ASSUME TypeOK, NEW k \in Key, NEW at, job' = Enqueued(k, at),
         UNCHANGED <<inbox, pushes>>
  PROVE  PromiseStep
<1>1. \A j \in Key : (job'[j].status \in {"done", "dead"})
                       <=> (job[j].status \in {"done", "dead"})
  BY DEF Enqueued, TypeOK
<1>2. QED
  BY <1>1, Stutters

(* A claim takes jobs that wait and settles none.                          *)
LEMMA ClaimingStutters ==
  ASSUME DirectPostgres, TypeOK, NEW w \in Workers,
         NEW kind \in {"parents", "recipients"}, ClaimJobs(w, kind)
  PROVE  PromiseStep
<1>1. PICK B \in Batches({j \in Due(kind) : AttemptsLeft(j)}) : ClaimSql(w, kind)!(B)
  BY DEF ClaimJobs, ClaimSql
<1>2. \A k \in B : job[k].status \in {"pending", "failed"}
  BY DEF Batches, Due
<1>3. \A k \in Key : (job'[k].status \in {"done", "dead"})
                       <=> (job[k].status \in {"done", "dead"})
  BY <1>1, <1>2 DEF TypeOK, Job
<1>4. QED
  BY <1>3, Stutters DEF ClaimJobs

(* The insert into the inbox finds nothing stored, sent or ended, so it is *)
(* the Store of the promise; a swallowed failure is a stutter.             *)
LEMMA Persisting ==
  ASSUME TypeOK, QueueInv, NEW w \in Workers, NEW k \in Key, PersistNotification(w, k)
  PROVE  PromiseStep
<1>1. k \in Child /\ Untold(k) /\ job[k].status = "processing"
  BY KeyForms DEF PersistNotification, QueueInv, HoldersKnowTheJob, UntoldUntilInsert,
     ClaimExclusive, Holds
<1>2. CASE inbox' = [inbox EXCEPT ![k] = @ + 1]
  <2>1. Stored' = Stored \cup {k}
    BY <1>1, <1>2 DEF Stored, TypeOK, Untold
  <2>2. k \notin Stored \cup Pushed \cup Closed
    BY <1>1 DEF Stored, Pushed, Closed, Untold
  <2>3. Promise!Store(k)
    BY <2>1, <2>2 DEF PersistNotification, Promise!Store, Stored, Pushed, Closed
  <2>4. QED
    BY <1>1, <2>3 DEF PromiseStep, Promise!Next
<1>3. CASE UNCHANGED inbox
  BY <1>3, Stutters DEF PersistNotification
<1>4. QED
  BY <1>2, <1>3 DEF PersistNotification

(* The push goes to a recipient who was sent none and whose job runs.      *)
LEMMA Pushing ==
  ASSUME TypeOK, QueueInv, NEW w \in Workers, NEW k \in Key, SendPush(w, k)
  PROVE  PromiseStep
<1>1. k \in Child /\ pushes[k] = 0 /\ job[k].status = "processing"
  BY KeyForms DEF SendPush, QueueInv, HoldersKnowTheJob, UntoldUntilInsert,
     ClaimExclusive, Holds
<1>2. CASE pushes' = [pushes EXCEPT ![k] = @ + 1]
  <2>1. Pushed' = Pushed \cup {k}
    BY <1>1, <1>2 DEF Pushed, TypeOK
  <2>2. k \notin Pushed \cup Closed
    BY <1>1 DEF Pushed, Closed
  <2>3. Promise!Push(k)
    BY <2>1, <2>2 DEF SendPush, Promise!Push, Stored, Pushed, Closed
  <2>4. QED
    BY <1>1, <2>3 DEF PromiseStep, Promise!Next
<1>3. CASE UNCHANGED pushes
  BY <1>3, Stutters DEF SendPush
<1>4. QED
  BY <1>2, <1>3 DEF SendPush

(* Deleting a notification is the Discard of the promise.                  *)
LEMMA Discarding ==
  ASSUME TypeOK, NEW k \in Child, DeleteNotification(k)
  PROVE  PromiseStep
<1>1. k \in Stored
  BY DEF DeleteNotification, Stored
<1>2. Stored' = Stored \ {k}
  BY DEF DeleteNotification, Stored, TypeOK
<1>3. Promise!Discard(k)
  BY <1>1, <1>2 DEF DeleteNotification, queueVars, Promise!Discard, Stored, Pushed, Closed
<1>4. QED
  BY <1>3 DEF PromiseStep, Promise!Next

(* A worker's call about one job.                                          *)
LEMMA TaskKeepsPromise ==
  ASSUME DirectPostgres, TypeOK, QueueInv, NEW w \in Workers, NEW k \in Key,
         TaskStep(w, k) \/ DispatchRaises(w, k) \/ MarkRaises(w, k)
  PROVE  PromiseStep
<1>1. CASE MarkDone(w, k) \/ MarkFailed(w, k)
  <2>1. job[k].status = "processing"
    BY <1>1 DEF MarkDone, MarkFailed, QueueInv, ClaimExclusive, Holds
  <2>2. job[k] \in Job /\ now + RetryTicks \in Nat
    BY QueueAssumption DEF TypeOK
  <2>3. CASE MarkDone(w, k)
    <3>1. [job[k] EXCEPT !.status = "done"] \in Job
      BY <2>2 DEF Job, Status
    <3>2. job' = [job EXCEPT ![k] = [job[k] EXCEPT !.status = "done"]]
      BY <2>3 DEF MarkDone
    <3>3. QED
      BY <2>1, <2>3, <3>1, <3>2, Settling DEF MarkDone
  <2>4. CASE MarkFailed(w, k)
    <3>1. PICK s \in {"dead", "failed"} :
            job' = [job EXCEPT ![k] = [job[k] EXCEPT !.status = s, !.at = now + RetryTicks]]
      BY <2>4 DEF MarkFailed
    <3>2. [job[k] EXCEPT !.status = s, !.at = now + RetryTicks] \in Job
      BY <2>2 DEF Job, Status
    <3>3. QED
      BY <2>1, <2>4, <3>1, <3>2, Settling DEF MarkFailed
  <2>5. QED
    BY <1>1, <2>3, <2>4
<1>2. CASE PersistNotification(w, k)
  BY <1>2, Persisting
<1>3. CASE SendPush(w, k)
  BY <1>3, Pushing
<1>4. ASSUME NEW u \in Users, EnqueueRecipient(w, k, u)
      PROVE  PromiseStep
  BY <1>4, EnqueuingStutters, KeyForms DEF EnqueueRecipient, Child, Key
<1>5. CASE MarkProcessing(w, k)
  BY <1>5 DEF MarkProcessing, QueueInv, HoldersKnowTheJob
<1>6. CASE UNCHANGED <<job, inbox, pushes>>
  BY <1>6, Stutters
<1>7. QED
  BY <1>1, <1>2, <1>3, <1>4, <1>5, <1>6
     DEF TaskStep, CheckEligible, ResolveRecipients, RecipientsEnqueued, FindExisting,
         RefreshNotification, DispatchRaises, MarkRaises

(* Every step of the queue is a step of the promise or a stutter.          *)
LEMMA EveryStepKeepsPromise ==
  ASSUME DirectPostgres
  PROVE  TypeOK /\ QueueInv /\ [Next]_vars => PromiseStep
<1> SUFFICES ASSUME TypeOK, QueueInv, [Next]_vars
             PROVE  PromiseStep
  OBVIOUS
<1>1. ASSUME NEW w \in Workers, PassStep(w)
      PROVE  PromiseStep
  BY <1>1, ClaimingStutters, Stutters DEF PassStep, ClaimParents, ClaimRecipients, EndPass
<1>2. ASSUME NEW w \in Workers, NEW k \in Key,
             TaskStep(w, k) \/ DispatchRaises(w, k) \/ MarkRaises(w, k)
      PROVE  PromiseStep
  BY <1>2, TaskKeepsPromise
<1>3. ASSUME NEW k \in Child, DeleteNotification(k)
      PROVE  PromiseStep
  BY <1>3, Discarding
<1>4. ASSUME NEW f \in Flyers, EnqueueFlyerPublished(f)
      PROVE  PromiseStep
  BY <1>4, EnqueuingStutters, KeyForms DEF EnqueueFlyerPublished
<1>5. ASSUME NEW f \in Flyers, RescheduleFlyerPublished(f)
      PROVE  PromiseStep
  <2>1. \A k \in Key : job'[k].status = job[k].status
    BY <1>5, KeyForms DEF RescheduleFlyerPublished, TypeOK, Job
  <2>2. QED
    BY <1>5, <2>1, Stutters DEF RescheduleFlyerPublished
<1>6. CASE UNCHANGED <<job, inbox, pushes>>
  BY <1>6, Stutters
<1>7. QED
  BY <1>1, <1>2, <1>3, <1>4, <1>5, <1>6
     DEF Next, PublisherNext, PublishTargetFlyer, SyncValidity, DeleteFlyer,
         RequestDies, Crash, Tick, queueVars, vars

(* With _CLAIM_SQL, the queue with its claims, retries, crashes and fan-out *)
(* keeps the promise to every recipient of every flyer: at most one inbox  *)
(* row, at most one push, and nothing after the job has ended.             *)
THEOREM QueueKeepsPromise ==
  ASSUME DirectPostgres
  PROVE  Spec => PromiseKept
<1>1. Init => Promise!Init
  BY KeyForms DEF Init, Promise!Init
<1>2. TypeOK /\ QueueInv /\ [Next]_vars =>
        [Promise!Next]_<<{k \in Child : inbox[k] > 0}, {k \in Child : pushes[k] > 0},
                         {k \in Child : job[k].status \in {"done", "dead"}}>>
  BY EveryStepKeepsPromise DEF PromiseStep, Stored, Pushed, Closed
<1>3. QED
  BY <1>1, <1>2, TypeCorrect, QueueInvariant, PTL DEF Spec, PromiseKept, Promise!Spec

-----------------------------------------------------------------------------
(* Nothing before 10:00, on either path of the claim and with every fault. *)

Ripe(f) ==
  f \in late \/ flyer[f].from = NoDate \/ now >= TenOClock(flyer[f].from)

(* A job exists only for a flyer that was published; unless its dates were *)
(* changed too late, it has come to its hour, or is a parent that waits    *)
(* for it; nobody works on a job, or has delivered anything, before.       *)
Known(k) == job[k].status # "absent"
OnTime(k) ==
  /\ Known(k) => /\ flyer[k[1]].state # "none"
                 /\ Ripe(k[1]) \/ (IsParent(k) /\ job[k].at >= TenOClock(flyer[k[1]].from))
  /\ \A w \in Workers : task[w][k].step # "none" => Known(k) /\ Ripe(k[1])
  /\ k \in Child /\ (inbox[k] > 0 \/ pushes[k] > 0) => Known(k) /\ Ripe(k[1])

HourInv ==
  /\ \A f \in Flyers : /\ publisher[f] = "reschedule" => f \in late
                       /\ publisher[f] = "enqueue" => flyer[f].state # "none"
  /\ \A k \in Key : OnTime(k)

LEMMA HoursAreTimes ==
  ASSUME TypeOK, NEW f \in Flyers
  PROVE  flyer[f].from \in Int /\ TenOClock(flyer[f].from) \in Int /\ now \in Nat
BY QueueAssumption DEF TypeOK, TenOClock

(* A key keeps its hour when its flyer does, unless a row, a task or a     *)
(* delivery begins before it.                                              *)
LEMMA OnTimeKept ==
  ASSUME TypeOK, now' \in Int, now' >= now, NEW k \in Key, OnTime(k),
         flyer'[k[1]].from = flyer[k[1]].from, k[1] \in late' <=> k[1] \in late,
         flyer[k[1]].state # "none" => flyer'[k[1]].state # "none",
         Known(k)' <=> Known(k),
         job'[k].at = job[k].at \/ Ripe(k[1]),
         \A w \in Workers : task'[w][k].step # "none" =>
           task[w][k].step # "none" \/ (Known(k) /\ Ripe(k[1])),
         k \in Child /\ (inbox'[k] > 0 \/ pushes'[k] > 0) =>
           inbox[k] > 0 \/ pushes[k] > 0 \/ \E w \in Workers : task[w][k].step # "none"
  PROVE  OnTime(k)'
<1>1. Ripe(k[1]) => Ripe(k[1])'
  BY HoursAreTimes, KeyForms DEF Ripe, TenOClock
<1>2. Known(k)' => /\ flyer'[k[1]].state # "none"
                   /\ \/ Ripe(k[1])'
                      \/ IsParent(k) /\ job'[k].at >= TenOClock(flyer'[k[1]].from)
  BY <1>1 DEF OnTime
<1>3. \A w \in Workers : task'[w][k].step # "none" => Known(k)' /\ Ripe(k[1])'
  BY <1>1 DEF OnTime
<1>4. k \in Child /\ (inbox'[k] > 0 \/ pushes'[k] > 0) => Known(k)' /\ Ripe(k[1])'
  BY <1>1 DEF OnTime
<1>5. QED
  BY <1>2, <1>3, <1>4 DEF OnTime, TenOClock

(* A new row waits for its hour, if that has not come.                     *)
LEMMA EnqueuedOnTime ==
  ASSUME TypeOK, HourInv, NEW key \in Key, NEW at \in Int, job' = Enqueued(key, at),
         UNCHANGED <<now, flyer, late, inbox, pushes>>,
         flyer[key[1]].state # "none",
         Ripe(key[1]) \/ (IsParent(key) /\ at >= TenOClock(flyer[key[1]].from)),
         \A w \in Workers, j \in Key : task'[w][j].step # "none" => task[w][j].step # "none"
  PROVE  \A k \in Key : OnTime(k)'
<1>1. TAKE k \in Key
<1>2. OnTime(k) /\ now \in Int /\ now' >= now
  BY HoursAreTimes, KeyForms, QueueAssumption DEF HourInv, TypeOK
<1>3. CASE key = k /\ ~Known(k)
  <2>1. job'[k] = [status |-> "pending", attempts |-> 0, at |-> at]
    BY <1>3 DEF Enqueued, Known, TypeOK
  <2>2. Ripe(k[1])' <=> Ripe(k[1])
    BY DEF Ripe, TenOClock
  <2>3. QED
    BY <1>2, <1>3, <2>1, <2>2 DEF OnTime, Known, TenOClock
<1>4. CASE ~(key = k /\ ~Known(k))
  <2>1. job'[k] = job[k]
    BY <1>4 DEF Enqueued, Known, TypeOK
  <2>2. QED
    BY <1>2, <2>1, OnTimeKept DEF Known
<1>5. QED
  BY <1>3, <1>4

(* A claim only takes rows whose time has come.                            *)
LEMMA ClaimedOnTime ==
  ASSUME TypeOK, HourInv, NEW w \in Workers, NEW kind \in {"parents", "recipients"},
         ClaimJobs(w, kind)
  PROVE  HourInv'
<1>1. \A k \in Due(kind) : Known(k) /\ Ripe(k[1])
  <2>1. TAKE k \in Due(kind)
  <2>2. k \in Key /\ Known(k) /\ job[k].at <= now /\ job[k].at \in Int
    BY DEF Due, Known, TypeOK, Job
  <2>3. QED
    BY <2>2, HoursAreTimes, KeyForms DEF HourInv, OnTime, Ripe
<1>2. \A k \in Key : /\ job'[k].at = job[k].at /\ (Known(k)' <=> Known(k))
                     /\ task'[w][k].step # "none" => k \in Due(kind)
  <2>1. CASE DirectPostgres
    <3>1. PICK B \in Batches({k \in Due(kind) : AttemptsLeft(k)}) : ClaimSql(w, kind)!(B)
      BY <2>1 DEF ClaimJobs, ClaimSql
    <3>2. B \subseteq Due(kind)
      BY DEF Batches
    <3>3. \A k \in Key : job'[k].at = job[k].at /\ (Known(k)' <=> Known(k))
      BY <1>1, <3>1, <3>2 DEF TypeOK, Job, Known
    <3>4. \A k \in Key : task'[w][k] = IF k \in B THEN Held(k, "claimed") ELSE NoTask
      BY <3>1 DEF TypeOK
    <3>5. QED
      BY <3>2, <3>3, <3>4 DEF NoTask
  <2>2. CASE ~DirectPostgres
    <3>1. PICK B \in Batches(Due(kind)) : SelectJobs(w, kind)!(B)
      BY <2>2 DEF ClaimJobs, SelectJobs
    <3>2. B \subseteq Due(kind) /\ job' = job
      BY <3>1 DEF Batches
    <3>3. \A k \in Key :
            task'[w][k] = IF k \in B /\ AttemptsLeft(k) THEN Held(k, "selected") ELSE NoTask
      BY <3>1 DEF TypeOK
    <3>4. QED
      BY <3>2, <3>3 DEF NoTask, Known
  <2>3. QED
    BY <2>1, <2>2
<1>3. \A v \in Workers \ {w} : task'[v] = task[v]
  BY DEF ClaimJobs, ClaimSql, SelectJobs, TypeOK
<1>4. now' = now /\ now \in Int /\ UNCHANGED <<flyer, publisher, late, inbox, pushes>>
  BY QueueAssumption DEF ClaimJobs, publisherVars, TypeOK
<1>5. \A k \in Key : OnTime(k)'
  <2>1. TAKE k \in Key
  <2>2. \A v \in Workers : task'[v][k].step # "none" =>
          task[v][k].step # "none" \/ (Known(k) /\ Ripe(k[1]))
    <3>1. TAKE v \in Workers
    <3>2. CASE v = w
      BY <1>1, <1>2, <3>2
    <3>3. CASE v # w
      BY <1>3, <3>3
    <3>4. QED
      BY <3>2, <3>3
  <2>3. OnTime(k) /\ job'[k].at = job[k].at /\ (Known(k)' <=> Known(k)) /\ now' >= now
    BY <1>2, <1>4 DEF HourInv
  <2>4. QED
    BY <1>4, <2>2, <2>3, OnTimeKept
<1>6. QED
  BY <1>4, <1>5 DEF HourInv

(* A call about a job that is held is made in its hour.                    *)
LEMMA WorkedOnTime ==
  ASSUME TypeOK, HourInv, NEW w \in Workers, NEW k \in Key,
         TaskStep(w, k) \/ DispatchRaises(w, k) \/ MarkRaises(w, k)
  PROVE  HourInv'
<1>1. now \in Int /\ UNCHANGED <<now, flyer, publisher, late>>
  <2>1. now \in Int
    BY QueueAssumption DEF TypeOK
  <2>2. UNCHANGED <<now, flyer, publisher, late>>
    BY DEF TaskStep, MarkProcessing, CheckEligible, ResolveRecipients, EnqueueRecipient,
       RecipientsEnqueued, FindExisting, PersistNotification, RefreshNotification, SendPush, MarkDone,
       MarkFailed, DispatchRaises, MarkRaises, publisherVars
  <2>3. QED
    BY <2>1, <2>2
<1>2. task[w][k].step # "none"
  BY DEF TaskStep, MarkProcessing, CheckEligible, ResolveRecipients, EnqueueRecipient,
     RecipientsEnqueued, FindExisting, PersistNotification, RefreshNotification, SendPush, MarkDone,
     MarkFailed, DispatchRaises, MarkRaises, MayStart
<1>3. Known(k) /\ Ripe(k[1]) /\ flyer[k[1]].state # "none"
  BY <1>2 DEF HourInv, OnTime
<1>4. \A v \in Workers, j \in Key : v # w \/ j # k => task'[v][j] = task[v][j]
  <2>1. CASE MarkProcessing(w, k) \/ ResolveRecipients(w, k)
    BY <2>1 DEF MarkProcessing, ResolveRecipients, TypeOK
  <2>2. CASE FindExisting(w, k)
    BY <2>2 DEF FindExisting, Goto, TypeOK
  <2>3. CASE \E step : Goto(w, k, step)
    BY <2>3 DEF Goto, TypeOK
  <2>4. CASE Drop(w, k)
    BY <2>4 DEF Drop, TypeOK
  <2>5. CASE \E u \in Users : EnqueueRecipient(w, k, u)
    BY <2>5 DEF EnqueueRecipient, TypeOK
  <2>6. QED
    BY <2>1, <2>2, <2>3, <2>4, <2>5 DEF TaskStep, CheckEligible, RecipientsEnqueued,
       PersistNotification, AfterInsert, RefreshNotification, SendPush, MarkDone, MarkFailed,
       DispatchRaises, MarkRaises
<1>5. \A v \in Workers, j \in Key : task'[v][j].step # "none" => task[v][j].step # "none"
  BY <1>2, <1>4
<1>6. CASE \E u \in Users : EnqueueRecipient(w, k, u)
  <2>1. PICK u \in Users : EnqueueRecipient(w, k, u)
    BY <1>6
  <2>2. <<k[1], u>> \in Key /\ <<k[1], u>>[1] = k[1]
    BY KeyForms
  <2>3. \A j \in Key : OnTime(j)'
    BY <1>1, <1>3, <1>5, <2>1, <2>2, EnqueuedOnTime DEF EnqueueRecipient
  <2>4. QED
    BY <1>1, <2>3 DEF HourInv
<1>7. CASE ~\E u \in Users : EnqueueRecipient(w, k, u)
  <2>1. \A j \in Key \ {k} : job'[j] = job[j]
    BY <1>7 DEF TaskStep, MarkProcessing, CheckEligible, ResolveRecipients,
       RecipientsEnqueued, FindExisting, PersistNotification, RefreshNotification, SendPush, MarkDone,
       MarkFailed, DispatchRaises, MarkRaises, TypeOK
  <2>2. Known(k)'
    <3>1. job'[k].status = job[k].status \/ job'[k].status \in {"processing", "done", "dead", "failed"}
      BY <1>7 DEF TaskStep, MarkProcessing, CheckEligible, ResolveRecipients,
         RecipientsEnqueued, FindExisting, PersistNotification, RefreshNotification, SendPush, MarkDone,
         MarkFailed, DispatchRaises, MarkRaises, TypeOK, Job
    <3>2. QED
      BY <1>3, <3>1 DEF Known
  <2>3. \A j \in Child \ {k} : inbox'[j] = inbox[j] /\ pushes'[j] = pushes[j]
    BY <1>7 DEF TaskStep, MarkProcessing, CheckEligible, ResolveRecipients,
       RecipientsEnqueued, FindExisting, PersistNotification, RefreshNotification, SendPush, MarkDone,
       MarkFailed, DispatchRaises, MarkRaises, TypeOK
  <2>4. \A j \in Key : OnTime(j)'
    <3>1. TAKE j \in Key
    <3>2. CASE j = k
      BY <1>1, <1>2, <1>3, <1>5, <2>2, <3>2, OnTimeKept DEF HourInv
    <3>3. CASE j # k
      BY <1>1, <1>5, <2>1, <2>3, <3>3, OnTimeKept DEF HourInv, Known
    <3>4. QED
      BY <3>2, <3>3
  <2>5. QED
    BY <1>1, <2>4 DEF HourInv
<1>8. QED
  BY <1>6, <1>7

(* A reschedule gives a parent that waits the hour of the new dates; if no *)
(* job has begun, nothing comes earlier.                                   *)
LEMMA RescheduledOnTime ==
  ASSUME TypeOK, HourInv, NEW f \in Flyers, RescheduleFlyerPublished(f)
  PROVE  \A k \in Key : OnTime(k)'
<1>1. /\ now \in Int /\ now' = now /\ UNCHANGED <<flyer, task, inbox, pushes>>
      /\ f \in late /\ ParentKey(f) \in Key /\ ParentKey(f)[1] = f
      /\ IsParent(ParentKey(f)) /\ TenOClock(flyer[f].from) \in Int
  BY HoursAreTimes, KeyForms, QueueAssumption
     DEF RescheduleFlyerPublished, HourInv, TypeOK, ParentKey, IsParent
<1>2. \A k \in Key : /\ Known(k)' <=> Known(k)
                     /\ k # ParentKey(f) => job'[k] = job[k]
  BY <1>1 DEF RescheduleFlyerPublished, Known, TypeOK
<1> SUFFICES ASSUME NEW k \in Key
             PROVE  OnTime(k)'
  OBVIOUS
<1>3. OnTime(k) /\ now' >= now
  BY <1>1 DEF HourInv
<1>4. CASE k[1] # f
  <2>1. k[1] \in late' <=> k[1] \in late
    BY <1>4 DEF RescheduleFlyerPublished
  <2>2. job'[k] = job[k]
    BY <1>1, <1>2, <1>4
  <2>3. QED
    BY <1>1, <1>2, <1>3, <2>1, <2>2, OnTimeKept
<1>5. CASE k[1] = f /\ ~NoneBegun(f)
  <2>1. late' = late /\ Ripe(k[1])
    BY <1>1, <1>5 DEF RescheduleFlyerPublished, Ripe
  <2>2. QED
    BY <1>1, <1>2, <1>3, <2>1, OnTimeKept
<1>6. CASE k[1] = f /\ NoneBegun(f)
  <2>1. CASE k = ParentKey(f)
    <3>1. /\ job'[k].at = NotifyAt(flyer[f].from)
          /\ \A w \in Workers : task'[w][k].step = "none"
      BY <1>1, <1>6, <2>1 DEF RescheduleFlyerPublished, NoneBegun, TypeOK
    <3>2. \/ flyer[f].from = NoDate \/ now >= TenOClock(flyer[f].from)
          \/ NotifyAt(flyer[f].from) >= TenOClock(flyer[f].from)
      BY <1>1 DEF NotifyAt
    <3>3. Ripe(f)' \/ job'[k].at >= TenOClock(flyer'[f].from)
      BY <1>1, <3>1, <3>2 DEF Ripe, TenOClock
    <3>4. Known(k)' => flyer'[f].state # "none"
      BY <1>1, <1>2, <1>3, <1>6 DEF OnTime
    <3>5. k \notin Child
      BY <2>1, QueueAssumption DEF ParentKey, Child
    <3>6. QED
      BY <1>1, <1>6, <2>1, <3>1, <3>3, <3>4, <3>5 DEF OnTime, TenOClock
  <2>2. CASE k # ParentKey(f)
    <3>1. PICK u \in Users : k = <<f, u>>
      BY <1>6, <2>2, KeyForms DEF Key, ParentKey
    <3>2. ~Known(k)
      BY <1>6, <3>1 DEF NoneBegun, Known
    <3>3. QED
      BY <1>1, <1>2, <1>3, <3>2 DEF OnTime
  <2>3. QED
    BY <2>1, <2>2
<1>7. QED
  BY <1>4, <1>5, <1>6

(* A request that publishes: the row of the flyer, then its parent job.    *)
LEMMA PublishedOnTime ==
  ASSUME TypeOK, HourInv, PublisherNext
  PROVE  HourInv'
<1>1. now' = now /\ now \in Int
  <2>1. now' = now
    BY DEF PublisherNext, PublishTargetFlyer, SyncValidity, EnqueueFlyerPublished,
       RescheduleFlyerPublished, DeleteFlyer, RequestDies
  <2>2. now \in Int
    BY QueueAssumption DEF TypeOK
  <2>3. QED
    BY <2>1, <2>2
<1>2. PICK f \in Flyers :
        \/ \E window \in Windows : PublishTargetFlyer(f, window)
        \/ \E window \in Windows : SyncValidity(f, window)
        \/ EnqueueFlyerPublished(f) \/ RescheduleFlyerPublished(f)
        \/ DeleteFlyer(f) \/ RequestDies(f)
  BY DEF PublisherNext
<1>3. \A g \in Flyers : /\ publisher'[g] = "reschedule" => g \in late'
                        /\ publisher'[g] = "enqueue" => flyer'[g].state # "none"
  <2>1. CASE \E window \in Windows : PublishTargetFlyer(f, window)
    BY <2>1 DEF PublishTargetFlyer, HourInv, TypeOK
  <2>2. CASE EnqueueFlyerPublished(f)
    BY <2>2 DEF EnqueueFlyerPublished, HourInv, TypeOK
  <2>3. CASE DeleteFlyer(f) \/ RequestDies(f)
    BY <2>3 DEF DeleteFlyer, RequestDies, HourInv, TypeOK
  <2>4. CASE \E window \in Windows : SyncValidity(f, window)
    BY <2>4 DEF SyncValidity, HourInv, TypeOK
  <2>5. CASE RescheduleFlyerPublished(f)
    BY <2>5 DEF RescheduleFlyerPublished, HourInv, TypeOK
  <2>6. QED
    BY <1>2, <2>1, <2>2, <2>3, <2>4, <2>5
<1>4. CASE \E window \in Windows : PublishTargetFlyer(f, window)
  <2>1. /\ flyer[f].state = "none" /\ UNCHANGED <<job, task, inbox, pushes, late>>
        /\ \A g \in Flyers \ {f} : flyer'[g] = flyer[g]
    BY <1>4 DEF PublishTargetFlyer, queueVars, TypeOK
  <2>2. \A k \in Key : OnTime(k)'
    <3>1. TAKE k \in Key
    <3>2. OnTime(k)
      BY DEF HourInv
    <3>3. CASE k[1] = f
      BY <2>1, <3>2, <3>3 DEF OnTime, Known
    <3>4. CASE k[1] # f
      <4>1. flyer'[k[1]] = flyer[k[1]] /\ (Known(k)' <=> Known(k)) /\ now' >= now
        BY <1>1, <2>1, <3>4, KeyForms DEF Known
      <4>2. QED
        BY <1>1, <2>1, <3>2, <4>1, OnTimeKept
    <3>5. QED
      BY <3>3, <3>4
  <2>3. QED
    BY <1>3, <2>2 DEF HourInv
<1>5. CASE EnqueueFlyerPublished(f)
  <2>1. /\ ParentKey(f) \in Key /\ ParentKey(f)[1] = f /\ IsParent(ParentKey(f))
        /\ flyer[f].state # "none"
    BY <1>5, KeyForms DEF ParentKey, IsParent, EnqueueFlyerPublished, HourInv
  <2>2. /\ NotifyAt(flyer[f].from) \in Int
        /\ Ripe(f) \/ NotifyAt(flyer[f].from) >= TenOClock(flyer[f].from)
    BY HoursAreTimes DEF NotifyAt, Ripe
  <2>3. /\ job' = Enqueued(ParentKey(f), NotifyAt(flyer[f].from))
        /\ UNCHANGED <<now, flyer, late, task, inbox, pushes>>
    BY <1>5 DEF EnqueueFlyerPublished
  <2>5. \A k \in Key : OnTime(k)'
    BY <2>1, <2>2, <2>3, EnqueuedOnTime
  <2>4. QED
    BY <1>3, <2>5 DEF HourInv
<1>6. CASE DeleteFlyer(f) \/ RequestDies(f)
  <2>1. /\ UNCHANGED <<job, task, inbox, pushes, late>>
        /\ \A g \in Flyers : /\ flyer'[g].from = flyer[g].from
                             /\ flyer[g].state # "none" => flyer'[g].state # "none"
    BY <1>6 DEF DeleteFlyer, RequestDies, queueVars, TypeOK
  <2>2. ASSUME NEW k \in Key PROVE OnTime(k)'
    <3>1. OnTime(k) /\ (Known(k)' <=> Known(k)) /\ now' >= now /\ k[1] \in Flyers
      BY <1>1, <2>1, KeyForms DEF HourInv, Known
    <3>2. QED
      BY <1>1, <2>1, <3>1, OnTimeKept
  <2>3. QED
    BY <1>3, <2>2 DEF HourInv
<1>7. CASE \E window \in Windows : SyncValidity(f, window)
  <2>1. /\ f \in late' /\ UNCHANGED <<job, task, inbox, pushes>>
        /\ late' = late \cup {f} /\ flyer'[f].state = "public"
        /\ \A g \in Flyers \ {f} : flyer'[g] = flyer[g]
    BY <1>7 DEF SyncValidity, queueVars, TypeOK
  <2>2. ASSUME NEW k \in Key PROVE OnTime(k)'
    <3>1. OnTime(k) /\ (Known(k)' <=> Known(k)) /\ now' >= now /\ k[1] \in Flyers
      BY <1>1, <2>1, KeyForms DEF HourInv, Known
    <3>2. CASE k[1] = f
      BY <2>1, <3>1, <3>2 DEF OnTime, Ripe
    <3>3. CASE k[1] # f
      BY <1>1, <2>1, <3>1, <3>3, OnTimeKept
    <3>4. QED
      BY <3>2, <3>3
  <2>3. QED
    BY <1>3, <2>2 DEF HourInv
<1>8. CASE RescheduleFlyerPublished(f)
  BY <1>1, <1>3, <1>8, RescheduledOnTime DEF HourInv
<1>9. QED
  BY <1>2, <1>4, <1>5, <1>6, <1>7, <1>8

LEMMA HourStep == TypeOK /\ HourInv /\ [Next]_vars => HourInv'
<1> SUFFICES ASSUME TypeOK, HourInv, [Next]_vars
             PROVE  HourInv'
  OBVIOUS
<1>1. ASSUME now' \in Int, now' >= now, UNCHANGED <<flyer, publisher, late, job>>,
             \A w \in Workers, k \in Key : task'[w][k].step # "none" => task[w][k].step # "none",
             \A k \in Child : /\ inbox'[k] > 0 => inbox[k] > 0
                              /\ pushes'[k] > 0 => pushes[k] > 0
      PROVE  HourInv'
  <2>1. ASSUME NEW k \in Key PROVE OnTime(k)'
    <3>1. OnTime(k) /\ (Known(k)' <=> Known(k))
      BY <1>1 DEF HourInv, Known
    <3>2. QED
      BY <1>1, <3>1, OnTimeKept
  <2>2. QED
    BY <1>1, <2>1 DEF HourInv
<1>2. now \in Int
  BY QueueAssumption DEF TypeOK
<1>3. ASSUME NEW w \in Workers, PassStep(w)
      PROVE  HourInv'
  <2>1. CASE EndPass(w)
    BY <1>1, <1>2, <2>1 DEF EndPass, publisherVars
  <2>2. QED
    BY <1>3, <2>1, ClaimedOnTime DEF PassStep, ClaimParents, ClaimRecipients
<1>4. ASSUME NEW w \in Workers, Crash(w)
      PROVE  HourInv'
  <2>1. \A v \in Workers, k \in Key : task'[v][k].step # "none" => task[v][k].step # "none"
    BY <1>4 DEF Crash, NoTask, TypeOK
  <2>2. QED
    BY <1>1, <1>2, <1>4, <2>1 DEF Crash, publisherVars
<1>5. ASSUME NEW k \in Child, DeleteNotification(k)
      PROVE  HourInv'
  <2>1. \A j \in Child : inbox'[j] > 0 => inbox[j] > 0
    BY <1>5 DEF DeleteNotification, TypeOK
  <2>2. QED
    BY <1>1, <1>2, <1>5, <2>1 DEF DeleteNotification, publisherVars
<1>6. CASE Tick \/ UNCHANGED vars
  BY <1>1, <1>2, <1>6 DEF Tick, vars, publisherVars, queueVars
<1>7. QED
  BY <1>3, <1>4, <1>5, <1>6, PublishedOnTime, WorkedOnTime DEF Next

(* Nobody hears of a flyer before 10:00 of its first day, whichever way    *)
(* jobs are claimed, whatever fails, is retried or dies, and also when     *)
(* that day changes before a job of the flyer has begun.                   *)
THEOREM NobodyHearsBeforeTen == Spec => []NothingBeforeTen
<1>1. Init => HourInv
  BY KeyForms DEF Init, HourInv, OnTime, Known, NoTask
<1>2. HourInv => NothingBeforeTen
  BY KeyForms DEF HourInv, OnTime, Ripe, NothingBeforeTen
<1>3. TypeOK /\ HourInv /\ [Next]_vars => HourInv'
  BY HourStep
<1>4. QED
  BY <1>1, <1>2, <1>3, TypeCorrect, PTL DEF Spec
=============================================================================
