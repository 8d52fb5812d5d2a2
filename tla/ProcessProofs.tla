--------------------------- MODULE ProcessProofs ----------------------------
(***************************************************************************)
(* Theorems about what the process runs besides requests: the background   *)
(* tasks and the lifespan. One section per component: its inductive        *)
(* invariant, the lemmas that show it inductive, and the theorem that      *)
(* states the property the runs check for every value of the constants.    *)
(***************************************************************************)
EXTENDS BackgroundTasks, AppLifespan, TLAPS

(***************************************************************************)
(* Celery dispatch, workers and late acknowledgement: BackgroundTasks.tla. *)
(***************************************************************************)

(* The states of a task in the result backend.                             *)
TaskResults == {"PENDING", "STARTED", "RETRY", "SUCCESS", "FAILURE"}

(* The types of the broker, the workers and the results.                   *)
TaskTypes ==
  /\ DOMAIN kind = Tasks
  /\ broker \in [Messages -> Nat]
  /\ slot \in [TaskWorkers -> Messages \cup {NoMessage}]
  /\ ranIt \in [TaskWorkers -> BOOLEAN]
  /\ result \in [Tasks -> TaskResults]
  /\ tries \in [Tasks -> 0..MaxEmailRetries]

(* A message of the task waits; a worker has its message and has not run it. *)
TaskWaits(t) == \E m \in Messages : m.task = t /\ broker[m] > 0

(* A worker has the task's message and has not run it.                     *)
TaskRuns(t, w) == slot[w] # NoMessage /\ slot[w].task = t /\ ~ranIt[w]

(* Messages are of dispatched tasks, and their retry numbers are bounded by *)
(* the retries allowed and, once taken, by the retries that ran.            *)
MessagesSound ==
  /\ \A m \in Messages : broker[m] > 0 => kind[m.task] # "none" /\ m.retries <= MaxEmailRetries
  /\ \A w \in TaskWorkers : slot[w] # NoMessage =>
        kind[slot[w].task] # "none" /\ slot[w].retries <= tries[slot[w].task]
  /\ \A t \in Tasks : kind[t] = "none" => result[t] = "PENDING"
  /\ \A w \in TaskWorkers : ranIt[w] => slot[w] # NoMessage

(* A task without an outcome waits or runs: what only awaits its            *)
(* acknowledgement does not carry it on.                                   *)
CarriedOn ==
  \A t \in Tasks : kind[t] # "none" /\ result[t] \notin Ended =>
    TaskWaits(t) \/ \E w \in TaskWorkers : TaskRuns(t, w)

(* Unless a worker was lost with it, a task has one message, and none once  *)
(* it has an outcome.                                                      *)
OneCopy(t) ==
  t \notin rerun =>
    /\ \A m, n \in Messages : m.task = t /\ n.task = t /\ broker[m] > 0 /\ broker[n] > 0 =>
          m = n /\ broker[m] = 1
    /\ \A w, v \in TaskWorkers : TaskRuns(t, w) /\ TaskRuns(t, v) => w = v
    /\ \A w \in TaskWorkers : TaskRuns(t, w) => ~TaskWaits(t)
    /\ result[t] \in Ended => ~TaskWaits(t) /\ \A w \in TaskWorkers : ~TaskRuns(t, w)

(* The inductive invariant of the task queue.                              *)
TaskInv == /\ TaskTypes /\ MessagesSound /\ CarriedOn /\ EmailTriedToTheEnd
           /\ \A t \in Tasks : OneCopy(t)

(* The steps, by what they do to messages and results. *)
Dispatched(t) ==
  /\ kind[t] = "none"
  /\ \E k \in {"report", "email", "periodic"} : kind' = [kind EXCEPT ![t] = k]
  /\ broker' = Sent([task |-> t, retries |-> 0])
  /\ UNCHANGED <<slot, ranIt, result, tries, rerun>>

(* A run ends with an outcome.                                             *)
TaskEnds(w, s) ==
  /\ slot[w] # NoMessage /\ ~ranIt[w]
  /\ result' = [result EXCEPT ![slot[w].task] = s]
  /\ ranIt' = [ranIt EXCEPT ![w] = TRUE]
  /\ s = "FAILURE" => ~MayRetryEmail(slot[w])
  /\ UNCHANGED <<kind, broker, slot, tries, rerun>>

(* A run of send_transactional_email() ends with self.retry().             *)
TaskRetries(w) ==
  /\ slot[w] # NoMessage /\ ~ranIt[w]
  /\ MayRetryEmail(slot[w])
  /\ result' = [result EXCEPT ![slot[w].task] = "RETRY"]
  /\ ranIt' = [ranIt EXCEPT ![w] = TRUE]
  /\ broker' = Sent(RetryMessage(slot[w]))
  /\ UNCHANGED <<kind, slot, tries, rerun>>

(* Every step is one of these, a reservation, an acknowledgement or a      *)
(* loss.                                                                   *)
LEMMA TaskStepKinds ==
  BackgroundNext =>
    \/ \E t \in Tasks : Dispatched(t)
    \/ \E w \in TaskWorkers :
         \/ \E s \in Ended : TaskEnds(w, s)
         \/ TaskRetries(w) \/ Reserve(w) \/ AcknowledgeLate(w) \/ WorkerLost(w)
<1>1. ASSUME NEW t \in Tasks, NEW k \in {"report", "email", "periodic"}, NEW f, Delay(t, k, f)
      PROVE  Dispatched(t)
  BY <1>1, Zenon DEF Delay, Dispatched
<1>2. ASSUME NEW w \in TaskWorkers, slot[w] # NoMessage, GeneratePdfReport(w) \/ PeriodicTask(w)
      PROVE  TaskEnds(w, "SUCCESS")
  BY <1>2, Zenon DEF GeneratePdfReport, PeriodicTask, Finish, TaskEnds
<1>3. ASSUME NEW w \in TaskWorkers, slot[w] # NoMessage, SendTransactionalEmail(w)
      PROVE  TaskEnds(w, "SUCCESS") \/ TaskRetries(w) \/ TaskEnds(w, "FAILURE")
  <2> USE <1>3 DEF Finish
  <2>1. CASE Finish(w, "SUCCESS") /\ UNCHANGED broker
    BY <2>1, Zenon DEF SendTransactionalEmail, TaskEnds
  <2>2. CASE MayRetryEmail(slot[w]) /\ Finish(w, "RETRY") /\ broker' = Sent(RetryMessage(slot[w]))
    BY <2>2, Zenon DEF SendTransactionalEmail, TaskRetries
  <2>3. CASE ~MayRetryEmail(slot[w]) /\ Finish(w, "FAILURE") /\ UNCHANGED broker
    BY <2>3, Zenon DEF SendTransactionalEmail, TaskEnds
  <2> QED BY <2>1, <2>2, <2>3, Zenon DEF SendTransactionalEmail
<1> QED BY <1>1, <1>2, <1>3, Zenon DEF BackgroundNext, DispatchReportGeneration,
        DispatchTransactionalEmail, TriggerScheduledTaskManually, BeatSchedule, TaskWorkerStep, Ended

(* The empty slot is told from a message by its task.                      *)
LEMMA NoMessageIsNone == NoMessage \notin Messages
<1>1. \A m \in Messages : m.task \in Tasks
  BY Zenon DEF Messages
<1>2. NoMessage.task = "none"
  BY Zenon DEF NoMessage
<1> QED BY <1>1, <1>2, TaskAssumption, Zenon

(* A first message and a retry are messages. *)
LEMMA MessagesMade ==
  /\ \A t \in Tasks : LET m == [task |-> t, retries |-> 0]
                      IN  m \in Messages /\ m.task = t /\ m.retries = 0
  /\ \A m \in Messages : MayRetryEmail(m) =>
        LET n == RetryMessage(m)
        IN  n \in Messages /\ n.task = m.task /\ n.retries <= MaxEmailRetries
  /\ \A m \in Messages : m.task \in Tasks /\ m.retries \in Nat
BY TaskAssumption DEF Messages, MayRetryEmail, RetryMessage

(* Sending adds one copy of one message.                                   *)
LEMMA SentAdds ==
  ASSUME broker \in [Messages -> Nat], NEW m \in Messages, broker' = Sent(m)
  PROVE  /\ broker' \in [Messages -> Nat]
         /\ broker'[m] = broker[m] + 1 /\ broker'[m] > 0
         /\ \A n \in Messages : n # m => broker'[n] = broker[n]
BY DEF Sent

(* A step that touches neither the messages nor the result of a task keeps *)
(* its copies.                                                             *)
LEMMA CopiesUntouched ==
  ASSUME TaskInv, NEW u \in Tasks, u \in rerun => u \in rerun', result'[u] = result[u],
         TaskWaits(u)' <=> TaskWaits(u),
         \A v \in TaskWorkers : TaskRuns(u, v)' <=> TaskRuns(u, v),
         \A m \in Messages : m.task = u => broker'[m] = broker[m]
  PROVE  OneCopy(u)'
<1>1. OneCopy(u)
  BY Zenon DEF TaskInv
<1> QED BY <1>1, Zenon DEF OneCopy

(* A dispatch sends the first message of a task that had none. *)
LEMMA DispatchKeeps ==
  ASSUME TaskInv, NEW t \in Tasks, Dispatched(t) PROVE TaskInv'
<1> DEFINE m == [task |-> t, retries |-> 0]
<1>1. m \in Messages /\ m.task = t /\ m.retries = 0 /\ broker' = Sent(m)
  BY MessagesMade, Zenon DEF Dispatched
<1> HIDE DEF m
<1>2. /\ broker' \in [Messages -> Nat]
      /\ broker'[m] = broker[m] + 1 /\ broker'[m] > 0
      /\ \A n \in Messages : n # m => broker'[n] = broker[n]
  BY <1>1, SentAdds, Zenon DEF TaskInv, TaskTypes
<1>3. /\ \A w \in TaskWorkers, u \in Tasks : TaskRuns(u, w)' <=> TaskRuns(u, w)
      /\ UNCHANGED <<slot, ranIt, result, tries, rerun>>
  BY Zenon DEF Dispatched, TaskRuns
<1>4. /\ kind[t] = "none" /\ kind'[t] # "none" /\ DOMAIN kind' = Tasks
      /\ \A u \in Tasks : u # t => kind'[u] = kind[u]
  BY Zenon DEF Dispatched, TaskInv, TaskTypes
<1>5. broker[m] = 0 /\ ~TaskWaits(t) /\ (\A w \in TaskWorkers : ~TaskRuns(t, w)) /\ result[t] = "PENDING"
  <2>1. \A n \in Messages : n.task = t => broker[n] = 0
    BY <1>4 DEF TaskInv, TaskTypes, MessagesSound
  <2> QED BY <1>1, <1>4, <2>1 DEF TaskWaits, TaskRuns, TaskInv, MessagesSound
<1>6. TaskWaits(t)' /\ \A u \in Tasks : u # t => (TaskWaits(u)' <=> TaskWaits(u))
  BY <1>1, <1>2, Zenon DEF TaskWaits
<1>7. TaskTypes'
  BY <1>2, <1>3, <1>4, Zenon DEF TaskInv, TaskTypes, Dispatched
<1>8. MessagesSound'
  <2>1. \A n \in Messages : broker'[n] > 0 => kind'[n.task] # "none" /\ n.retries <= MaxEmailRetries
    BY <1>1, <1>2, <1>4, TaskAssumption, MessagesMade DEF TaskInv, MessagesSound
  <2>2. \A w \in TaskWorkers : slot[w] # NoMessage =>
          kind'[slot[w].task] # "none" /\ slot[w].retries <= tries[slot[w].task]
    BY <1>4, MessagesMade DEF TaskInv, TaskTypes, MessagesSound
  <2> QED BY <1>3, <1>4, <2>1, <2>2, Zenon DEF TaskInv, MessagesSound
<1>9. CarriedOn'
  BY <1>3, <1>4, <1>6, Zenon DEF TaskInv, CarriedOn
<1>10. EmailTriedToTheEnd'
  BY <1>3, <1>4, <1>5, Zenon DEF TaskInv, EmailTriedToTheEnd
<1>11. ASSUME NEW u \in Tasks PROVE OneCopy(u)'
  <2>1. CASE u = t
    BY <1>1, <1>2, <1>3, <1>5, <2>1 DEF OneCopy, TaskWaits, Ended
  <2>2. CASE u # t
    BY <1>1, <1>2, <1>3, <1>6, <2>2, CopiesUntouched, Zenon
  <2> QED BY <2>1, <2>2, Zenon
<1> QED BY <1>7, <1>8, <1>9, <1>10, <1>11, Zenon DEF TaskInv

(* A worker takes a message: it runs instead of waiting. *)
LEMMA ReserveKeeps ==
  ASSUME TaskInv, NEW w \in TaskWorkers, Reserve(w) PROVE TaskInv'
<1> PICK m \in Messages :
      /\ slot[w] = NoMessage /\ broker[m] > 0
      /\ broker' = [broker EXCEPT ![m] = @ - 1]
      /\ slot' = [slot EXCEPT ![w] = m]
      /\ result' = [result EXCEPT ![m.task] = "STARTED"]
      /\ tries' = [tries EXCEPT ![m.task] = IF @ < m.retries THEN m.retries ELSE @]
      /\ UNCHANGED <<kind, smtpFails, ranIt, faults, rerun>>
  BY Zenon DEF Reserve
<1>0. m.task \in Tasks /\ m.retries \in Nat /\ m.retries <= MaxEmailRetries /\ kind[m.task] # "none"
  BY MessagesMade, Zenon DEF TaskInv, MessagesSound
<1>1. /\ broker' \in [Messages -> Nat]
      /\ broker'[m] = broker[m] - 1
      /\ \A n \in Messages : n # m => broker'[n] = broker[n]
      /\ \A n \in Messages : broker'[n] > 0 => broker[n] > 0
  BY DEF TaskInv, TaskTypes
<1>2. /\ slot'[w] = m /\ m # NoMessage /\ ~ranIt[w] /\ ~ranIt'[w]
      /\ \A v \in TaskWorkers : v # w => slot'[v] = slot[v]
  BY NoMessageIsNone, Zenon DEF TaskInv, TaskTypes, MessagesSound
<1>3. /\ tries'[m.task] \in 0..MaxEmailRetries
      /\ tries'[m.task] >= m.retries /\ tries'[m.task] >= tries[m.task]
      /\ \A u \in Tasks : u # m.task => tries'[u] = tries[u]
      /\ DOMAIN tries' = Tasks
  BY <1>0, TaskAssumption DEF TaskInv, TaskTypes
<1>4. /\ result'[m.task] = "STARTED" /\ DOMAIN result' = Tasks
      /\ \A u \in Tasks : u # m.task => result'[u] = result[u]
  BY <1>0, Zenon DEF TaskInv, TaskTypes
<1>5. /\ \A v \in TaskWorkers, u \in Tasks : v # w => (TaskRuns(u, v)' <=> TaskRuns(u, v))
      /\ \A u \in Tasks : (TaskRuns(u, w)' <=> u = m.task) /\ ~TaskRuns(u, w)
  BY <1>2, Zenon DEF TaskRuns
<1>6. /\ \A u \in Tasks : u # m.task => (TaskWaits(u)' <=> TaskWaits(u))
      /\ \A u \in Tasks : TaskWaits(u)' => TaskWaits(u)
      /\ TaskWaits(m.task)
  BY <1>1, Zenon DEF TaskWaits
<1>7. TaskTypes'
  <2>1. slot' \in [TaskWorkers -> Messages \cup {NoMessage}]
    BY Zenon DEF TaskInv, TaskTypes
  <2>2. tries' \in [Tasks -> 0..MaxEmailRetries]
    BY <1>3, Zenon DEF TaskInv, TaskTypes
  <2>3. result' \in [Tasks -> TaskResults]
    BY Zenon DEF TaskInv, TaskTypes, TaskResults
  <2> QED BY <1>1, <2>1, <2>2, <2>3, Zenon DEF TaskInv, TaskTypes
<1>8. MessagesSound'
  <2>1. \A v \in TaskWorkers : slot'[v] # NoMessage =>
          kind'[slot'[v].task] # "none" /\ slot'[v].retries <= tries'[slot'[v].task]
    <3> SUFFICES ASSUME NEW v \in TaskWorkers, slot'[v] # NoMessage
                 PROVE  kind[slot'[v].task] # "none" /\ slot'[v].retries <= tries'[slot'[v].task]
      BY Zenon
    <3>1. CASE v = w
      BY <1>0, <1>2, <1>3, <3>1, Zenon
    <3>2. CASE v # w
      <4>1. /\ slot'[v] = slot[v] /\ slot[v] \in Messages
            /\ kind[slot[v].task] # "none" /\ slot[v].retries <= tries[slot[v].task]
            /\ tries[slot[v].task] \in 0..MaxEmailRetries
        BY <1>2, <3>2, MessagesMade DEF TaskInv, TaskTypes, MessagesSound
      <4>2. slot[v].task \in Tasks /\ slot[v].retries \in Nat
        BY <4>1, MessagesMade, Zenon
      <4>3. tries'[slot[v].task] >= tries[slot[v].task] /\ tries'[slot[v].task] \in Nat
        BY <1>3, <4>1, <4>2
      <4> QED BY <4>1, <4>2, <4>3
    <3> QED BY <3>1, <3>2, Zenon
  <2>2. \A n \in Messages : broker'[n] > 0 => kind'[n.task] # "none" /\ n.retries <= MaxEmailRetries
    BY <1>1, Zenon DEF TaskInv, MessagesSound
  <2>3. \A u \in Tasks : kind'[u] = "none" => result'[u] = "PENDING"
    BY <1>0, <1>4, Zenon DEF TaskInv, MessagesSound
  <2>4. \A v \in TaskWorkers : ranIt'[v] => slot'[v] # NoMessage
    BY <1>2 DEF TaskInv, MessagesSound
  <2> QED BY <2>1, <2>2, <2>3, <2>4, Zenon DEF MessagesSound
<1>9. CarriedOn'
  <2> SUFFICES ASSUME NEW u \in Tasks, kind[u] # "none", result'[u] \notin Ended
               PROVE  TaskWaits(u)' \/ \E v \in TaskWorkers : TaskRuns(u, v)'
    BY Zenon DEF CarriedOn
  <2>1. CASE u = m.task
    BY <1>5, <2>1, Zenon
  <2>2. CASE u # m.task
    BY <1>4, <1>5, <1>6, <2>2, Zenon DEF TaskInv, CarriedOn
  <2> QED BY <2>1, <2>2, Zenon
<1>10. EmailTriedToTheEnd'
  BY <1>3, <1>4, Zenon DEF TaskInv, EmailTriedToTheEnd
<1>11. ASSUME NEW u \in Tasks PROVE OneCopy(u)'
  <2> SUFFICES ASSUME u \notin rerun
               PROVE  OneCopy(u)'
    BY Zenon DEF OneCopy
  <2>1. CASE u = m.task
    <3>1. /\ \A n \in Messages : n.task = u /\ broker[n] > 0 => n = m
          /\ broker[m] = 1 /\ \A v \in TaskWorkers : ~TaskRuns(u, v)
      BY <1>6, <2>1, Zenon DEF TaskInv, OneCopy
    <3>2. ~TaskWaits(u)'
      BY <1>1, <3>1 DEF TaskWaits
    <3> QED BY <1>4, <1>5, <2>1, <3>1, <3>2, Zenon DEF OneCopy, TaskWaits, Ended
  <2>2. CASE u # m.task
    BY <1>1, <1>4, <1>5, <1>6, <2>2, CopiesUntouched
  <2> QED BY <2>1, <2>2, Zenon
<1> QED BY <1>7, <1>8, <1>9, <1>10, <1>11, Zenon DEF TaskInv

(* A task ends: its message only awaits the acknowledgement. *)
LEMMA EndsKeeps ==
  ASSUME TaskInv, NEW w \in TaskWorkers, NEW s \in Ended, TaskEnds(w, s) PROVE TaskInv'
<1> DEFINE t == slot[w].task
<1>0. t \in Tasks /\ slot[w] \in Messages /\ slot[w].retries \in Nat /\ kind[t] # "none"
  BY MessagesMade DEF TaskInv, TaskTypes, MessagesSound, TaskEnds
<1> HIDE DEF t
<1>1. /\ result'[t] = s /\ \A u \in Tasks : u # t => result'[u] = result[u]
      /\ result' \in [Tasks -> TaskResults]
  BY <1>0, Zenon DEF TaskEnds, t, TaskInv, TaskTypes, TaskResults, Ended
<1>2. UNCHANGED <<kind, broker, slot, tries, rerun>> /\ TaskRuns(t, w)
  BY Zenon DEF TaskEnds, TaskRuns, t
<1>3. /\ \A u \in Tasks : ~TaskRuns(u, w)' /\ (u # t => ~TaskRuns(u, w))
      /\ \A v \in TaskWorkers, u \in Tasks : v # w => (TaskRuns(u, v)' <=> TaskRuns(u, v))
      /\ \A u \in Tasks : TaskWaits(u)' <=> TaskWaits(u)
  BY <1>2, Zenon DEF TaskEnds, TaskRuns, TaskWaits, t, TaskInv, TaskTypes
<1>4. TaskTypes'
  BY <1>1, <1>2, Zenon DEF TaskInv, TaskTypes, TaskEnds
<1>5. MessagesSound'
  <2>1. \A v \in TaskWorkers : ranIt'[v] => slot[v] # NoMessage
    BY Zenon DEF TaskEnds, TaskInv, TaskTypes, MessagesSound
  <2>2. \A u \in Tasks : kind[u] = "none" => result'[u] = "PENDING"
    BY <1>0, <1>1, Zenon DEF TaskInv, MessagesSound
  <2> QED BY <1>2, <2>1, <2>2, Zenon DEF TaskInv, MessagesSound
<1>6. CarriedOn'
  BY <1>1, <1>2, <1>3, Zenon DEF TaskInv, CarriedOn
<1>7. EmailTriedToTheEnd'
  <2> SUFFICES ASSUME NEW u \in Tasks, kind[u] = "email", result'[u] = "FAILURE"
               PROVE  tries[u] = MaxEmailRetries
    BY <1>2, Zenon DEF EmailTriedToTheEnd
  <2>1. CASE u = t
    <3>1. ~MayRetryEmail(slot[w]) /\ slot[w].retries <= tries[t] /\ tries[t] \in 0..MaxEmailRetries
      BY <1>0, <1>1, <2>1, Zenon DEF TaskEnds, TaskInv, TaskTypes, MessagesSound, t
    <3> QED BY <1>0, <2>1, <3>1, TaskAssumption DEF MayRetryEmail
  <2>2. CASE u # t
    BY <1>1, <2>2, Zenon DEF TaskInv, EmailTriedToTheEnd
  <2> QED BY <2>1, <2>2, Zenon
<1>8. ASSUME NEW u \in Tasks PROVE OneCopy(u)'
  <2>1. CASE u = t
    BY <1>2, <1>3, <2>1 DEF OneCopy, TaskInv
  <2>2. CASE u # t
    BY <1>1, <1>2, <1>3, <2>2, CopiesUntouched, Zenon
  <2> QED BY <2>1, <2>2, Zenon
<1> QED BY <1>4, <1>5, <1>6, <1>7, <1>8, Zenon DEF TaskInv

(* A retry publishes the next message before its own is acknowledged. *)
LEMMA RetriesKeeps ==
  ASSUME TaskInv, NEW w \in TaskWorkers, TaskRetries(w) PROVE TaskInv'
<1> PICK m0 \in Messages : slot[w] = m0
  BY Zenon DEF TaskRetries, TaskInv, TaskTypes
<1> DEFINE t == m0.task
           n == RetryMessage(m0)
<1>0. /\ t \in Tasks /\ kind[t] # "none"
      /\ n \in Messages /\ n.task = t /\ n.retries <= MaxEmailRetries /\ broker' = Sent(n)
  BY MessagesMade, Zenon DEF TaskInv, TaskTypes, MessagesSound, TaskRetries
<1>1. /\ result'[t] = "RETRY" /\ \A u \in Tasks : u # t => result'[u] = result[u]
      /\ result' \in [Tasks -> TaskResults]
  BY <1>0, Zenon DEF TaskRetries, TaskInv, TaskTypes, TaskResults
<1>2. UNCHANGED <<kind, slot, tries, rerun>> /\ TaskRuns(t, w)
  BY Zenon DEF TaskRetries, TaskRuns
<1>3. /\ \A u \in Tasks : ~TaskRuns(u, w)' /\ (u # t => ~TaskRuns(u, w))
      /\ \A v \in TaskWorkers, u \in Tasks : v # w => (TaskRuns(u, v)' <=> TaskRuns(u, v))
  BY <1>2, Zenon DEF TaskRetries, TaskRuns, TaskInv, TaskTypes
<1>p. \A v \in TaskWorkers : ranIt'[v] => slot[v] # NoMessage
  BY Zenon DEF TaskRetries, TaskInv, TaskTypes, MessagesSound
<1>r. ranIt' \in [TaskWorkers -> BOOLEAN]
  BY Zenon DEF TaskRetries, TaskInv, TaskTypes
<1> HIDE DEF t, n
<1>4. /\ broker' \in [Messages -> Nat]
      /\ broker'[n] = broker[n] + 1 /\ broker'[n] > 0
      /\ \A m \in Messages : m # n => broker'[m] = broker[m]
  BY <1>0, SentAdds, Zenon DEF TaskInv, TaskTypes
<1>5. TaskWaits(t)' /\ \A u \in Tasks : u # t => (TaskWaits(u)' <=> TaskWaits(u))
  BY <1>0, <1>4, Zenon DEF TaskWaits
<1>6. TaskTypes'
  BY <1>1, <1>2, <1>4, <1>r, Zenon DEF TaskInv, TaskTypes
<1>7. MessagesSound'
  <2>1. \A m \in Messages : broker'[m] > 0 => kind[m.task] # "none" /\ m.retries <= MaxEmailRetries
    BY <1>0, <1>4, Zenon DEF TaskInv, MessagesSound
  <2>2. \A u \in Tasks : kind[u] = "none" => result'[u] = "PENDING"
    BY <1>0, <1>1, Zenon DEF TaskInv, MessagesSound
  <2> QED BY <1>2, <1>p, <2>1, <2>2, Zenon DEF TaskInv, MessagesSound
<1>8. CarriedOn'
  BY <1>1, <1>2, <1>3, <1>5, Zenon DEF TaskInv, CarriedOn
<1>9. EmailTriedToTheEnd'
  BY <1>1, <1>2, Zenon DEF TaskInv, EmailTriedToTheEnd
<1>10. ASSUME NEW u \in Tasks PROVE OneCopy(u)'
  <2> SUFFICES ASSUME u \notin rerun PROVE OneCopy(u)'
    BY <1>2, Zenon DEF OneCopy
  <2>1. CASE u = t
    <3>1. ~TaskWaits(u) /\ \A v \in TaskWorkers : TaskRuns(u, v) => v = w
      BY <1>2, <2>1, Zenon DEF OneCopy, TaskInv
    <3>2. \A m \in Messages : m.task = u => broker[m] = 0
      BY <3>1 DEF TaskWaits, TaskInv, TaskTypes
    <3>3. \A v \in TaskWorkers : ~TaskRuns(u, v)'
      BY <1>3, <3>1, Zenon
    <3> QED BY <1>0, <1>1, <1>4, <2>1, <3>2, <3>3 DEF OneCopy, Ended
  <2>2. CASE u # t
    BY <1>0, <1>1, <1>2, <1>3, <1>4, <1>5, <2>2, CopiesUntouched
  <2> QED BY <2>1, <2>2, Zenon
<1> QED BY <1>6, <1>7, <1>8, <1>9, <1>10, Zenon DEF TaskInv

(* What is acknowledged has run, so neither running nor waiting changes. *)
LEMMA AcknowledgeKeeps ==
  ASSUME TaskInv, NEW w \in TaskWorkers, AcknowledgeLate(w) PROVE TaskInv'
<1>1. /\ UNCHANGED <<kind, broker, result, tries, rerun>>
      /\ slot'[w] = NoMessage /\ ~ranIt'[w] /\ ranIt[w]
      /\ \A v \in TaskWorkers : v # w => slot'[v] = slot[v] /\ ranIt'[v] = ranIt[v]
  BY Zenon DEF AcknowledgeLate, TaskInv, TaskTypes
<1>2. /\ \A u \in Tasks, v \in TaskWorkers : TaskRuns(u, v)' <=> TaskRuns(u, v)
      /\ \A u \in Tasks : TaskWaits(u)' <=> TaskWaits(u)
  BY <1>1, Zenon DEF TaskRuns, TaskWaits
<1>3. TaskTypes'
  <2>1. slot' \in [TaskWorkers -> Messages \cup {NoMessage}]
    BY Zenon DEF AcknowledgeLate, TaskInv, TaskTypes
  <2>2. ranIt' \in [TaskWorkers -> BOOLEAN]
    BY Zenon DEF AcknowledgeLate, TaskInv, TaskTypes
  <2> QED BY <1>1, <2>1, <2>2, Zenon DEF TaskInv, TaskTypes
<1>4. MessagesSound'
  BY <1>1 DEF TaskInv, MessagesSound
<1>5. CarriedOn' /\ EmailTriedToTheEnd'
  <2>1. CarriedOn'
    BY <1>1, <1>2, Zenon DEF TaskInv, CarriedOn
  <2> QED BY <1>1, <2>1, Zenon DEF TaskInv, EmailTriedToTheEnd
<1>6. ASSUME NEW u \in Tasks PROVE OneCopy(u)'
  BY <1>1, <1>2, CopiesUntouched, Zenon
<1> QED BY <1>3, <1>4, <1>5, <1>6, Zenon DEF TaskInv

(* A lost worker's message waits again, and its task may run again. *)
LEMMA LostKeeps ==
  ASSUME TaskInv, NEW w \in TaskWorkers, WorkerLost(w) PROVE TaskInv'
<1> PICK m \in Messages : slot[w] = m
  BY Zenon DEF WorkerLost, TaskInv, TaskTypes
<1>0. /\ m.task \in Tasks /\ kind[m.task] # "none"
      /\ m.retries <= tries[m.task] /\ tries[m.task] \in 0..MaxEmailRetries /\ m.retries \in Nat
  BY MessagesMade, Zenon DEF TaskInv, TaskTypes, MessagesSound, WorkerLost
<1>1. /\ UNCHANGED <<kind, result, tries>> /\ rerun' = rerun \cup {m.task} /\ broker' = Sent(m)
      /\ slot'[w] = NoMessage /\ ~ranIt'[w]
      /\ \A v \in TaskWorkers : v # w => slot'[v] = slot[v] /\ ranIt'[v] = ranIt[v]
  BY Zenon DEF WorkerLost, TaskInv, TaskTypes
<1>2. /\ \A u \in Tasks, v \in TaskWorkers : u # m.task \/ v # w => (TaskRuns(u, v)' <=> TaskRuns(u, v))
  BY <1>1, Zenon DEF TaskRuns
<1>3. /\ broker' \in [Messages -> Nat]
      /\ broker'[m] = broker[m] + 1 /\ broker'[m] > 0
      /\ \A n \in Messages : n # m => broker'[n] = broker[n]
  BY <1>0, <1>1, SentAdds, Zenon DEF TaskInv, TaskTypes
<1>4. TaskWaits(m.task)' /\ \A u \in Tasks : u # m.task => (TaskWaits(u)' <=> TaskWaits(u))
  BY <1>0, <1>3, Zenon DEF TaskWaits
<1>5. TaskTypes'
  <2>1. slot' \in [TaskWorkers -> Messages \cup {NoMessage}]
    BY Zenon DEF WorkerLost, TaskInv, TaskTypes
  <2>2. ranIt' \in [TaskWorkers -> BOOLEAN]
    BY Zenon DEF WorkerLost, TaskInv, TaskTypes
  <2> QED BY <1>1, <1>3, <2>1, <2>2, Zenon DEF TaskInv, TaskTypes
<1>6. MessagesSound'
  <2>1. m.retries <= MaxEmailRetries
    BY <1>0, TaskAssumption
  <2>2. \A n \in Messages : broker'[n] > 0 => kind'[n.task] # "none" /\ n.retries <= MaxEmailRetries
    BY <1>0, <1>1, <1>3, <2>1, Zenon DEF TaskInv, MessagesSound
  <2>3. /\ \A v \in TaskWorkers : slot'[v] # NoMessage =>
             kind[slot'[v].task] # "none" /\ slot'[v].retries <= tries[slot'[v].task]
        /\ \A v \in TaskWorkers : ranIt'[v] => slot'[v] # NoMessage
    BY <1>1 DEF TaskInv, MessagesSound
  <2>4. \A u \in Tasks : kind[u] = "none" => result[u] = "PENDING"
    BY Zenon DEF TaskInv, MessagesSound
  <2> QED BY <1>1, <2>2, <2>3, <2>4, Zenon DEF MessagesSound
<1>7. CarriedOn' /\ EmailTriedToTheEnd'
  <2>1. CarriedOn'
    BY <1>1, <1>2, <1>4, Zenon DEF TaskInv, CarriedOn
  <2> QED BY <1>1, <2>1, Zenon DEF TaskInv, EmailTriedToTheEnd
<1>8. ASSUME NEW u \in Tasks PROVE OneCopy(u)'
  <2>1. CASE u = m.task
    BY <1>1, <2>1, Zenon DEF OneCopy
  <2>2. CASE u # m.task
    BY <1>0, <1>1, <1>2, <1>3, <1>4, <2>2, CopiesUntouched, Zenon
  <2> QED BY <2>1, <2>2, Zenon
<1> QED BY <1>5, <1>6, <1>7, <1>8, Zenon DEF TaskInv

(* Only a reservation or a run changes a result, and a task that has ended  *)
(* has nothing to reserve or to run unless a worker was lost with it.       *)
LEMMA OutcomeStands ==
  ASSUME TaskInv, BackgroundNext, NEW t \in Tasks, result[t] \in Ended, t \notin rerun
  PROVE  result'[t] = result[t]
<1>1. ~TaskWaits(t) /\ \A w \in TaskWorkers : ~TaskRuns(t, w)
  BY Zenon DEF TaskInv, OneCopy
<1>2. ASSUME NEW w \in TaskWorkers, Reserve(w) PROVE result'[t] = result[t]
  BY <1>1, <1>2, Zenon DEF Reserve, TaskWaits, TaskInv, TaskTypes
<1>3. ASSUME NEW w \in TaskWorkers, NEW s \in Ended, TaskEnds(w, s) PROVE result'[t] = result[t]
  BY <1>1, <1>3, Zenon DEF TaskEnds, TaskRuns, TaskInv, TaskTypes
<1>4. ASSUME NEW w \in TaskWorkers, TaskRetries(w) PROVE result'[t] = result[t]
  BY <1>1, <1>4, Zenon DEF TaskRetries, TaskRuns, TaskInv, TaskTypes
<1> QED BY <1>2, <1>3, <1>4, TaskStepKinds, ZenonT(30) DEF Dispatched, AcknowledgeLate, WorkerLost

(* For any number of tasks, workers and lost workers: a dispatched task    *)
(* without an outcome waits or runs, an email that failed was tried to the *)
(* end of its retries, and an outcome stands unless a worker was lost with *)
(* the task.                                                               *)
THEOREM BackgroundTheorem == BackgroundSpec => TasksKept
<1>1. BackgroundInit => TaskInv
  <2> SUFFICES ASSUME BackgroundInit PROVE TaskInv
    BY Zenon
  <2>1. TaskTypes
    BY TaskAssumption DEF BackgroundInit, TaskTypes, TaskResults
  <2>2. MessagesSound /\ CarriedOn /\ EmailTriedToTheEnd
    BY DEF BackgroundInit, MessagesSound, CarriedOn, EmailTriedToTheEnd
  <2>3. \A t \in Tasks : OneCopy(t)
    BY DEF BackgroundInit, OneCopy, TaskWaits, TaskRuns
  <2> QED BY <2>1, <2>2, <2>3, Zenon DEF TaskInv
<1>2. TaskInv /\ [BackgroundNext]_backgroundVars => TaskInv'
  <2> SUFFICES ASSUME TaskInv, [BackgroundNext]_backgroundVars PROVE TaskInv'
    BY Zenon
  <2>1. CASE BackgroundNext
    BY <2>1, TaskStepKinds, DispatchKeeps, ReserveKeeps, EndsKeeps, RetriesKeeps,
       AcknowledgeKeeps, LostKeeps, Zenon
  <2>2. CASE UNCHANGED backgroundVars
    <3>1. /\ \A u \in Tasks, v \in TaskWorkers : TaskRuns(u, v)' <=> TaskRuns(u, v)
          /\ \A u \in Tasks : TaskWaits(u)' <=> TaskWaits(u)
      BY <2>2, Zenon DEF backgroundVars, TaskRuns, TaskWaits
    <3>2. TaskTypes' /\ MessagesSound'
      BY <2>2, Zenon DEF backgroundVars, TaskInv, TaskTypes, MessagesSound
    <3>3. CarriedOn' /\ EmailTriedToTheEnd'
      BY <2>2, <3>1, Zenon DEF backgroundVars, TaskInv, CarriedOn, EmailTriedToTheEnd
    <3>4. \A t \in Tasks : OneCopy(t)'
      BY <2>2, <3>1, CopiesUntouched, Zenon DEF backgroundVars
    <3> QED BY <3>2, <3>3, <3>4, Zenon DEF TaskInv
  <2> QED BY <2>1, <2>2, Zenon
<1>3. TaskInv => NoTaskLost /\ EmailTriedToTheEnd
  BY Zenon DEF TaskInv, CarriedOn, TaskWaits, TaskRuns, NoTaskLost
<1>4. TaskInv /\ [BackgroundNext]_backgroundVars =>
        [\A t \in Tasks : result[t] \in Ended /\ t \notin rerun => result'[t] = result[t]]_backgroundVars
  BY OutcomeStands, Zenon
<1> QED BY <1>1, <1>2, <1>3, <1>4, PTL DEF BackgroundSpec, TasksKept, OutcomeStandsUnlessRerun

-----------------------------------------------------------------------------
(***************************************************************************)
(* The application's lifespan and the clients it opens and closes:         *)
(* AppLifespan.tla. One lemma per conjunct of the invariant, one step per  *)
(* action of the module.                                                   *)
(***************************************************************************)

(* The phases of the lifespan from which on a client of the start exists,  *)
(* up to the one that closes it.                                           *)
KafkaUp == {"seed", "serving", "closeKafka"}
ChannelUp == {"initKafka", "seed", "serving", "closeKafka", "closeChannel"}
ConnectionUp == {"connected"} \cup ChannelUp
RedisUp == {"initRabbit", "closeConnection", "closeRedis"} \cup ConnectionUp

(* The phases of the lifespan, and those of a request.                     *)
LifespanPhases ==
  {"ping", "initRedis", "pinging", "disconnect", "dispose", "down", "failed"} \cup RedisUp
RequestPhases ==
  {"idle", "initRedis", "pinging", "initRabbit", "connected", "initKafka", "served"}

(* The types of the globals, the locals and the program counters.          *)
LifespanTypes ==
  /\ lsPc \in [Coroutines -> LifespanPhases \cup RequestPhases]
  /\ lsPc[Lifespan] \in LifespanPhases
  /\ \A r \in LsRequests : lsPc[r] \in RequestPhases
  /\ lsLocal \in [Coroutines -> Nat]
  /\ handle \in [LsRequests -> Nat]
  /\ redisPool \in Nat /\ redisClient \in Nat /\ connection \in Nat /\ channel \in Nat
  /\ producer \in Nat /\ lastClient \in Nat

(* The clients of the start are in the globals as long as the lifespan has *)
(* not begun to close them, so a request opens one only after that.        *)
GlobalsSet ==
  /\ lsPc[Lifespan] \in KafkaUp => producer > 0
  /\ lsPc[Lifespan] \in ChannelUp => channel > 0
  /\ lsPc[Lifespan] \in RedisUp => redisClient > 0
  /\ lsPc[Lifespan] = "pinging" => lsLocal[Lifespan] = redisPool /\ redisPool > 0
  /\ lsPc[Lifespan] = "connected" => lsLocal[Lifespan] = connection /\ connection > 0

(* The phases of a start that does not serve yet, or failed.               *)
BeforeServing ==
  {"ping", "initRedis", "pinging", "initRabbit", "connected", "initKafka", "seed", "failed"}

(* A request that opens a client found it closed. *)
ReopenedLate ==
  \A r \in LsRequests :
    /\ lsPc[Lifespan] \in BeforeServing => lsPc[r] = "idle"
    /\ lsPc[r] = "initKafka" => lsPc[Lifespan] \notin KafkaUp
    /\ lsPc[r] \in {"initRabbit", "connected"} => lsPc[Lifespan] \notin ChannelUp
    /\ lsPc[r] \in {"initRedis", "pinging"} => lsPc[Lifespan] \notin RedisUp

(* The connections nobody has closed and nothing excuses. *)
Pending == opened \ (closed \cup excused)

(* A pending connection is one the rest of the shutdown closes: it is in   *)
(* the global, or in the local of the close that is awaited.               *)
PendingHeld ==
  lsPc[Lifespan] # "failed" =>
    \A x \in Pending :
      /\ x # 0
      /\ \/ x = producer /\ lsPc[Lifespan] \in KafkaUp
         \/ x = connection /\ lsPc[Lifespan] \in ConnectionUp
         \/ x = redisPool /\ lsPc[Lifespan] \in RedisUp
         \/ x = lsLocal[Lifespan] /\ lsPc[Lifespan] \in {"closeConnection", "disconnect"}

(* The requests get_redis() served before the shutdown have one client,    *)
(* the global one as long as the lifespan serves.                          *)
StoreShared ==
  /\ \A r \in sharedStore : r \in LsRequests /\ lsPc[r] = "served"
  /\ lsPc[Lifespan] \in BeforeServing => sharedStore = {}
  /\ lsPc[Lifespan] = "serving" =>
       \A r \in sharedStore : handle[r] = redisClient /\ (isFallback = TRUE => fallbackLoop = TRUE)
  /\ RequestsShareOneStore

(* The inductive invariant of the lifespan.                                *)
LifespanInv == LifespanTypes /\ GlobalsSet /\ ReopenedLate /\ PendingHeld /\ StoreShared

(* Every step keeps the types.                                             *)
LEMMA LifespanKeepsLifespanTypes ==
  ASSUME LifespanInv, LifespanNext
  PROVE  LifespanTypes'
<1> USE LifespanAssumption DEF LifespanInv, LifespanTypes, LifespanPhases, RequestPhases,
     Coroutines, RedisUp, ConnectionUp, ChannelUp, redisVars, rabbitVars
<1>1. CASE VerifyDatabase BY <1>1 DEF VerifyDatabase
<1>2. CASE SeedAndServe BY <1>2 DEF SeedAndServe
<1>3. CASE DrainEnds BY <1>3, Zenon DEF DrainEnds
<1>4. CASE CloseKafkaProducer BY <1>4, Zenon DEF CloseKafkaProducer, Close
<1>5. CASE CloseRabbitmqChannel BY <1>5 DEF CloseRabbitmqChannel
<1>6. CASE CloseRabbitmqConnection BY <1>6, Zenon DEF CloseRabbitmqConnection, Close
<1>7. CASE CloseRedisClient BY <1>7 DEF CloseRedisClient
<1>8. CASE DisconnectRedisPool BY <1>8, Zenon DEF DisconnectRedisPool, Close
<1>9. CASE DisposeEngines BY <1>9, Zenon DEF DisposeEngines
<1>10. ASSUME NEW c \in Coroutines, InitRedisPool(c) PROVE LifespanTypes'
  BY <1>10 DEF InitRedisPool
<1>11. ASSUME NEW c \in Coroutines, PingRedis(c) PROVE LifespanTypes'
  BY <1>11 DEF PingRedis, Opened, Initialised
<1>12. ASSUME NEW c \in Coroutines, InitRabbitmq(c) PROVE LifespanTypes'
  BY <1>12 DEF InitRabbitmq, Opened, Initialised
<1>13. ASSUME NEW c \in Coroutines, OpenChannel(c) PROVE LifespanTypes'
  BY <1>13 DEF OpenChannel, Initialised
<1>14. ASSUME NEW c \in Coroutines, InitKafkaProducer(c) PROVE LifespanTypes'
  BY <1>14 DEF InitKafkaProducer, Opened, Initialised
<1>15. ASSUME NEW r \in LsRequests, GetRedis(r) PROVE LifespanTypes'
  BY <1>15 DEF GetRedis, Asks, Given
<1>16. ASSUME NEW r \in LsRequests, JobServiceGetRedis(r) PROVE LifespanTypes'
  BY <1>16 DEF JobServiceGetRedis, Asks, Given
<1>17. ASSUME NEW r \in LsRequests, GetRabbitmqChannel(r) PROVE LifespanTypes'
  BY <1>17 DEF GetRabbitmqChannel, Asks, Given
<1>18. ASSUME NEW r \in LsRequests, GetKafkaProducer(r) PROVE LifespanTypes'
  BY <1>18, SMT, Z3 DEF GetKafkaProducer, Asks, Given
<1> HIDE DEF LifespanInv, LifespanTypes, LifespanPhases, RequestPhases, Coroutines,
     RedisUp, ConnectionUp, ChannelUp, redisVars, rabbitVars
<1>19. QED
  BY <1>1, <1>2, <1>3, <1>4, <1>5, <1>6, <1>7, <1>8, <1>9, <1>10, <1>11, <1>12, <1>13,
       <1>14, <1>15, <1>16, <1>17, <1>18, ZenonT(30) DEF LifespanNext, LifespanStep, RequestStep,
       Coroutines

(* A global is set by the start and unset only by its own close.           *)
LEMMA LifespanKeepsGlobalsSet ==
  ASSUME LifespanInv, LifespanNext
  PROVE  GlobalsSet'
<1> USE LifespanAssumption DEF LifespanInv, LifespanTypes, GlobalsSet, ReopenedLate,
     Coroutines, KafkaUp, ChannelUp, ConnectionUp, RedisUp, BeforeServing, Requesting,
     Closing, redisVars, rabbitVars
<1>1. CASE VerifyDatabase BY <1>1, Zenon DEF VerifyDatabase
<1>2. CASE SeedAndServe BY <1>2, Zenon DEF SeedAndServe
<1>3. CASE DrainEnds BY <1>3, Zenon DEF DrainEnds
<1>4. CASE CloseKafkaProducer BY <1>4, Zenon DEF CloseKafkaProducer, Close
<1>5. CASE CloseRabbitmqChannel BY <1>5, Zenon DEF CloseRabbitmqChannel
<1>6. CASE CloseRabbitmqConnection BY <1>6, Zenon DEF CloseRabbitmqConnection, Close
<1>7. CASE CloseRedisClient BY <1>7 DEF CloseRedisClient
<1>8. CASE DisconnectRedisPool BY <1>8, Zenon DEF DisconnectRedisPool, Close
<1>9. CASE DisposeEngines BY <1>9, Zenon DEF DisposeEngines
<1>10. ASSUME NEW c \in Coroutines, InitRedisPool(c) PROVE GlobalsSet'
  BY <1>10 DEF InitRedisPool
<1>11. ASSUME NEW c \in Coroutines, PingRedis(c) PROVE GlobalsSet'
  BY <1>11 DEF PingRedis, Opened, Initialised
<1>12. ASSUME NEW c \in Coroutines, InitRabbitmq(c) PROVE GlobalsSet'
  BY <1>12 DEF InitRabbitmq, Opened, Initialised
<1>13. ASSUME NEW c \in Coroutines, OpenChannel(c) PROVE GlobalsSet'
  BY <1>13 DEF OpenChannel, Initialised
<1>14. ASSUME NEW c \in Coroutines, InitKafkaProducer(c) PROVE GlobalsSet'
  BY <1>14 DEF InitKafkaProducer, Opened, Initialised
<1>15. ASSUME NEW r \in LsRequests, GetRedis(r) PROVE GlobalsSet'
  BY <1>15 DEF GetRedis, Asks, Given
<1>16. ASSUME NEW r \in LsRequests, JobServiceGetRedis(r) PROVE GlobalsSet'
  BY <1>16 DEF JobServiceGetRedis, Asks, Given
<1>17. ASSUME NEW r \in LsRequests, GetRabbitmqChannel(r) PROVE GlobalsSet'
  BY <1>17, ZenonT(30) DEF GetRabbitmqChannel, Asks, Given
<1>18. ASSUME NEW r \in LsRequests, GetKafkaProducer(r) PROVE GlobalsSet'
  BY <1>18, SMT, Z3 DEF GetKafkaProducer, Asks, Given
<1> HIDE DEF LifespanInv, LifespanTypes, GlobalsSet, ReopenedLate, Coroutines, KafkaUp,
     ChannelUp, ConnectionUp, RedisUp, BeforeServing, Requesting, Closing, redisVars,
     rabbitVars
<1>19. QED
  BY <1>1, <1>2, <1>3, <1>4, <1>5, <1>6, <1>7, <1>8, <1>9, <1>10, <1>11, <1>12, <1>13,
       <1>14, <1>15, <1>16, <1>17, <1>18, Zenon DEF LifespanNext, LifespanStep, RequestStep,
       Coroutines

(* A request that opens a client found the global unset, so its close is   *)
(* past.                                                                   *)
LEMMA LifespanKeepsReopenedLate ==
  ASSUME LifespanInv, LifespanNext
  PROVE  ReopenedLate'
<1> USE LifespanAssumption DEF LifespanInv, LifespanTypes, GlobalsSet, ReopenedLate,
     Coroutines, KafkaUp, ChannelUp, ConnectionUp, RedisUp, BeforeServing, Requesting,
     Closing, redisVars, rabbitVars
<1>1. CASE VerifyDatabase BY <1>1, Zenon DEF VerifyDatabase
<1>2. CASE SeedAndServe BY <1>2, Zenon DEF SeedAndServe
<1>3. CASE DrainEnds BY <1>3, Zenon DEF DrainEnds
<1>4. CASE CloseKafkaProducer BY <1>4, Zenon DEF CloseKafkaProducer, Close
<1>5. CASE CloseRabbitmqChannel BY <1>5 DEF CloseRabbitmqChannel
<1>6. CASE CloseRabbitmqConnection BY <1>6, Zenon DEF CloseRabbitmqConnection, Close
<1>7. CASE CloseRedisClient BY <1>7 DEF CloseRedisClient
<1>8. CASE DisconnectRedisPool BY <1>8, Zenon DEF DisconnectRedisPool, Close
<1>9. CASE DisposeEngines BY <1>9, Zenon DEF DisposeEngines
<1>10. ASSUME NEW c \in Coroutines, InitRedisPool(c) PROVE ReopenedLate'
  BY <1>10 DEF InitRedisPool
<1>11. ASSUME NEW c \in Coroutines, PingRedis(c) PROVE ReopenedLate'
  BY <1>11 DEF PingRedis, Opened, Initialised
<1>12. ASSUME NEW c \in Coroutines, InitRabbitmq(c) PROVE ReopenedLate'
  BY <1>12 DEF InitRabbitmq, Opened, Initialised
<1>13. ASSUME NEW c \in Coroutines, OpenChannel(c) PROVE ReopenedLate'
  BY <1>13 DEF OpenChannel, Initialised
<1>14. ASSUME NEW c \in Coroutines, InitKafkaProducer(c) PROVE ReopenedLate'
  BY <1>14 DEF InitKafkaProducer, Opened, Initialised
<1>15. ASSUME NEW r \in LsRequests, GetRedis(r) PROVE ReopenedLate'
  BY <1>15 DEF GetRedis, Asks, Given
<1>16. ASSUME NEW r \in LsRequests, JobServiceGetRedis(r) PROVE ReopenedLate'
  BY <1>16 DEF JobServiceGetRedis, Asks, Given
<1>17. ASSUME NEW r \in LsRequests, GetRabbitmqChannel(r) PROVE ReopenedLate'
  BY <1>17 DEF GetRabbitmqChannel, Asks, Given
<1>18. ASSUME NEW r \in LsRequests, GetKafkaProducer(r) PROVE ReopenedLate'
  BY <1>18 DEF GetKafkaProducer, Asks, Given
<1> HIDE DEF LifespanInv, LifespanTypes, GlobalsSet, ReopenedLate, Coroutines, KafkaUp,
     ChannelUp, ConnectionUp, RedisUp, BeforeServing, Requesting, Closing, redisVars,
     rabbitVars
<1>19. QED
  BY <1>1, <1>2, <1>3, <1>4, <1>5, <1>6, <1>7, <1>8, <1>9, <1>10, <1>11, <1>12, <1>13,
       <1>14, <1>15, <1>16, <1>17, <1>18, Zenon DEF LifespanNext, LifespanStep, RequestStep,
       Coroutines

(* A connection is opened into its global and closed from it; what a       *)
(* request opens late is excused.                                          *)
LEMMA LifespanKeepsPendingHeld ==
  ASSUME LifespanInv, LifespanNext
  PROVE  PendingHeld'
<1> USE LifespanAssumption DEF LifespanInv, LifespanTypes, GlobalsSet, ReopenedLate,
     PendingHeld, Pending, Coroutines, KafkaUp, ChannelUp, ConnectionUp, RedisUp,
     BeforeServing, Requesting, Closing, redisVars, rabbitVars
<1>0. Alive
  BY Zenon DEF LifespanNext
<1>1. CASE VerifyDatabase BY <1>1, Zenon DEF VerifyDatabase
<1>2. CASE SeedAndServe BY <1>2, Zenon DEF SeedAndServe
<1>3. CASE DrainEnds BY <1>3, Zenon DEF DrainEnds
<1>4. CASE CloseKafkaProducer BY <1>4 DEF CloseKafkaProducer, Close
<1>5. CASE CloseRabbitmqChannel BY <1>5 DEF CloseRabbitmqChannel
<1>6. CASE CloseRabbitmqConnection BY <1>6 DEF CloseRabbitmqConnection, Close
<1>7. CASE CloseRedisClient BY <1>7, Zenon DEF CloseRedisClient
<1>8. CASE DisconnectRedisPool BY <1>8, Zenon DEF DisconnectRedisPool, Close
<1>9. CASE DisposeEngines BY <1>9, Zenon DEF DisposeEngines
<1>10. ASSUME NEW c \in Coroutines, InitRedisPool(c) PROVE PendingHeld'
  BY <1>10 DEF InitRedisPool
<1>11. ASSUME NEW c \in Coroutines, PingRedis(c) PROVE PendingHeld'
  <2>1. CASE c = Lifespan
    BY <1>11, <2>1, SMT, Z3 DEF PingRedis, Opened, Initialised
  <2>2. CASE c \in LsRequests
    <3>1. Closing /\ Pending' \subseteq Pending /\ lsPc'[Lifespan] = lsPc[Lifespan]
      BY <1>0, <1>11, <2>2, Zenon DEF PingRedis, Opened, Initialised, Alive, LifespanPhases
    <3>2. QED BY <1>11, <2>2, <3>1 DEF PingRedis, Opened, Initialised
  <2>3. QED BY <2>1, <2>2, ZenonT(30)
<1>12. ASSUME NEW c \in Coroutines, InitRabbitmq(c) PROVE PendingHeld'
  <2>1. CASE c = Lifespan
    BY <1>12, <2>1 DEF InitRabbitmq, Opened, Initialised
  <2>2. CASE c \in LsRequests
    <3>1. Closing /\ Pending' \subseteq Pending /\ lsPc'[Lifespan] = lsPc[Lifespan]
      BY <1>0, <1>12, <2>2, Zenon DEF InitRabbitmq, Opened, Initialised, Alive, LifespanPhases
    <3>2. QED BY <1>12, <2>2, <3>1, ZenonT(30) DEF InitRabbitmq, Opened, Initialised
  <2>3. QED BY <2>1, <2>2, Zenon
<1>13. ASSUME NEW c \in Coroutines, OpenChannel(c) PROVE PendingHeld'
  BY <1>13, ZenonT(30) DEF OpenChannel, Initialised
<1>14. ASSUME NEW c \in Coroutines, InitKafkaProducer(c) PROVE PendingHeld'
  <2>1. CASE c = Lifespan
    BY <1>14, <2>1 DEF InitKafkaProducer, Opened, Initialised
  <2>2. CASE c \in LsRequests
    <3>1. Closing /\ Pending' \subseteq Pending /\ lsPc'[Lifespan] = lsPc[Lifespan]
      BY <1>0, <1>14, <2>2, Zenon DEF InitKafkaProducer, Opened, Initialised, Alive, LifespanPhases
    <3>2. QED BY <1>14, <2>2, <3>1, ZenonT(30) DEF InitKafkaProducer, Opened, Initialised
  <2>3. QED BY <2>1, <2>2, Zenon
<1>15. ASSUME NEW r \in LsRequests, GetRedis(r) PROVE PendingHeld'
  BY <1>15 DEF GetRedis, Asks, Given
<1>16. ASSUME NEW r \in LsRequests, JobServiceGetRedis(r) PROVE PendingHeld'
  BY <1>16 DEF JobServiceGetRedis, Asks, Given
<1>17. ASSUME NEW r \in LsRequests, GetRabbitmqChannel(r) PROVE PendingHeld'
  BY <1>17 DEF GetRabbitmqChannel, Asks, Given
<1>18. ASSUME NEW r \in LsRequests, GetKafkaProducer(r) PROVE PendingHeld'
  BY <1>18 DEF GetKafkaProducer, Asks, Given
<1> HIDE DEF LifespanInv, LifespanTypes, GlobalsSet, ReopenedLate, PendingHeld, Pending,
     Coroutines, KafkaUp, ChannelUp, ConnectionUp, RedisUp, BeforeServing, Requesting,
     Closing, redisVars, rabbitVars
<1>19. QED
  BY <1>1, <1>2, <1>3, <1>4, <1>5, <1>6, <1>7, <1>8, <1>9, <1>10, <1>11, <1>12, <1>13,
       <1>14, <1>15, <1>16, <1>17, <1>18, Zenon DEF LifespanNext, LifespanStep, RequestStep,
       Coroutines

(* get_redis() hands out the global client as long as the lifespan serves. *)
LEMMA LifespanKeepsStoreShared ==
  ASSUME LifespanInv, LifespanNext
  PROVE  StoreShared'
<1> USE LifespanAssumption DEF LifespanInv, LifespanTypes, GlobalsSet, ReopenedLate,
     StoreShared, RequestsShareOneStore, Coroutines, KafkaUp, ChannelUp, ConnectionUp,
     RedisUp, BeforeServing, Requesting, Closing, redisVars, rabbitVars
<1>1. CASE VerifyDatabase BY <1>1, Zenon DEF VerifyDatabase
<1>2. CASE SeedAndServe BY <1>2, Zenon DEF SeedAndServe
<1>3. CASE DrainEnds BY <1>3, Zenon DEF DrainEnds
<1>4. CASE CloseKafkaProducer BY <1>4 DEF CloseKafkaProducer, Close
<1>5. CASE CloseRabbitmqChannel BY <1>5 DEF CloseRabbitmqChannel
<1>6. CASE CloseRabbitmqConnection BY <1>6 DEF CloseRabbitmqConnection, Close
<1>7. CASE CloseRedisClient BY <1>7 DEF CloseRedisClient
<1>8. CASE DisconnectRedisPool BY <1>8 DEF DisconnectRedisPool, Close
<1>9. CASE DisposeEngines BY <1>9 DEF DisposeEngines
<1>10. ASSUME NEW c \in Coroutines, InitRedisPool(c) PROVE StoreShared'
  BY <1>10 DEF InitRedisPool
<1>11. ASSUME NEW c \in Coroutines, PingRedis(c) PROVE StoreShared'
  BY <1>11 DEF PingRedis, Opened, Initialised
<1>12. ASSUME NEW c \in Coroutines, InitRabbitmq(c) PROVE StoreShared'
  BY <1>12 DEF InitRabbitmq, Opened, Initialised
<1>13. ASSUME NEW c \in Coroutines, OpenChannel(c) PROVE StoreShared'
  BY <1>13 DEF OpenChannel, Initialised
<1>14. ASSUME NEW c \in Coroutines, InitKafkaProducer(c) PROVE StoreShared'
  BY <1>14 DEF InitKafkaProducer, Opened, Initialised
<1>15. ASSUME NEW r \in LsRequests, GetRedis(r) PROVE StoreShared'
  BY <1>15 DEF GetRedis, Asks, Given
<1>16. ASSUME NEW r \in LsRequests, JobServiceGetRedis(r) PROVE StoreShared'
  BY <1>16 DEF JobServiceGetRedis, Asks, Given
<1>17. ASSUME NEW r \in LsRequests, GetRabbitmqChannel(r) PROVE StoreShared'
  BY <1>17 DEF GetRabbitmqChannel, Asks, Given
<1>18. ASSUME NEW r \in LsRequests, GetKafkaProducer(r) PROVE StoreShared'
  BY <1>18 DEF GetKafkaProducer, Asks, Given
<1> HIDE DEF LifespanInv, LifespanTypes, GlobalsSet, ReopenedLate, StoreShared,
     RequestsShareOneStore, Coroutines, KafkaUp, ChannelUp, ConnectionUp, RedisUp,
     BeforeServing, Requesting, Closing, redisVars, rabbitVars
<1>19. QED
  BY <1>1, <1>2, <1>3, <1>4, <1>5, <1>6, <1>7, <1>8, <1>9, <1>10, <1>11, <1>12, <1>13,
       <1>14, <1>15, <1>16, <1>17, <1>18, Zenon DEF LifespanNext, LifespanStep, RequestStep,
       Coroutines

(* The invariant of the lifespan is inductive.                             *)
LEMMA LifespanStepKeeps == LifespanInv /\ [LifespanNext]_lifespanVars => LifespanInv'
<1> SUFFICES ASSUME LifespanInv, [LifespanNext]_lifespanVars PROVE LifespanInv'
  BY Zenon
<1>1. CASE LifespanNext
  BY <1>1, LifespanKeepsLifespanTypes, LifespanKeepsGlobalsSet, LifespanKeepsReopenedLate,
     LifespanKeepsPendingHeld, LifespanKeepsStoreShared, Zenon DEF LifespanInv
<1>2. CASE UNCHANGED lifespanVars
  BY <1>2 DEF lifespanVars, redisVars, rabbitVars, LifespanInv, LifespanTypes, GlobalsSet,
     ReopenedLate, PendingHeld, Pending, StoreShared, RequestsShareOneStore
<1>3. QED BY <1>1, <1>2, Zenon

(* For any number of requests, and however the clients fail: every         *)
(* connection the start opened is closed when the process is down, and the *)
(* requests get_redis() serves before the shutdown share one store.        *)
THEOREM LifespanTheorem == LifespanSpec => []ClientsKept
<1>1. LifespanInit => LifespanInv
  BY LifespanAssumption
     DEF LifespanInit, LifespanInv, LifespanTypes, LifespanPhases, RequestPhases, GlobalsSet,
         ReopenedLate, PendingHeld, Pending, StoreShared, RequestsShareOneStore, Coroutines,
         KafkaUp, ChannelUp, ConnectionUp, RedisUp, BeforeServing
<1>2. LifespanInv => ClientsKept
  BY Zenon DEF LifespanInv, PendingHeld, Pending, StoreShared, ClientsKept, ShutdownForgetsNothing,
         KafkaUp, ChannelUp, ConnectionUp, RedisUp
<1>3. QED BY <1>1, <1>2, LifespanStepKeeps, PTL DEF LifespanSpec
=============================================================================
