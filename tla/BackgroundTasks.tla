--------------------------- MODULE BackgroundTasks ---------------------------
(***************************************************************************)
(* The Celery queue: core/celery_app.py, tasks/report_tasks.py,            *)
(* tasks/scheduled_tasks.py, services/task_service.py and                  *)
(* services/schedule_service.py: reports, e-mails that retry, and the      *)
(* periodic tasks, acknowledged late, with results polled by task id.      *)
(* Celery itself (broker, workers, result backend) is external.            *)
(***************************************************************************)
EXTENDS Naturals, FiniteSets

CONSTANTS
    Tasks,            \* task ids
    TaskWorkers,      \* Celery worker slots (worker_prefetch_multiplier = 1)
    MaxEmailRetries,  \* max_retries of send_transactional_email
    MaxWorkerFaults   \* a bound on the workers lost

ASSUME TaskAssumption ==
    /\ MaxEmailRetries \in Nat /\ MaxWorkerFaults \in Nat
    /\ "none" \notin Tasks

VARIABLES
    kind,        \* per task: "none", "report", "email" or "periodic"
    smtpFails,   \* per task: its context says simulate_error
    broker,      \* the broker: how many messages of [task, retries] wait
    slot,        \* per worker: the message it holds, unacknowledged, or NoMessage
    ranIt,       \* per worker: the body of the task has returned, the ack is due
    result,      \* per task: its state in the result backend
    tries,       \* per task: the highest retry number that ran
    faults,      \* workers lost so far
    rerun        \* tasks a lost worker made the broker deliver again
backgroundVars == <<kind, smtpFails, broker, slot, ranIt, result, tries, faults, rerun>>

Messages == [task : Tasks, retries : 0 .. MaxEmailRetries + 1]
NoMessage == [task |-> "none", retries |-> 0]
Ended == {"SUCCESS", "FAILURE"}

BackgroundInit ==
    /\ kind = [t \in Tasks |-> "none"]
    /\ smtpFails = [t \in Tasks |-> FALSE]
    /\ broker = [m \in Messages |-> 0]
    /\ slot = [w \in TaskWorkers |-> NoMessage]
    /\ ranIt = [w \in TaskWorkers |-> FALSE]
    /\ result = [t \in Tasks |-> "PENDING"]
    /\ tries = [t \in Tasks |-> 0]
    /\ faults = 0
    /\ rerun = {}

-----------------------------------------------------------------------------
Sent(m) == [broker EXCEPT ![m] = @ + 1]

Delay(t, k, fails) ==
    /\ kind[t] = "none"
    /\ kind' = [kind EXCEPT ![t] = k]
    /\ smtpFails' = [smtpFails EXCEPT ![t] = fails]
    /\ broker' = Sent([task |-> t, retries |-> 0])
    /\ UNCHANGED <<slot, ranIt, result, tries, faults, rerun>>

(* dispatch_report_generation and its route; dispatch_transactional_email. *)
DispatchReportGeneration(t) == Delay(t, "report", FALSE)
DispatchTransactionalEmail(t) == \E fails \in BOOLEAN : Delay(t, "email", fails)

(* A periodic task: triggered by hand (a name the registry does not know is *)
(* refused), or by the entries of beat_schedule.                           *)
TriggerScheduledTaskManually(t) == Delay(t, "periodic", FALSE)

(* Celery Beat sends an entry of beat_schedule that is due. *)
BeatSchedule(t) == Delay(t, "periodic", FALSE)

(* A worker reserves a message; task_track_started records STARTED. *)
Reserve(w) ==
    \E m \in Messages :
        /\ slot[w] = NoMessage /\ broker[m] > 0
        /\ broker' = [broker EXCEPT ![m] = @ - 1]
        /\ slot' = [slot EXCEPT ![w] = m]
        /\ result' = [result EXCEPT ![m.task] = "STARTED"]
        /\ tries' = [tries EXCEPT ![m.task] = IF @ < m.retries THEN m.retries ELSE @]
        /\ UNCHANGED <<kind, smtpFails, ranIt, faults, rerun>>

Finish(w, state) ==
    /\ slot[w] # NoMessage /\ ~ranIt[w]
    /\ result' = [result EXCEPT ![slot[w].task] = state]
    /\ ranIt' = [ranIt EXCEPT ![w] = TRUE]

(* generate_pdf_report: computes and returns. *)
GeneratePdfReport(w) ==
    /\ kind[slot[w].task] = "report"
    /\ Finish(w, "SUCCESS")
    /\ UNCHANGED <<kind, smtpFails, broker, slot, tries, faults, rerun>>

(* nightly_reconciliation_audit, prune_expired_sessions_and_tokens and     *)
(* system_health_heartbeat: each computes a summary and returns.           *)
PeriodicTask(w) ==
    /\ kind[slot[w].task] = "periodic"
    /\ Finish(w, "SUCCESS")
    /\ UNCHANGED <<kind, smtpFails, broker, slot, tries, faults, rerun>>

(* self.retry publishes the next attempt; the countdown grows with it. *)
RetryMessage(m) == [m EXCEPT !.retries = @ + 1]
MayRetryEmail(m) == m.retries < MaxEmailRetries

(* send_transactional_email: on an error it retries while it may; the error *)
(* of the last attempt is the task's failure.                              *)
SendTransactionalEmail(w) ==
    LET m == slot[w]
    IN  /\ kind[m.task] = "email"
        /\ \/ /\ ~smtpFails[m.task]
              /\ Finish(w, "SUCCESS")
              /\ UNCHANGED broker
           \/ /\ smtpFails[m.task] /\ MayRetryEmail(m)
              /\ Finish(w, "RETRY")
              /\ broker' = Sent(RetryMessage(m))
           \/ /\ smtpFails[m.task] /\ ~MayRetryEmail(m)
              /\ Finish(w, "FAILURE")
              /\ UNCHANGED broker
        /\ UNCHANGED <<kind, smtpFails, slot, tries, faults, rerun>>

(* Mutation of AcknowledgeLate: the finished message is requeued.          *)
MutAcknowledgeLate(w) ==
    /\ ranIt[w]
    /\ broker' = Sent(slot[w])
    /\ slot' = [slot EXCEPT ![w] = NoMessage]
    /\ ranIt' = [ranIt EXCEPT ![w] = FALSE]
    /\ UNCHANGED <<kind, smtpFails, result, tries, faults, rerun>>

(* task_acks_late: the message is acknowledged after the task has returned. *)
AcknowledgeLate(w) ==
    /\ ranIt[w]
    /\ slot' = [slot EXCEPT ![w] = NoMessage]
    /\ ranIt' = [ranIt EXCEPT ![w] = FALSE]
    /\ UNCHANGED <<kind, smtpFails, broker, result, tries, faults, rerun>>

(* The worker node is lost with its message unacknowledged: the broker      *)
(* delivers it again, whether or not the task had returned.                *)
WorkerLost(w) ==
    /\ slot[w] # NoMessage
    /\ faults < MaxWorkerFaults
    /\ faults' = faults + 1
    /\ broker' = Sent(slot[w])
    /\ rerun' = rerun \cup {slot[w].task}
    /\ slot' = [slot EXCEPT ![w] = NoMessage]
    /\ ranIt' = [ranIt EXCEPT ![w] = FALSE]
    /\ UNCHANGED <<kind, smtpFails, result, tries>>

TaskWorkerStep(w) ==
    (slot[w] # NoMessage /\ (GeneratePdfReport(w) \/ PeriodicTask(w) \/ SendTransactionalEmail(w)))
    \/ Reserve(w) \/ AcknowledgeLate(w)

BackgroundNext ==
    \/ \E t \in Tasks : \/ DispatchReportGeneration(t) \/ DispatchTransactionalEmail(t)
                        \/ TriggerScheduledTaskManually(t) \/ BeatSchedule(t)
    \/ \E w \in TaskWorkers : TaskWorkerStep(w) \/ WorkerLost(w)

(* A worker that is up keeps taking and finishing tasks. *)
BackgroundFairness == \A w \in TaskWorkers : WF_backgroundVars(TaskWorkerStep(w))
BackgroundSpec == BackgroundInit /\ [][BackgroundNext]_backgroundVars /\ BackgroundFairness

-----------------------------------------------------------------------------
(* "guarantees task is re-queued if worker process crashes mid-execution"   *)
(* (celery_app.py:31): a dispatched task without an outcome always has a    *)
(* message that waits or that a worker holds, through retries and losses.   *)
NoTaskLost ==
    \A t \in Tasks : kind[t] # "none" /\ result[t] \notin Ended =>
       \/ \E m \in Messages : m.task = t /\ broker[m] > 0
       \/ \E w \in TaskWorkers : slot[w].task = t

(* An e-mail is given up only after the first attempt and all its retries   *)
(* have run (report_tasks.py:63-85), also when workers were lost meanwhile. *)
EmailTriedToTheEnd ==
    \A t \in Tasks : kind[t] = "email" /\ result[t] = "FAILURE" => tries[t] = MaxEmailRetries

(* A poll that answered with an outcome is never contradicted by a later    *)
(* one (task_service.py:36-65), unless a worker was lost before its late    *)
(* acknowledgement and the task ran again.                                 *)
OutcomeStandsUnlessRerun ==
    [][\A t \in Tasks : result[t] \in Ended /\ t \notin rerun => result'[t] = result[t]]_backgroundVars

(* Every dispatched task reaches an outcome, with as many workers lost as   *)
(* MaxWorkerFaults allows.                                                 *)
EveryTaskEnds == \A t \in Tasks : (kind[t] # "none") ~> (result[t] \in Ended)

(* A dispatched task is kept until it has an outcome, tried as often as    *)
(* promised, and its outcome stands.                                       *)
TasksKept ==
  /\ []NoTaskLost
  /\ []EmailTriedToTheEnd
  /\ OutcomeStandsUnlessRerun
=============================================================================
