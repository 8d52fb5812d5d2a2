------------------------- MODULE RegistrationEvents -------------------------
(***************************************************************************)
(* POST /users around its transaction: the request-scoped dependencies     *)
(* (database session, then transaction context, torn down in reverse), the *)
(* domain event published to the event bus before the commit, and the      *)
(* background tasks that fill two bounded stores.  FastAPI runs the        *)
(* background tasks after the teardown of the dependencies or, in newer    *)
(* versions, before it.                                                    *)
(***************************************************************************)
EXTENDS Naturals, Sequences, FiniteSets, Functions

CONSTANTS
  Registrations,  \* requests
  MaxEntries      \* maxlen of the notification and audit stores

ASSUME RegistrationAssumption == MaxEntries \in Nat \ {0}

VARIABLES
  tasksAfter,      \* background tasks run after the teardown
  rgPc,            \* where a request is
  txStatus,        \* TransactionStatus of its context
  staged,          \* its staged_actions is not empty
  openTxs,         \* _active_transactions
  txHistory,       \* _history
  toRun,           \* handlers gather() still waits for
  publishedCount, handledCount, errorCount,
  welcomeEmails,   \* _recorded_welcome_emails
  auditRecords,    \* _recorded_audit_logs
  committedUsers,  \* users in the database
  notices,         \* _NOTIFICATION_DISPATCH_STORE
  auditLog         \* _AUDIT_LOG_STORE

sinkVars == <<welcomeEmails, auditRecords>>
busVars == <<toRun, publishedCount, handledCount, errorCount, sinkVars>>
txVars == <<txStatus, staged, openTxs, txHistory>>
storeVars == <<notices, auditLog>>
registrationVars == <<tasksAfter, rgPc, txVars, busVars, committedUsers, storeVars>>

RegistrationInit ==
  /\ tasksAfter \in BOOLEAN
  /\ rgPc = [r \in Registrations |-> "arrive"]
  /\ txStatus = [r \in Registrations |-> "active"]
  /\ staged = [r \in Registrations |-> FALSE]
  /\ openTxs = {}
  /\ txHistory = <<>>
  /\ toRun = [r \in Registrations |-> {}]
  /\ publishedCount = 0 /\ handledCount = 0 /\ errorCount = 0
  /\ welcomeEmails = <<>> /\ auditRecords = <<>>
  /\ committedUsers = {}
  /\ notices = <<>> /\ auditLog = <<>>

RgGo(r, l) == rgPc' = [rgPc EXCEPT ![r] = l]

(* TransactionManager.begin() before the endpoint, stage() in it. *)
BeginAndStage(r) ==
  /\ rgPc[r] = "arrive"
  /\ openTxs' = openTxs \cup {r}
  /\ staged' = [staged EXCEPT ![r] = TRUE]
  /\ RgGo(r, "create")
  /\ UNCHANGED <<tasksAfter, txStatus, txHistory, busVars, committedUsers, storeVars>>

(* register_default_event_handlers(), what the lifespan subscribes to      *)
(* UserRegisteredEvent.                                                    *)
EventHandlers == {"email", "audit"}

SendWelcomeEmailOnRegistration(r) ==
  welcomeEmails' = Append(welcomeEmails, r) /\ UNCHANGED auditRecords

RecordAuditLogOnRegistration(r) ==
  auditRecords' = Append(auditRecords, r) /\ UNCHANGED welcomeEmails

Handler(h, r) ==
  \/ h = "email" /\ SendWelcomeEmailOnRegistration(r)
  \/ h = "audit" /\ RecordAuditLogOnRegistration(r)

(* EventDispatcher.publish(): a task per handler registered now. *)
Publish(r) ==
  /\ publishedCount' = publishedCount + 1
  /\ toRun' = [toRun EXCEPT ![r] = EventHandlers]
  /\ UNCHANGED <<handledCount, errorCount, sinkVars>>

(* register_user(): a duplicate or a failing insert raises; otherwise the  *)
(* row is flushed and the event published.                                 *)
RegisterUser(r) ==
  /\ rgPc[r] = "create"
  /\ \/ RgGo(r, "raised") /\ UNCHANGED busVars
     \/ RgGo(r, "gather") /\ Publish(r)
  /\ UNCHANGED <<tasksAfter, txVars, committedUsers, storeVars>>

(* _safe_execute(): the handler succeeds or its exception is counted. *)
SafeExecute(r, h) ==
  /\ rgPc[r] = "gather" /\ h \in toRun[r]
  /\ toRun' = [toRun EXCEPT ![r] = @ \ {h}]
  /\ \/ Handler(h, r) /\ handledCount' = handledCount + 1 /\ UNCHANGED errorCount
     \/ errorCount' = errorCount + 1 /\ UNCHANGED <<handledCount, sinkVars>>
  /\ UNCHANGED <<tasksAfter, rgPc, txVars, publishedCount, committedUsers, storeVars>>

(* gather() returns, the tasks are added and the response is built. *)
ReturnUser(r) ==
  /\ rgPc[r] = "gather" /\ toRun[r] = {}
  /\ RgGo(r, IF tasksAfter THEN "teardown" ELSE "tasks")
  /\ UNCHANGED <<tasksAfter, txVars, busVars, committedUsers, storeVars>>

(* deque.append() with maxlen. *)
KeepEntry(q, e) == IF Len(q) < MaxEntries THEN Append(q, e) ELSE Append(Tail(q), e)

(* send_welcome_notification(), after a sleep; then record_audit_log(). *)
SendWelcomeNotification(r) ==
  /\ rgPc[r] = "tasks"
  /\ notices' = KeepEntry(notices, r)
  /\ RgGo(r, "audit")
  /\ UNCHANGED <<tasksAfter, txVars, busVars, committedUsers, auditLog>>

RecordAuditLog(r) ==
  /\ rgPc[r] = "audit"
  /\ auditLog' = KeepEntry(auditLog, r)
  /\ RgGo(r, IF tasksAfter THEN "done" ELSE "teardown")
  /\ UNCHANGED <<tasksAfter, txVars, busVars, committedUsers, notices>>

(* Mutation of CloseTransaction: a context left active is not rolled back. *)
MutCloseTransaction(r, status) ==
  /\ txStatus' = [txStatus EXCEPT ![r] = IF status = "rolled_back" THEN @ ELSE status]
  /\ openTxs' = openTxs \ {r}
  /\ txHistory' = Append(txHistory, r)
  /\ UNCHANGED staged

(* commit() or rollback() of the context, then TransactionManager.close(). *)
CloseTransaction(r, status) ==
  /\ txStatus' = [txStatus EXCEPT ![r] = status]
  /\ staged' = [staged EXCEPT ![r] = @ /\ status = "committed"]
  /\ openTxs' = openTxs \ {r}
  /\ txHistory' = Append(txHistory, r)

(* get_transaction_context() is torn down first: it commits although the   *)
(* session has not.                                                        *)
TeardownContext(r) ==
  /\ \/ rgPc[r] = "teardown" /\ CloseTransaction(r, "committed") /\ RgGo(r, "commit")
     \/ rgPc[r] = "raised" /\ CloseTransaction(r, "rolled_back") /\ RgGo(r, "rollback")
  /\ UNCHANGED <<tasksAfter, busVars, committedUsers, storeVars>>

(* get_db_session(): commit, which may fail, or rollback. *)
TeardownSession(r) ==
  /\ \/ /\ rgPc[r] = "commit"
        /\ \/ /\ committedUsers' = committedUsers \cup {r}
              /\ RgGo(r, IF tasksAfter THEN "tasks" ELSE "done")
           \/ UNCHANGED committedUsers /\ RgGo(r, "failed")
     \/ rgPc[r] = "rollback" /\ RgGo(r, "failed") /\ UNCHANGED committedUsers
  /\ UNCHANGED <<tasksAfter, txVars, busVars, storeVars>>

RegistrationStep(r) ==
  \/ BeginAndStage(r) \/ RegisterUser(r) \/ (\E h \in EventHandlers : SafeExecute(r, h))
  \/ ReturnUser(r) \/ SendWelcomeNotification(r) \/ RecordAuditLog(r)
  \/ TeardownContext(r) \/ TeardownSession(r)

RegistrationNext == \E r \in Registrations : RegistrationStep(r)

RegistrationSpec == RegistrationInit /\ [][RegistrationNext]_registrationVars

(* Every event is given to every handler once, and a handler that fails    *)
(* fails alone: the counters add up to the handlers of the events          *)
(* published, less those still running, and what the handlers recorded is  *)
(* what the bus counts as handled.                                         *)
HandlersIsolated ==
  /\ handledCount + errorCount
       + FoldFunction(LAMBDA hs, n : Cardinality(hs) + n, 0, toRun)
       = publishedCount * Cardinality(EventHandlers)
  /\ handledCount = Len(welcomeEmails) + Len(auditRecords)

(* A context is registered exactly while its request runs, and is in the   *)
(* history once, committed or rolled back; one rolled back has nothing     *)
(* staged and its user was never committed.                                *)
ContextsClosed ==
  /\ \A r \in Registrations :
       Cardinality({i \in DOMAIN txHistory : txHistory[i] = r})
         = IF r \in openTxs \/ rgPc[r] = "arrive" THEN 0 ELSE 1
  /\ \A r \in Range(txHistory) :
       /\ txStatus[r] # "active"
       /\ txStatus[r] = "rolled_back" => ~staged[r] /\ r \notin committedUsers

(* The stores keep the newest entries, and where the tasks run after the   *)
(* teardown only users in the database are welcomed.                       *)
WelcomedAreCommitted ==
  /\ Len(notices) <= MaxEntries /\ Len(auditLog) <= MaxEntries
  /\ tasksAfter => Range(notices) \cup Range(auditLog) \subseteq committedUsers

(* A registration is whole: its context is closed, its handlers fail       *)
(* alone, and only committed users are welcomed.                           *)
RegistrationWhole ==
  /\ HandlersIsolated
  /\ ContextsClosed
  /\ WelcomedAreCommitted
=============================================================================
