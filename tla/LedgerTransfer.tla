--------------------------- MODULE LedgerTransfer ---------------------------
(***************************************************************************)
(* LedgerTransferService.transfer_funds() with everything it goes through: *)
(* the idempotency record in Redis, the account locks, the unit of work    *)
(* with its unique indexes, and the failures each of them can have.  A     *)
(* worker is one call; a client's retry is another worker with the same    *)
(* reference.  Every await is a step of its own.                           *)
(*                                                                         *)
(* Redis raises before or after it applied a command, the database raises  *)
(* at any statement (a constraint, lock_timeout, statement_timeout, its    *)
(* deadlock detector), and a call can be cancelled or its process killed   *)
(* at every await.                                                         *)
(***************************************************************************)
EXTENDS AsyncDistributedLock, JournalPostings, TLAPS

CONSTANTS
  Active,          \* accounts whose row exists and is_active
  OpeningDebits,   \* aggregates of each account before the first call
  OpeningCredits

ASSUME TransferAssumption ==
  /\ Keys = Accounts
  /\ Active \subseteq Accounts
  /\ Currencies \cap {"entry", "event"} = {}
  /\ OpeningDebits \in [Accounts -> Nat]
  /\ OpeningCredits \in [Accounts -> Nat]

VARIABLES
  pc,        \* where a call is in transfer_funds()
  arg,       \* the request of a call, chosen before it starts
  idem,      \* the record under idempotency:<reference>; "by" is the call
             \* whose response a COMPLETED record holds.  A PROCESSING
             \* record has no owner in Redis: there "by" is history only
  tx,        \* uncommitted rows of a call: "entry", "event", and the
             \* currencies whose treasury account it inserted
  journal,   \* calls whose journal entry is committed
  outbox,    \* calls whose outbox event is committed
  debits,    \* sum of the committed debit postings of an account
  credits,   \* sum of its committed credit postings
  treasury,  \* currencies whose treasury account is committed
  answer     \* what a call returned or raised

dbVars == <<tx, journal, outbox, debits, credits, treasury>>
vars == <<lockVars, pc, arg, idem, dbVars, answer>>

Missing == [status |-> "MISSING", by |-> NoOwner]
Processing(w) == [status |-> "PROCESSING", by |-> w]
Completed(w) == [status |-> "COMPLETED", by |-> w]

NoAnswer == [kind |-> "none", entry |-> NoOwner]

InUow == {"lookup", "balance", "find_src", "open_src", "find_dst", "open_dst",
          "insert", "event", "commit", "respond"}

PcStates == InUow \cup {"start", "get", "claim", "screen", "lock", "complete",
                        "cleanup", "delete", "done", "cancelled"}

Ref(w) == arg[w].ref
Balance(a) == BalanceOf(debits, credits, a)
Running(w) == pc[w] \notin {"start", "done", "cancelled"}

(* account_lock_keys: a fee account is locked also when the fee is zero. *)
LockKeys(i) == {i.src, i.dst, i.fee} \ {NoAccount}

Goto(w, label) == pc' = [pc EXCEPT ![w] = label]

Finish(w, kind, entry) ==
  /\ Goto(w, "done")
  /\ answer' = [answer EXCEPT ![w] = [kind |-> kind, entry |-> entry]]

-----------------------------------------------------------------------------

Init ==
  /\ LockInit
  /\ pc = [w \in Workers |-> "start"]
  /\ arg \in [Workers -> Requests]
  /\ idem = [r \in Refs |-> Missing]
  /\ tx = [w \in Workers |-> {}]
  /\ journal = {}
  /\ outbox = {}
  /\ debits = OpeningDebits
  /\ credits = OpeningCredits
  /\ treasury \in SUBSET Currencies
  /\ answer = [w \in Workers |-> NoAnswer]

Preflight(w) ==
  /\ pc[w] = "start"
  /\ \/ /\ ValidRequest(arg[w])
        /\ Goto(w, "get")
        /\ UNCHANGED answer
     \/ /\ ~ValidRequest(arg[w])
        /\ Finish(w, "invalid", NoOwner)
  /\ UNCHANGED <<lockVars, arg, idem, dbVars>>

(* GET of the idempotency record. *)
ReadRecord(w) ==
  /\ pc[w] = "get"
  /\ \/ /\ idem[Ref(w)].status = "PROCESSING"
        /\ Finish(w, "conflict", NoOwner)
     \/ /\ idem[Ref(w)].status = "COMPLETED"
        /\ Finish(w, "replayed", idem[Ref(w)].by)
     \/ /\ idem[Ref(w)].status = "MISSING"
        /\ Goto(w, "claim")
        /\ UNCHANGED answer
     \/ Finish(w, "error", NoOwner)
  /\ UNCHANGED <<lockVars, arg, idem, dbVars>>

(* The condition of SET NX. *)
Unclaimed(w) == idem[Ref(w)] = Missing

(* SET NX EX 60 of the PROCESSING record.  When it raises, applied or not, *)
(* in_flight_locked is still False and nothing is cleaned up.              *)
ClaimReference(w) ==
  /\ pc[w] = "claim"
  /\ \/ /\ Unclaimed(w)
        /\ idem' = [idem EXCEPT ![Ref(w)] = Processing(w)]
        /\ \/ Goto(w, "screen") /\ UNCHANGED answer
           \/ Finish(w, "error", NoOwner)
     \/ /\ ~Unclaimed(w)
        /\ Finish(w, "conflict", NoOwner)
        /\ UNCHANGED idem
     \/ /\ Finish(w, "error", NoOwner)
        /\ UNCHANGED idem
  /\ UNCHANGED <<lockVars, arg, dbVars>>

(* evaluate_transfer() lets the transfer pass, rejects it or raises. *)
ScreenTransfer(w) ==
  /\ pc[w] = "screen"
  /\ \/ Enter(w, LockKeys(arg[w])) /\ Goto(w, "lock")
     \/ Goto(w, "cleanup") /\ UNCHANGED lockVars
  /\ UNCHANGED <<arg, idem, dbVars, answer>>

AcquireLock(w) ==
  /\ pc[w] = "lock"
  /\ Acquire(w)
  /\ Goto(w, IF lpc'[w] = "holding" THEN "lookup" ELSE "lock")
  /\ UNCHANGED <<arg, idem, dbVars, answer>>

AcquireFails(w) ==
  /\ pc[w] = "lock"
  /\ AcquireTimeout(w) \/ AcquireError(w)
  /\ Goto(w, "cleanup")
  /\ UNCHANGED <<arg, idem, dbVars, answer>>

(* The body of both context managers raises: the unit of work rolls back,  *)
(* acquire_multiple() starts to give the locks back.                       *)
Fail(w) ==
  /\ Raise(w)
  /\ tx' = [tx EXCEPT ![w] = {}]
  /\ Goto(w, "cleanup")

DbError(w) ==
  /\ pc[w] \in InUow
  /\ Fail(w)
  /\ UNCHANGED <<arg, idem, journal, outbox, debits, credits, treasury, answer>>

(* Mutation of ReferenceTaken: references are unique per source account. *)
MutTakenPerSource(w) == \E e \in journal : Ref(e) = Ref(w) /\ arg[e].src = arg[w].src

(* A committed entry has the reference: what the SELECT of                 *)
(* get_journal_entry_by_reference() and the unique index look at.          *)
ReferenceTaken(w) == \E e \in journal : Ref(e) = Ref(w)

CheckReference(w) ==
  /\ pc[w] = "lookup"
  /\ \/ ReferenceTaken(w) /\ Fail(w)
     \/ /\ ~ReferenceTaken(w)
        /\ Goto(w, "balance")
        /\ UNCHANGED <<lockVars, tx>>
  /\ UNCHANGED <<arg, idem, journal, outbox, debits, credits, treasury, answer>>

Found(a) == a \in Active /\ \A cur \in Currencies : TreasuryOf[cur] = a => cur \in treasury

(* Mutation of TransferAllowed: the fee is left out of the balance check. *)
MutFeeNotCovered(w) ==
  LET i == arg[w]
  IN /\ Found(i.src)
     /\ Found(i.dst)
     /\ i.charge > 0 => Found(i.fee)
     /\ CrossCurrency(i) => i.rate > 0
     /\ Balance(i.src) >= i.amount

(* The accounts exist and are active, a cross-currency transfer has a      *)
(* rate, and the cleared balance of the source covers amount and fee.      *)
TransferAllowed(w) ==
  LET i == arg[w]
  IN /\ Found(i.src)
     /\ Found(i.dst)
     /\ i.charge > 0 => Found(i.fee)
     /\ CrossCurrency(i) => i.rate > 0
     /\ Balance(i.src) >= TotalRequired(i)

CheckBalance(w) ==
  /\ pc[w] = "balance"
  /\ \/ ~TransferAllowed(w) /\ Fail(w)
     \/ /\ TransferAllowed(w)
        /\ Goto(w, IF CrossCurrency(arg[w]) THEN "find_src" ELSE "insert")
        /\ UNCHANGED <<lockVars, tx>>
  /\ UNCHANGED <<arg, idem, journal, outbox, debits, credits, treasury, answer>>

-----------------------------------------------------------------------------

(* _get_or_create_treasury_fx_account(), first for the source currency,    *)
(* then for the destination currency: a SELECT, and when it finds nothing  *)
(* an INSERT that waits for an uncommitted row with the same number.       *)
TreasuryCurrency(w) ==
  CurrencyOf[IF pc[w] \in {"find_src", "open_src"} THEN arg[w].src ELSE arg[w].dst]

AfterTreasury(w) == IF pc[w] \in {"find_src", "open_src"} THEN "find_dst" ELSE "insert"

FindTreasury(w) ==
  /\ pc[w] \in {"find_src", "find_dst"}
  /\ Goto(w, IF TreasuryCurrency(w) \in treasury \cup tx[w] THEN AfterTreasury(w)
             ELSE IF pc[w] = "find_src" THEN "open_src" ELSE "open_dst")
  /\ UNCHANGED <<lockVars, arg, idem, dbVars, answer>>

(* An INSERT waits for another transaction's row with the same unique key. *)
TreasuryBusy(w) == \E v \in Workers : TreasuryCurrency(w) \in tx[v]
ReferenceBusy(w) == \E v \in Workers : Ref(v) = Ref(w) /\ "entry" \in tx[v]

OpenTreasury(w) ==
  /\ pc[w] \in {"open_src", "open_dst"}
  /\ ~TreasuryBusy(w)
  /\ \/ TreasuryCurrency(w) \in treasury /\ Fail(w)
     \/ /\ TreasuryCurrency(w) \notin treasury
        /\ tx' = [tx EXCEPT ![w] = @ \cup {TreasuryCurrency(w)}]
        /\ Goto(w, AfterTreasury(w))
        /\ UNCHANGED lockVars
  /\ UNCHANGED <<arg, idem, journal, outbox, debits, credits, treasury, answer>>

(* Posting construction and create_journal_entry(); the INSERT waits for   *)
(* an uncommitted entry with the same reference_id.                        *)
InsertEntry(w) ==
  /\ pc[w] = "insert"
  /\ \/ ~PostingsAccepted(arg[w]) /\ Fail(w)
     \/ /\ PostingsAccepted(arg[w])
        /\ ~ReferenceBusy(w)
        /\ \/ ReferenceTaken(w) /\ Fail(w)
           \/ /\ ~ReferenceTaken(w)
              /\ tx' = [tx EXCEPT ![w] = @ \cup {"entry"}]
              /\ Goto(w, "event")
              /\ UNCHANGED lockVars
  /\ UNCHANGED <<arg, idem, journal, outbox, debits, credits, treasury, answer>>

(* Mutation of DbLockTimeout: no lock_timeout is set. *)
MutNoLockTimeout(w) == FALSE /\ UNCHANGED vars

(* lock_timeout, or the deadlock detector, ends a wait for another         *)
(* transaction's row.                                                      *)
DbLockTimeout(w) ==
  /\ \/ pc[w] \in {"open_src", "open_dst"} /\ TreasuryBusy(w)
     \/ pc[w] = "insert" /\ ReferenceBusy(w)
  /\ DbError(w)

(* outbox.create() in the same session. *)
InsertEvent(w) ==
  /\ pc[w] = "event"
  /\ tx' = [tx EXCEPT ![w] = @ \cup {"event"}]
  /\ Goto(w, "commit")
  /\ UNCHANGED <<lockVars, arg, idem, journal, outbox, debits, credits, treasury, answer>>

(* What the server does with a COMMIT. *)
MakeVisible(w) ==
  /\ journal' = IF "entry" \in tx[w] THEN journal \cup {w} ELSE journal
  /\ outbox' = IF "event" \in tx[w] THEN outbox \cup {w} ELSE outbox
  /\ debits' = [a \in Accounts |-> debits[a] + Posted(arg[w], "DEBIT", a)]
  /\ credits' = [a \in Accounts |-> credits[a] + Posted(arg[w], "CREDIT", a)]
  /\ treasury' = treasury \cup (tx[w] \cap Currencies)

Commit(w) ==
  /\ pc[w] = "commit"
  /\ MakeVisible(w)
  /\ tx' = [tx EXCEPT ![w] = {}]
  /\ Goto(w, "respond")
  /\ UNCHANGED <<lockVars, arg, idem, answer>>

(* The COMMIT is applied and its answer is lost. *)
CommitUnanswered(w) ==
  /\ pc[w] = "commit"
  /\ MakeVisible(w)
  /\ Fail(w)
  /\ UNCHANGED <<arg, idem, answer>>

(* The reads after the commit and the exit of the unit of work. *)
Respond(w) ==
  /\ pc[w] = "respond"
  /\ Leave(w)
  /\ Goto(w, "complete")
  /\ UNCHANGED <<arg, idem, dbVars, answer>>

-----------------------------------------------------------------------------

ReleaseLock(w) ==
  /\ Release(w)
  /\ UNCHANGED <<pc, arg, idem, dbVars, answer>>

(* SET EX 86400 of the COMPLETED record, once the locks are given back. *)
StoreResponse(w) ==
  /\ pc[w] = "complete"
  /\ lpc[w] = "released"
  /\ \/ /\ idem' = [idem EXCEPT ![Ref(w)] = Completed(w)]
        /\ \/ Finish(w, "accepted", w)
           \/ Goto(w, "cleanup") /\ UNCHANGED answer
     \/ /\ Goto(w, "cleanup")
        /\ UNCHANGED <<idem, answer>>
  /\ UNCHANGED <<lockVars, arg, dbVars>>

(* Mutation of SaysProcessing: any record is cleaned up. *)
MutAnyRecord(w) == idem[Ref(w)].status # "MISSING"

SaysProcessing(w) == idem[Ref(w)].status = "PROCESSING"

(* except Exception: GET, and DELETE when the value says PROCESSING. *)
CleanupRead(w) ==
  /\ pc[w] = "cleanup"
  /\ lpc[w] \in {"idle", "failed", "released"}
  /\ \/ /\ SaysProcessing(w)
        /\ Goto(w, "delete")
        /\ UNCHANGED answer
     \/ Finish(w, "error", NoOwner)
  /\ UNCHANGED <<lockVars, arg, idem, dbVars>>

CleanupDelete(w) ==
  /\ pc[w] = "delete"
  /\ \/ idem' = [idem EXCEPT ![Ref(w)] = Missing]
     \/ UNCHANGED idem
  /\ Finish(w, "error", NoOwner)
  /\ UNCHANGED <<lockVars, arg, dbVars>>

CancelCall(w) ==
  /\ Running(w)
  /\ \/ Cancel(w)
     \/ lpc[w] \in {"idle", "released", "failed"} /\ UNCHANGED lockVars
  /\ tx' = [tx EXCEPT ![w] = {}]
  /\ Goto(w, "cancelled")
  /\ UNCHANGED <<arg, idem, journal, outbox, debits, credits, treasury, answer>>

ExpireLock(k) ==
  /\ Expire(k)
  /\ UNCHANGED <<pc, arg, idem, dbVars, answer>>

ExpireRecord(r) ==
  /\ idem[r] # Missing
  /\ Timely => ~Running(idem[r].by)
  /\ idem' = [idem EXCEPT ![r] = Missing]
  /\ UNCHANGED <<lockVars, pc, arg, dbVars, answer>>

CallStep(w) ==
  \/ ReadRecord(w) \/ ClaimReference(w) \/ ScreenTransfer(w)
  \/ AcquireLock(w) \/ AcquireFails(w)
  \/ CheckReference(w) \/ CheckBalance(w)
  \/ FindTreasury(w) \/ OpenTreasury(w)
  \/ InsertEntry(w) \/ InsertEvent(w) \/ DbLockTimeout(w)
  \/ Commit(w) \/ CommitUnanswered(w) \/ Respond(w)
  \/ ReleaseLock(w) \/ StoreResponse(w)
  \/ CleanupRead(w) \/ CleanupDelete(w)

Next ==
  \/ \E w \in Workers : \/ Preflight(w)
                        \/ CallStep(w)
                        \/ DbError(w)
                        \/ CancelCall(w)
  \/ \E k \in Keys : ExpireLock(k)
  \/ \E r \in Refs : ExpireRecord(r)

(* A call that runs is scheduled and every await of it ends: the waits for *)
(* a lock by acquire_timeout, those in the database by lock_timeout and    *)
(* statement_timeout.  Redis expires the records; that it expires the      *)
(* locks is not needed here.                                               *)
Fairness ==
  /\ \A w \in Workers : WF_vars(CallStep(w))
  /\ \A r \in Refs : WF_vars(ExpireRecord(r))

Spec == Init /\ [][Next]_vars

FairSpec == Spec /\ Fairness

-----------------------------------------------------------------------------

TypeOK ==
  /\ LockTypeOK
  /\ pc \in [Workers -> PcStates]
  /\ arg \in [Workers -> Requests]
  /\ idem \in [Refs -> [status : {"MISSING", "PROCESSING", "COMPLETED"},
                        by : Workers \cup {NoOwner}]]
  /\ tx \in [Workers -> SUBSET (Currencies \cup {"entry", "event"})]
  /\ journal \subseteq Workers
  /\ outbox \subseteq Workers
  /\ debits \in [Accounts -> Nat]
  /\ credits \in [Accounts -> Nat]
  /\ treasury \subseteq Currencies
  /\ answer \in [Workers ->
                   [kind : {"none", "accepted", "replayed", "conflict", "error", "invalid"},
                    entry : Workers \cup {NoOwner}]]

(* Accounts no request posts to against their own type, so that only a     *)
(* transfer out of the account lowers its balance.                         *)
Protected ==
  {a \in Accounts \ Treasuries :
     \A i \in Requests :
       (i.fee = a \/ (i.dst = a /\ ~CrossCurrency(i))) => NormalSide(i.src) = NormalSide(a)}

(* "Non-Negative Balance Invariant": the balance read before the insert    *)
(* still covers the transfer when it commits, whatever other calls do      *)
(* between the two, so no account is overdrawn.                            *)
NoOverdraft == \A a \in Protected : Balance(a) >= 0

(* Both idempotency layers can be passed by two calls with one reference   *)
(* (a record that expired or was deleted, an entry not yet committed): the *)
(* journal still gets one entry.                                           *)
OneEntryPerReference ==
  \A v, w \in journal : Ref(v) = Ref(w) => v = w

(* "Zero Dual-Write": an entry is committed with its event or not at all,  *)
(* also when a call dies or a COMMIT goes unanswered.                      *)
EventIffEntry == outbox = journal

(* A response, given or cached, is the response of a committed entry with  *)
(* the reference of the request.                                           *)
ResponsesArePosted ==
  /\ \A w \in Workers :
       answer[w].kind \in {"accepted", "replayed"} =>
         answer[w].entry \in journal /\ Ref(answer[w].entry) = Ref(w)
  /\ \A r \in Refs :
       idem[r].status = "COMPLETED" => idem[r].by \in journal /\ Ref(idem[r].by) = r

(* Whatever expires, fails or dies: a reference has one entry, committed   *)
(* with its event, and is answered with no other.                          *)
EntriesWhole ==
  OneEntryPerReference /\ EventIffEntry /\ ResponsesArePosted

(* "concurrent duplicate requests fail with HTTP 409": between its claim   *)
(* and its end a call is the only one with its reference.                  *)
InFlight(w) == Running(w) /\ pc[w] \notin {"get", "claim"}

OneCallInFlight ==
  \A v, w \in Workers : InFlight(v) /\ InFlight(w) /\ Ref(v) = Ref(w) => v = w

(* "An ingestion key can only move MISSING -> PROCESSING -> COMPLETED": a  *)
(* COMPLETED record goes away with its TTL and by no step of a call.       *)
CompletedIsKept ==
  [][\A r \in Refs :
       idem[r].status = "COMPLETED" /\ idem'[r] # idem[r] => UNCHANGED pc]_vars

(* Every call that starts returns, raises or is cancelled, although calls  *)
(* wait for locks and for uncommitted rows of one another.                 *)
EveryCallEnds ==
  \A w \in Workers : pc[w] = "get" ~> pc[w] \in {"done", "cancelled"}

(* No reference stays in progress for ever, also when the call that        *)
(* claimed it died or could not clean up.                                  *)
NoReferenceStuck ==
  \A r \in Refs, w \in Workers : idem[r] = Processing(w) ~> idem[r] # Processing(w)

(* "only the worker possessing the unique cryptographic token can modify   *)
(* the account's balance postings": postings to an account appear while    *)
(* the lock of the account is held by the call that commits them.          *)
PostsUnderLock(accts) ==
  \A w \in journal' \ journal : \A a \in accts :
    debits'[a] # debits[a] \/ credits'[a] # credits[a] => lock[a] = w

(* It holds for every account but the treasury accounts, whose numbers are *)
(* not among the lock keys of a transfer.                                  *)
CustomerAccountsUnderLock == [][PostsUnderLock(Accounts \ Treasuries)]_vars

(* While no TTL elapses under a running call, calls that share an account  *)
(* or a reference exclude each other, and a call changes only the records  *)
(* and the customer accounts that are its own.                             *)
CallsKeepApart ==
  /\ [](MutualExclusion /\ OneCallInFlight)
  /\ CompletedIsKept
  /\ CustomerAccountsUnderLock

(* Every call ends and every reference becomes usable again.               *)
NothingStuck == EveryCallEnds /\ NoReferenceStuck

-----------------------------------------------------------------------------
(***************************************************************************)
(* Proofs, for every number of calls, accounts, currencies and references, *)
(* every chart of accounts and every set of requests.  The inductive       *)
(* invariant is the conjunction of                                         *)
(*   LockInv     the lock manager's own invariant (first section),         *)
(*   PhaseInv    which lock phase goes with which point of the call,       *)
(*   TxInv       which uncommitted rows exist at which point,              *)
(*   UniqueInv   what the unique index on reference_id keeps,              *)
(*   RecordInv   what the idempotency records and the answers point to,    *)
(* and, when no TTL elapses under a running call,                          *)
(*   FundedInv   the balance that was read still covers the transfer,      *)
(*   ClaimInv    the record of a claimed reference belongs to its call.    *)
(* All but RecordInv and ClaimInv are shown inductive here; TransferProofs *)
(* goes on with those two and with the theorems.                           *)
(***************************************************************************)

(***************************************************************************)
(* The lock manager, AsyncDistributedLock.tla, for every set of workers    *)
(* and keys. Its inductive invariant is LockInv: acquired_locks is a       *)
(* prefix of the sorted keys (ListInv), and, when no TTL elapses under a   *)
(* running worker, Redis holds the worker's token for every key on its     *)
(* list (OwnerInv).                                                        *)
(***************************************************************************)

(* What acquire_multiple() keeps of its list of locks in each phase. *)
ListInv ==
  \A w \in Workers :
    /\ acquired[w] \subseteq wanted[w]
    /\ lpc[w] \in {"idle", "released", "failed"} => acquired[w] = {}
    /\ lpc[w] = "holding" => acquired[w] = wanted[w]
    /\ lpc[w] = "acquiring" =>
         \A a \in acquired[w], k \in wanted[w] \ acquired[w] : a < k

(* A running worker owns in Redis what its list says. *)
OwnerInv ==
  \A w \in Workers : \A k \in Keys :
    k \in acquired[w] /\ lpc[w] # "gone" => lock[k] = w

LockInv == LockTypeOK /\ ListInv /\ (Timely => OwnerInv)

(* One step of the lock manager, as the modules that use it take it. *)
LockStep ==
  \/ \E w \in Workers : \/ \E ks \in SUBSET Keys : Enter(w, ks)
                        \/ Acquire(w) \/ AcquireTimeout(w) \/ AcquireError(w)
                        \/ Leave(w) \/ Raise(w) \/ Release(w) \/ Cancel(w)
  \/ \E k \in Keys : Expire(k)

(* The lock manager starts with no key set and no list. *)
LEMMA LockInitInv == LockInit => LockInv
BY LockAssumption, Zenon DEF LockInit, LockInv, LockTypeOK, ListInv, OwnerInv, LockStates

(* Every step keeps the types of the four variables. *)
LEMMA LockStepType == LockTypeOK /\ LockStep => LockTypeOK'
<1> SUFFICES ASSUME LockTypeOK, LockStep PROVE LockTypeOK'
  BY Zenon
<1> USE LockAssumption DEF LockTypeOK, LockStates
<1>1. ASSUME NEW w \in Workers, NEW ks \in SUBSET Keys, Enter(w, ks) PROVE LockTypeOK'
  BY <1>1, Zenon DEF Enter
<1>2. ASSUME NEW w \in Workers, Acquire(w) PROVE LockTypeOK'
  BY <1>2 DEF Acquire, NextKey, SetNX
<1>3. ASSUME NEW w \in Workers, AcquireTimeout(w) PROVE LockTypeOK'
  BY <1>3, Zenon DEF AcquireTimeout, RollBackFrom
<1>4. ASSUME NEW w \in Workers, AcquireError(w) PROVE LockTypeOK'
  BY <1>4 DEF AcquireError, UnansweredSet, SetNX, RollBackFrom
<1>5. ASSUME NEW w \in Workers, Leave(w) \/ Raise(w) \/ Cancel(w) PROVE LockTypeOK'
  BY <1>5, Zenon DEF Leave, Raise, Cancel
<1>6. ASSUME NEW w \in Workers, Release(w) PROVE LockTypeOK'
  BY <1>6 DEF Release, CompareAndDelete
<1>7. ASSUME NEW k \in Keys, Expire(k) PROVE LockTypeOK'
  BY <1>7, Zenon DEF Expire
<1> QED BY <1>1, <1>2, <1>3, <1>4, <1>5, <1>6, <1>7, Zenon DEF LockStep

(* Every step keeps the list in the shape of its phase: Acquire appends    *)
(* the least key that is missing.                                          *)
LEMMA LockStepList == LockTypeOK /\ ListInv /\ LockStep => ListInv'
<1> SUFFICES ASSUME LockTypeOK, ListInv, LockStep, NEW v \in Workers
             PROVE  /\ acquired'[v] \subseteq wanted'[v]
                    /\ lpc'[v] \in {"idle", "released", "failed"} => acquired'[v] = {}
                    /\ lpc'[v] = "holding" => acquired'[v] = wanted'[v]
                    /\ lpc'[v] = "acquiring" =>
                         \A a \in acquired'[v], k \in wanted'[v] \ acquired'[v] : a < k
  BY Zenon DEF ListInv
<1> USE LockAssumption DEF LockTypeOK, ListInv
<1>1. CASE \E w \in Workers, ks \in SUBSET Keys : Enter(w, ks)
  BY <1>1 DEF Enter
<1>2. CASE \E w \in Workers : Acquire(w)
  <2> PICK w \in Workers : Acquire(w)
    BY <1>2, Zenon
  <2> PICK k \in Keys :
         /\ NextKey(w, k)
         /\ acquired' = [acquired EXCEPT ![w] = @ \cup {k}]
         /\ lpc' = [lpc EXCEPT ![w] = IF wanted[w] \subseteq acquired[w] \cup {k}
                                      THEN "holding" ELSE "acquiring"]
         /\ wanted' = wanted
         /\ lpc[w] = "acquiring"
    BY Zenon DEF Acquire
  <2>1. CASE v # w
    BY <2>1, Zenon
  <2>2. CASE v = w
    <3>1. acquired'[w] = acquired[w] \cup {k} /\ wanted'[w] = wanted[w]
      BY Zenon
    <3>2. \A j \in wanted[w] \ (acquired[w] \cup {k}) : k < j
      BY DEF NextKey
    <3>3. lpc'[w] \in {"holding", "acquiring"}
           /\ (lpc'[w] = "holding" => wanted[w] \subseteq acquired[w] \cup {k})
      BY Zenon
    <3> QED BY <2>2, <3>1, <3>2, <3>3 DEF NextKey
  <2> QED BY <2>1, <2>2, Zenon
<1>3. CASE \E w \in Workers : AcquireTimeout(w) \/ AcquireError(w)
  BY <1>3, ZenonT(30) DEF AcquireTimeout, AcquireError, RollBackFrom
<1>4. CASE \E w \in Workers : Leave(w) \/ Raise(w) \/ Cancel(w)
  BY <1>4, ZenonT(30) DEF Leave, Raise, Cancel
<1>5. CASE \E w \in Workers : Release(w)
  BY <1>5 DEF Release, LastKey
<1>6. CASE \E k \in Keys : Expire(k)
  BY <1>6, Zenon DEF Expire
<1> QED BY <1>1, <1>2, <1>3, <1>4, <1>5, <1>6, Zenon DEF LockStep

(* When locks outlive their holders, no step takes a key away from a       *)
(* running worker: SET NX finds the key taken, the Lua script compares     *)
(* tokens, and Expire waits for the worker.                                *)
LEMMA LockStepOwner ==
  Timely /\ LockTypeOK /\ ListInv /\ OwnerInv /\ LockStep => OwnerInv'
<1> SUFFICES ASSUME Timely, LockTypeOK, ListInv, OwnerInv, LockStep,
                    NEW v \in Workers, NEW j \in Keys,
                    j \in acquired'[v], lpc'[v] # "gone"
             PROVE  lock'[j] = v
  BY Zenon DEF OwnerInv
<1> USE LockAssumption DEF LockTypeOK, OwnerInv
<1>1. CASE \E w \in Workers, ks \in SUBSET Keys : Enter(w, ks)
  BY <1>1, Zenon DEF Enter
<1>2. CASE \E w \in Workers : Acquire(w)
  BY <1>2 DEF Acquire, SetNX
<1>3. CASE \E w \in Workers : AcquireTimeout(w) \/ AcquireError(w)
  BY <1>3 DEF AcquireTimeout, AcquireError, RollBackFrom, UnansweredSet, SetNX
<1>4. CASE \E w \in Workers : Leave(w) \/ Raise(w) \/ Cancel(w)
  BY <1>4 DEF Leave, Raise, Cancel
<1>5. CASE \E w \in Workers : Release(w)
  <2> PICK w \in Workers : Release(w)
    BY <1>5, Zenon
  <2> PICK k \in Keys :
         /\ \/ CompareAndDelete(w, k)
            \/ UNCHANGED lock
         /\ acquired' = [acquired EXCEPT ![w] = @ \ {k}]
         /\ lpc' = [lpc EXCEPT ![w] = lpc'[w]]
         /\ lpc[w] # "gone"
    BY ZenonT(30) DEF Release
  <2>1. j \in acquired[v] /\ lpc[v] # "gone" /\ (v = w => j # k)
    BY Zenon
  <2>2. lock[j] = v
    BY <2>1, Zenon
  <2> QED BY <2>1, <2>2 DEF CompareAndDelete
<1>6. CASE \E k \in Keys : Expire(k)
  BY <1>6 DEF Expire, InUse
<1> QED BY <1>1, <1>2, <1>3, <1>4, <1>5, <1>6, Zenon DEF LockStep

(* LockInv is inductive under every step of the lock manager. *)
LEMMA LockStepInv == LockInv /\ LockStep => LockInv'
BY LockStepType, LockStepList, LockStepOwner, Zenon DEF LockInv

LEMMA LockStutterInv == LockInv /\ UNCHANGED lockVars => LockInv'
BY DEF LockInv, LockTypeOK, ListInv, OwnerInv, lockVars

LEMMA LockInvariant == LockSafety => []LockInv
<1>1. LockInv /\ [LockNext]_lockVars => LockInv'
  BY LockStepInv, LockStutterInv, Zenon DEF LockNext, WorkerStep, LockStep
<1> QED BY <1>1, LockInitInv, PTL DEF LockSafety

(* Whatever the workers and keys, two workers whose locks outlive them are *)
(* never in the body of acquire_multiple() with a key in common.           *)
THEOREM LockMutualExclusion ==
  ASSUME Timely PROVE LockSafety => []MutualExclusion
<1>1. LockInv => MutualExclusion
  BY DEF LockInv, LockTypeOK, ListInv, OwnerInv, MutualExclusion
<1> QED BY <1>1, LockInvariant, PTL

(* Whatever the timing, a worker waits only for keys above all those it    *)
(* has: sorted acquisition admits no circular wait.                        *)
THEOREM LockWaitsAscend == LockSafety => []WaitsAscend
<1>1. LockInv => WaitsAscend
  BY DEF LockInv, LockTypeOK, ListInv, WaitsAscend, WaitsFor, NextKey
<1> QED BY <1>1, LockInvariant, PTL

(* Whatever the timing, no step of one worker removes or replaces the      *)
(* token of another.                                                       *)
THEOREM LockForeignUntouched == LockSafety => ForeignLockUntouched
<1> DEFINE Untouched == \A k \in Keys, w \in Workers :
             lock[k] = w /\ lock'[k] # w =>
               \/ acquired'[w] = acquired[w] \ {k} /\ k \in acquired[w]
               \/ UNCHANGED <<wanted, acquired, lpc>>
<1>1. LockInv /\ [LockNext]_lockVars => [Untouched]_lockVars
  <2> SUFFICES ASSUME LockInv, LockStep, NEW k \in Keys, NEW w \in Workers,
                      lock[k] = w, lock'[k] # w
               PROVE  \/ acquired'[w] = acquired[w] \ {k} /\ k \in acquired[w]
                      \/ UNCHANGED <<wanted, acquired, lpc>>
    BY Zenon DEF LockNext, WorkerStep, LockStep
  <2> USE LockAssumption DEF LockInv, LockTypeOK
  <2>1. CASE \E v \in Workers : (\E ks \in SUBSET Keys : Enter(v, ks))
                                 \/ AcquireTimeout(v) \/ Leave(v) \/ Raise(v) \/ Cancel(v)
    BY <2>1, Zenon DEF Enter, AcquireTimeout, Leave, Raise, Cancel
  <2>2. CASE \E v \in Workers : Acquire(v) \/ AcquireError(v)
    BY <2>2, Zenon DEF Acquire, AcquireError, UnansweredSet, SetNX
  <2>3. CASE \E v \in Workers : Release(v)
    BY <2>3 DEF Release, CompareAndDelete, LastKey
  <2>4. CASE \E j \in Keys : Expire(j)
    BY <2>4, Zenon DEF Expire
  <2> QED BY <2>1, <2>2, <2>3, <2>4, Zenon DEF LockStep
<1> QED BY <1>1, LockInvariant, PTL DEF LockSafety, ForeignLockUntouched

-----------------------------------------------------------------------------
(***************************************************************************)
(* The transfer, LedgerTransfer.tla.                                       *)
(***************************************************************************)

(* The unit of work runs under the locks of all accounts of the request. *)
PhaseInv ==
  \A w \in Workers :
    /\ pc[w] \in {"start", "get", "claim", "screen"} => lpc[w] = "idle"
    /\ pc[w] = "lock" => lpc[w] = "acquiring" /\ wanted[w] = LockKeys(arg[w])
    /\ pc[w] \in InUow => lpc[w] = "holding" /\ wanted[w] = LockKeys(arg[w])

(* Rows are inserted in the order entry, event, and gone after the commit. *)
TxInv ==
  \A w \in Workers :
    /\ "entry" \in tx[w] <=> pc[w] \in {"event", "commit"}
    /\ "event" \in tx[w] <=> pc[w] = "commit"

UniqueInv ==
  /\ \A v, w \in Workers :
       "entry" \in tx[v] /\ "entry" \in tx[w] /\ Ref(v) = Ref(w) => v = w
  /\ \A w \in Workers : "entry" \in tx[w] => \A e \in journal : Ref(e) # Ref(w)
  /\ OneEntryPerReference

RecordInv ==
  /\ \A r \in Refs : /\ idem[r].status = "MISSING" => idem[r] = Missing
                     /\ idem[r].status # "MISSING" => idem[r].by \in Workers
  /\ \A w \in Workers : pc[w] \in {"respond", "complete"} => w \in journal
  /\ ResponsesArePosted

(* Past the balance check, up to the commit. *)
Checked == {"find_src", "open_src", "find_dst", "open_dst", "insert", "event", "commit"}

FundedInv ==
  \A w \in Workers :
    pc[w] \in Checked /\ arg[w].src \notin Treasuries =>
      Balance(arg[w].src) >= TotalRequired(arg[w])

ClaimInv ==
  \A w \in Workers :
    /\ InFlight(w) => idem[Ref(w)].by = w
    /\ pc[w] = "delete" => idem[Ref(w)].status = "PROCESSING"

Inv ==
  /\ TypeOK
  /\ LockInv
  /\ PhaseInv
  /\ TxInv
  /\ UniqueInv
  /\ EventIffEntry
  /\ RecordInv

TimelyInv == Inv /\ FundedInv /\ ClaimInv

-----------------------------------------------------------------------------

(* What the legs of a transfer add up to, for every request and every      *)
(* chart of accounts.                                                      *)

(* Quantizing a non-negative fraction gives a non-negative amount. *)
LEMMA RoundHalfEvenType ==
  ASSUME NEW n \in Nat, NEW d \in Nat \ {0}
  PROVE  RoundHalfEven(n, d) \in Nat
<1>1. n \div d \in Nat /\ n % d \in Nat
  OBVIOUS
<1> QED BY <1>1 DEF RoundHalfEven

LEMMA DestinationAmountType ==
  ASSUME NEW i \in Requests
  PROVE  DestinationAmount(i) \in Nat
<1>1. i.amount \in Nat /\ i.rate \in Nat /\ RateScale \in Nat \ {0}
  BY PostingsAssumption, Zenon
<1>2. i.amount * i.rate \in Nat
  BY <1>1
<1> QED BY <1>1, <1>2, RoundHalfEvenType, Zenon DEF DestinationAmount

(* The two sides of every transfer, with or without a fee, in one or in    *)
(* two currencies and between accounts of any types, have the same total:  *)
(* the UnbalancedJournalEntryException of transfer_funds() is unreachable. *)
THEOREM EveryTransferBalances ==
  ASSUME NEW i \in Requests
  PROVE  TotalPosted(i, "DEBIT") = TotalPosted(i, "CREDIT")
<1>1. i.amount \in Nat /\ i.charge \in Nat
  BY PostingsAssumption, Zenon
<1>2. DestinationAmount(i) \in Nat
  BY DestinationAmountType, Zenon
<1>3. ~CrossCurrency(i) => DestinationAmount(i) = i.amount
  BY Zenon DEF DestinationAmount
<1> QED BY <1>1, <1>2, <1>3
        DEF TotalPosted, LegSum, Opposite, NormalSide, TotalRequired

(* The sums of an account are amounts. *)
LEMMA PostedType ==
  ASSUME NEW i \in Requests, NEW a \in Accounts, NEW side \in {"DEBIT", "CREDIT"}
  PROVE  Posted(i, side, a) \in Nat
<1>1. i.amount \in Nat /\ i.charge \in Nat
  BY PostingsAssumption, Zenon
<1>2. DestinationAmount(i) \in Nat
  BY DestinationAmountType, Zenon
<1> QED BY <1>1, <1>2 DEF Posted, LegSum, TotalRequired

(* A transfer posts to the accounts it names and to treasury accounts. *)
LEMMA PostedElsewhere ==
  ASSUME NEW i \in Requests, NEW a \in Accounts, NEW side,
         a \notin {i.src, i.dst, i.fee}, a \notin Treasuries
  PROVE  Posted(i, side, a) = 0
<1>1. CurrencyOf[i.src] \in Currencies /\ CurrencyOf[i.dst] \in Currencies
  BY PostingsAssumption, Zenon
<1>2. SourceTreasury(i) \in Treasuries /\ DestinationTreasury(i) \in Treasuries
  BY <1>1, Zenon DEF SourceTreasury, DestinationTreasury, Treasuries
<1> QED BY <1>2 DEF Posted, LegSum

(* What a transfer does to the balance of an account that is not a         *)
(* treasury account and that the request posts to on its own normal side:  *)
(* it lowers the source by at most total_required and nothing else.        *)
LEMMA BalanceEffect ==
  ASSUME NEW i \in Requests, NEW a \in Accounts, a \notin Treasuries,
         (i.fee = a \/ (i.dst = a /\ ~CrossCurrency(i))) => NormalSide(i.src) = NormalSide(a)
  PROVE  Posted(i, NormalSide(a), a) - Posted(i, Opposite(NormalSide(a)), a)
           >= IF a = i.src THEN 0 - TotalRequired(i) ELSE 0
<1>1. i.amount \in Nat /\ i.charge \in Nat
  BY PostingsAssumption, Zenon
<1>2. DestinationAmount(i) \in Nat
  BY DestinationAmountType, Zenon
<1>3. CurrencyOf[i.src] \in Currencies /\ CurrencyOf[i.dst] \in Currencies
  BY PostingsAssumption, Zenon
<1>4. SourceTreasury(i) # a /\ DestinationTreasury(i) # a
  BY <1>3, Zenon DEF SourceTreasury, DestinationTreasury, Treasuries
<1>5. NormalSide(a) # Opposite(NormalSide(a)) /\ NormalSide(i.src) # Opposite(NormalSide(i.src))
  BY Zenon DEF NormalSide, Opposite
<1>6. i.dst = a => NormalSide(i.dst) # Opposite(NormalSide(a))
  BY <1>5, Zenon
<1> QED BY <1>1, <1>2, <1>4, <1>5, <1>6 DEF Posted, LegSum, TotalRequired

-----------------------------------------------------------------------------

(* Every step of a call is a step of the lock manager or leaves it alone. *)
LEMMA LocksStep == TypeOK /\ Next => LockStep \/ UNCHANGED lockVars
<1> SUFFICES ASSUME TypeOK, Next PROVE LockStep \/ UNCHANGED lockVars
  BY Zenon
<1>1. ASSUME NEW w \in Workers
      PROVE  LockKeys(arg[w]) \in SUBSET Keys
  BY PostingsAssumption, TransferAssumption DEF TypeOK, LockKeys
<1>2. CASE \E w \in Workers : Preflight(w)
  BY <1>2, Zenon DEF Preflight
<1>3. CASE \E w \in Workers : CallStep(w)
  <2> PICK w \in Workers : CallStep(w)
    BY <1>3, Zenon
  <2>1. CASE ScreenTransfer(w)
    BY <2>1, <1>1, Zenon DEF ScreenTransfer, LockStep
  <2>2. CASE AcquireLock(w) \/ AcquireFails(w) \/ ReleaseLock(w) \/ Respond(w)
    BY <2>2, Zenon DEF AcquireLock, AcquireFails, ReleaseLock, Respond, LockStep
  <2>3. CASE \/ CheckReference(w) \/ CheckBalance(w) \/ OpenTreasury(w) \/ InsertEntry(w)
             \/ CommitUnanswered(w) \/ DbLockTimeout(w)
    BY <2>3, Zenon DEF CheckReference, CheckBalance, OpenTreasury, InsertEntry, CommitUnanswered,
                DbLockTimeout, DbError, Fail, LockStep
  <2>4. CASE \/ ReadRecord(w) \/ ClaimReference(w) \/ FindTreasury(w) \/ InsertEvent(w)
             \/ Commit(w) \/ StoreResponse(w) \/ CleanupRead(w) \/ CleanupDelete(w)
    BY <2>4, Zenon DEF ReadRecord, ClaimReference, FindTreasury, InsertEvent, Commit,
                StoreResponse, CleanupRead, CleanupDelete
  <2> QED BY <2>1, <2>2, <2>3, <2>4, Zenon DEF CallStep
<1>4. CASE \E w \in Workers : DbError(w) \/ CancelCall(w)
  BY <1>4, Zenon DEF DbError, Fail, CancelCall, LockStep
<1>5. CASE \/ \E k \in Keys : ExpireLock(k)
           \/ \E r \in Refs : ExpireRecord(r)
  BY <1>5, Zenon DEF ExpireLock, ExpireRecord, LockStep
<1> QED BY <1>2, <1>3, <1>4, <1>5, Zenon DEF Next

-----------------------------------------------------------------------------

(* The types of the variables that are not the lock manager's. *)
CallTypeOK ==
  /\ pc \in [Workers -> PcStates]
  /\ arg \in [Workers -> Requests]
  /\ idem \in [Refs -> [status : {"MISSING", "PROCESSING", "COMPLETED"},
                        by : Workers \cup {NoOwner}]]
  /\ tx \in [Workers -> SUBSET (Currencies \cup {"entry", "event"})]
  /\ journal \subseteq Workers
  /\ outbox \subseteq Workers
  /\ debits \in [Accounts -> Nat]
  /\ credits \in [Accounts -> Nat]
  /\ treasury \subseteq Currencies
  /\ answer \in [Workers ->
                   [kind : {"none", "accepted", "replayed", "conflict", "error", "invalid"},
                    entry : Workers \cup {NoOwner}]]

(* A reference is a key of the idempotency records. *)
LEMMA RefType == ASSUME TypeOK, NEW w \in Workers PROVE Ref(w) \in Refs
BY PostingsAssumption DEF TypeOK, Ref

LEMMA TreasuryCurrencyType ==
  ASSUME TypeOK, NEW w \in Workers PROVE TreasuryCurrency(w) \in Currencies
<1>1. arg[w].src \in Accounts /\ arg[w].dst \in Accounts
  BY PostingsAssumption DEF TypeOK
<1> QED BY <1>1, PostingsAssumption, Zenon DEF TreasuryCurrency

(* The commit adds amounts to the aggregates and moves declared rows. *)
LEMMA MakeVisibleType ==
  ASSUME TypeOK, NEW w \in Workers, MakeVisible(w)
  PROVE  /\ journal' \subseteq Workers
         /\ outbox' \subseteq Workers
         /\ debits' \in [Accounts -> Nat]
         /\ credits' \in [Accounts -> Nat]
         /\ treasury' \subseteq Currencies
<1>1. arg[w] \in Requests
  BY Zenon DEF TypeOK
<1>2. \A a \in Accounts : Posted(arg[w], "DEBIT", a) \in Nat /\ Posted(arg[w], "CREDIT", a) \in Nat
  BY <1>1, PostedType, Zenon
<1>3. \A a \in Accounts : debits[a] + Posted(arg[w], "DEBIT", a) \in Nat
                          /\ credits[a] + Posted(arg[w], "CREDIT", a) \in Nat
  BY <1>2 DEF TypeOK
<1>4. debits' \in [Accounts -> Nat] /\ credits' \in [Accounts -> Nat]
  BY <1>3, Zenon DEF MakeVisible
<1> QED BY <1>4, Zenon DEF MakeVisible, TypeOK

(* Every step of a call keeps the types. *)
LEMMA TypeStep == TypeOK /\ Next => TypeOK'
<1> SUFFICES ASSUME TypeOK, Next PROVE TypeOK'
  BY Zenon
<1>lock. LockTypeOK'
  <2>1. LockStep \/ UNCHANGED lockVars
    BY LocksStep, Zenon
  <2>2. LockTypeOK
    BY Zenon DEF TypeOK
  <2>3. CASE LockStep
    BY <2>2, <2>3, LockStepType, Zenon
  <2>4. CASE UNCHANGED lockVars
    BY <2>2, <2>4, Zenon DEF LockTypeOK, lockVars
  <2> QED BY <2>1, <2>3, <2>4, Zenon
<1> SUFFICES CallTypeOK'
  BY <1>lock, Zenon DEF TypeOK, CallTypeOK
<1> DEFINE Records == [status : {"MISSING", "PROCESSING", "COMPLETED"},
                       by : Workers \cup {NoOwner}]
           Answers == [kind : {"none", "accepted", "replayed", "conflict", "error", "invalid"},
                       entry : Workers \cup {NoOwner}]
<1>a. \A w \in Workers : /\ Ref(w) \in Refs
                         /\ idem[Ref(w)].by \in Workers \cup {NoOwner}
  BY RefType, Zenon DEF TypeOK
<1>b. /\ Missing \in Records
      /\ \A w \in Workers : Processing(w) \in Records /\ Completed(w) \in Records
  BY Zenon DEF Missing, Processing, Completed
<1>c. ASSUME NEW w \in Workers, NEW kind \in {"accepted", "replayed", "conflict", "error", "invalid"},
             NEW entry \in Workers \cup {NoOwner}, Finish(w, kind, entry)
      PROVE  pc' \in [Workers -> PcStates] /\ answer' \in [Workers -> Answers]
  BY <1>c, Zenon DEF TypeOK, Finish, Goto, PcStates
<1> USE DEF CallTypeOK, PcStates, InUow, dbVars, Goto
<1>1. ASSUME NEW w \in Workers, Preflight(w) \/ ReadRecord(w) PROVE CallTypeOK'
  BY <1>1, <1>a, <1>c, ZenonT(30) DEF TypeOK, Preflight, ReadRecord
<1>2. ASSUME NEW w \in Workers, ClaimReference(w) PROVE CallTypeOK'
  <2>1. idem' \in [Refs -> Records]
    BY <1>2, <1>a, <1>b DEF TypeOK, ClaimReference
  <2>2. pc' \in [Workers -> PcStates] /\ answer' \in [Workers -> Answers]
    BY <1>2, <1>c, Zenon DEF TypeOK, ClaimReference
  <2> QED BY <1>2, <2>1, <2>2, Zenon DEF TypeOK, ClaimReference
<1>3. ASSUME NEW w \in Workers,
             ScreenTransfer(w) \/ AcquireLock(w) \/ AcquireFails(w) \/ ReleaseLock(w) \/ Respond(w)
      PROVE  CallTypeOK'
  BY <1>3, ZenonT(30) DEF TypeOK, ScreenTransfer, AcquireLock, AcquireFails, ReleaseLock, Respond
<1>4. ASSUME NEW w \in Workers,
             CheckReference(w) \/ CheckBalance(w) \/ DbError(w) \/ DbLockTimeout(w) \/ CancelCall(w)
      PROVE  CallTypeOK'
  BY <1>4, ZenonT(30)
     DEF TypeOK, CheckReference, CheckBalance, DbError, DbLockTimeout, CancelCall, Fail
<1>5. ASSUME NEW w \in Workers, FindTreasury(w) \/ OpenTreasury(w) PROVE CallTypeOK'
  BY <1>5, TreasuryCurrencyType DEF TypeOK, FindTreasury, OpenTreasury, AfterTreasury, Fail
<1>6. ASSUME NEW w \in Workers, InsertEntry(w) \/ InsertEvent(w) PROVE CallTypeOK'
  BY <1>6 DEF TypeOK, InsertEntry, InsertEvent, Fail
<1>7. ASSUME NEW w \in Workers, Commit(w) \/ CommitUnanswered(w) PROVE CallTypeOK'
  <2>1. /\ pc' \in [Workers -> PcStates] /\ UNCHANGED <<arg, idem, answer>>
        /\ tx' \in [Workers -> SUBSET (Currencies \cup {"entry", "event"})]
        /\ MakeVisible(w)
    BY <1>7 DEF TypeOK, Commit, CommitUnanswered, Fail
  <2>2. /\ journal' \subseteq Workers /\ outbox' \subseteq Workers /\ treasury' \subseteq Currencies
        /\ debits' \in [Accounts -> Nat] /\ credits' \in [Accounts -> Nat]
    BY <2>1, MakeVisibleType, Zenon
  <2> QED BY <2>1, <2>2, Zenon DEF TypeOK
<1>8. ASSUME NEW w \in Workers, StoreResponse(w) PROVE CallTypeOK'
  <2>1. idem' \in [Refs -> Records]
    BY <1>8, <1>a, <1>b DEF TypeOK, StoreResponse
  <2>2. pc' \in [Workers -> PcStates] /\ answer' \in [Workers -> Answers]
    BY <1>8, <1>c, Zenon DEF TypeOK, StoreResponse
  <2> QED BY <1>8, <2>1, <2>2, Zenon DEF TypeOK, StoreResponse
<1>9. ASSUME NEW w \in Workers, CleanupRead(w) \/ CleanupDelete(w) PROVE CallTypeOK'
  <2>1. idem' \in [Refs -> Records]
    BY <1>9, <1>a, <1>b, ZenonT(30) DEF TypeOK, CleanupRead, CleanupDelete
  <2>2. pc' \in [Workers -> PcStates] /\ answer' \in [Workers -> Answers]
    BY <1>9, <1>c, Zenon DEF TypeOK, CleanupRead, CleanupDelete
  <2> QED BY <1>9, <2>1, <2>2, Zenon DEF TypeOK, CleanupRead, CleanupDelete
<1>10. ASSUME NEW k \in Keys, ExpireLock(k) PROVE CallTypeOK'
  BY <1>10, Zenon DEF TypeOK, ExpireLock
<1>11. ASSUME NEW r \in Refs, ExpireRecord(r) PROVE CallTypeOK'
  BY <1>11, <1>b, Zenon DEF TypeOK, ExpireRecord
<1> QED BY <1>1, <1>2, <1>3, <1>4, <1>5, <1>6, <1>7, <1>8, <1>9, <1>10, <1>11,
           Zenon DEF Next, CallStep

(* The lock phases follow the call. *)
LEMMA PhaseStep == TypeOK /\ LockInv /\ PhaseInv /\ Next => PhaseInv'
<1> SUFFICES ASSUME TypeOK, LockInv, PhaseInv, Next PROVE PhaseInv'
  BY Zenon
<1>t. pc \in [Workers -> PcStates] /\ lpc \in [Workers -> LockStates] /\ wanted \in [Workers -> SUBSET Keys]
  BY Zenon DEF TypeOK, LockTypeOK
<1> USE <1>t DEF PhaseInv, InUow, Goto, Finish, lockVars
<1>1. ASSUME NEW w \in Workers,
             \/ Preflight(w) \/ ReadRecord(w) \/ ClaimReference(w) \/ StoreResponse(w)
             \/ CleanupRead(w) \/ CleanupDelete(w)
      PROVE  PhaseInv'
  <2>1. CASE Preflight(w) \/ ReadRecord(w)
    BY <2>1, SMT, Z3 DEF Preflight, ReadRecord
  <2>2. CASE ClaimReference(w) \/ StoreResponse(w)
    BY <2>2 DEF ClaimReference, StoreResponse
  <2>3. CASE CleanupRead(w) \/ CleanupDelete(w)
    BY <2>3 DEF CleanupRead, CleanupDelete
  <2> QED BY <1>1, <2>1, <2>2, <2>3, ZenonT(30)
<1>2. ASSUME NEW w \in Workers, ScreenTransfer(w) PROVE PhaseInv'
  BY <1>2 DEF ScreenTransfer, Enter
<1>3. ASSUME NEW w \in Workers, AcquireLock(w) PROVE PhaseInv'
  BY <1>3 DEF AcquireLock, Acquire
<1>4. ASSUME NEW w \in Workers, AcquireFails(w) PROVE PhaseInv'
  BY <1>4, ZenonT(30) DEF AcquireFails, AcquireTimeout, AcquireError, RollBackFrom
<1>5. ASSUME NEW w \in Workers, CheckReference(w) \/ CheckBalance(w) PROVE PhaseInv'
  BY <1>5 DEF CheckReference, CheckBalance, Fail, Raise
<1>6. ASSUME NEW w \in Workers, DbError(w) \/ DbLockTimeout(w) PROVE PhaseInv'
  BY <1>6 DEF DbError, DbLockTimeout, Fail, Raise
<1>7. ASSUME NEW w \in Workers, FindTreasury(w) \/ OpenTreasury(w) PROVE PhaseInv'
  BY <1>7 DEF FindTreasury, OpenTreasury, AfterTreasury, Fail, Raise
<1>8. ASSUME NEW w \in Workers, InsertEntry(w) \/ InsertEvent(w) PROVE PhaseInv'
  BY <1>8 DEF InsertEntry, InsertEvent, Fail, Raise
<1>9. ASSUME NEW w \in Workers, Commit(w) \/ CommitUnanswered(w) \/ Respond(w) PROVE PhaseInv'
  BY <1>9 DEF Commit, CommitUnanswered, Respond, Leave, Fail, Raise
<1>10. ASSUME NEW w \in Workers, ReleaseLock(w) PROVE PhaseInv'
  BY <1>10 DEF ReleaseLock, Release
<1>11. ASSUME NEW w \in Workers, CancelCall(w) PROVE PhaseInv'
  BY <1>11, ZenonT(30) DEF CancelCall, Cancel
<1>12. ASSUME NEW k \in Keys, ExpireLock(k) PROVE PhaseInv'
  BY <1>12, Zenon DEF ExpireLock, Expire
<1>13. ASSUME NEW r \in Refs, ExpireRecord(r) PROVE PhaseInv'
  BY <1>13, Zenon DEF ExpireRecord
<1> QED BY <1>1, <1>2, <1>3, <1>4, <1>5, <1>6, <1>7, <1>8, <1>9, <1>10, <1>11, <1>12, <1>13,
           ZenonT(30) DEF Next, CallStep

(* Rows are inserted in order and disappear with the transaction. *)
LEMMA TxStep == TypeOK /\ TxInv /\ Next => TxInv'
<1> SUFFICES ASSUME TypeOK, TxInv, Next PROVE TxInv'
  BY Zenon
<1>t. pc \in [Workers -> PcStates] /\ tx \in [Workers -> SUBSET (Currencies \cup {"entry", "event"})]
  BY ZenonT(30) DEF TypeOK
<1> USE <1>t DEF TxInv, InUow, Goto, Finish, dbVars
<1>1. ASSUME NEW w \in Workers,
             \/ Preflight(w) \/ ReadRecord(w) \/ ClaimReference(w) \/ StoreResponse(w)
             \/ CleanupRead(w) \/ CleanupDelete(w)
      PROVE  TxInv'
  BY <1>1, ZenonT(30)
     DEF Preflight, ReadRecord, ClaimReference, StoreResponse, CleanupRead, CleanupDelete
<1>2. ASSUME NEW w \in Workers,
             ScreenTransfer(w) \/ AcquireLock(w) \/ AcquireFails(w) \/ Respond(w) \/ ReleaseLock(w)
      PROVE  TxInv'
  BY <1>2, Zenon DEF ScreenTransfer, AcquireLock, AcquireFails, Respond, ReleaseLock
<1>3. ASSUME NEW w \in Workers,
             CheckReference(w) \/ CheckBalance(w) \/ DbError(w) \/ DbLockTimeout(w) \/ CancelCall(w)
      PROVE  TxInv'
  BY <1>3, ZenonT(30) DEF CheckReference, CheckBalance, DbError, DbLockTimeout, CancelCall, Fail
<1>4. ASSUME NEW w \in Workers, FindTreasury(w) \/ OpenTreasury(w) PROVE TxInv'
  <2>1. TreasuryCurrency(w) \notin {"entry", "event"}
    BY TreasuryCurrencyType, TransferAssumption, Zenon
  <2> QED BY <1>4, <2>1 DEF FindTreasury, OpenTreasury, AfterTreasury, Fail
<1>5. ASSUME NEW w \in Workers, InsertEntry(w) \/ InsertEvent(w) PROVE TxInv'
  BY <1>5 DEF InsertEntry, InsertEvent, Fail
<1>6. ASSUME NEW w \in Workers, Commit(w) \/ CommitUnanswered(w) PROVE TxInv'
  BY <1>6 DEF Commit, CommitUnanswered, Fail
<1>7. CASE \/ \E k \in Keys : ExpireLock(k)
           \/ \E r \in Refs : ExpireRecord(r)
  BY <1>7, Zenon DEF ExpireLock, ExpireRecord
<1> QED BY <1>1, <1>2, <1>3, <1>4, <1>5, <1>6, <1>7, Zenon DEF Next, CallStep

-----------------------------------------------------------------------------

(* Steps of a call seen from the ledger: UniqueInv and FundedInv are kept. *)

(* What a step can do to the committed rows and to the pending entries:    *)
(* nothing, drop the rows of one call, insert an entry that passed the     *)
(* unique index, or commit one call with all its rows.                     *)
LedgerUnchanged == UNCHANGED <<arg, journal, outbox, debits, credits>>

PendingEntries == {w \in Workers : "entry" \in tx[w]}

LEMMA LedgerStep ==
  ASSUME TypeOK, TxInv, Next
  PROVE  /\ arg' = arg
         /\ \/ LedgerUnchanged /\ PendingEntries' \subseteq PendingEntries
            \/ /\ LedgerUnchanged
               /\ \E w \in Workers : /\ ~ReferenceBusy(w) /\ ~ReferenceTaken(w)
                                     /\ pc[w] = "insert"
                                     /\ PostingsAccepted(arg[w])
                                     /\ PendingEntries' \subseteq PendingEntries \cup {w}
            \/ \E w \in Workers : /\ pc[w] = "commit"
                                  /\ MakeVisible(w)
                                  /\ w \in PendingEntries
                                  /\ "event" \in tx[w]
                                  /\ pc'[w] \in {"respond", "cleanup"}
                                  /\ PendingEntries' \subseteq PendingEntries \ {w}
<1> USE DEF LedgerUnchanged, PendingEntries, Goto, Finish, dbVars
<1>1. CASE \E w \in Workers :
             \/ Preflight(w) \/ ReadRecord(w) \/ ClaimReference(w) \/ StoreResponse(w)
             \/ CleanupRead(w) \/ CleanupDelete(w) \/ FindTreasury(w)
  BY <1>1, ZenonT(30) DEF Preflight, ReadRecord, ClaimReference, StoreResponse, CleanupRead,
              CleanupDelete, FindTreasury
<1>2. CASE \E w \in Workers :
             ScreenTransfer(w) \/ AcquireLock(w) \/ AcquireFails(w) \/ Respond(w) \/ ReleaseLock(w)
  BY <1>2, Zenon DEF ScreenTransfer, AcquireLock, AcquireFails, Respond, ReleaseLock
<1>3. CASE \E w \in Workers :
             CheckReference(w) \/ CheckBalance(w) \/ DbError(w) \/ DbLockTimeout(w) \/ CancelCall(w)
  BY <1>3 DEF TypeOK, CheckReference, CheckBalance, DbError, DbLockTimeout, CancelCall, Fail
<1>4. ASSUME NEW w \in Workers, OpenTreasury(w)
      PROVE  arg' = arg /\ LedgerUnchanged /\ PendingEntries' \subseteq PendingEntries
  <2>1. TreasuryCurrency(w) # "entry"
    BY TreasuryCurrencyType, TransferAssumption, Zenon
  <2> QED BY <1>4, <2>1 DEF TypeOK, OpenTreasury, Fail
<1>5. ASSUME NEW w \in Workers, InsertEntry(w)
      PROVE  /\ arg' = arg /\ LedgerUnchanged
             /\ \/ PendingEntries' \subseteq PendingEntries
                \/ /\ ~ReferenceBusy(w) /\ ~ReferenceTaken(w) /\ pc[w] = "insert"
                   /\ PostingsAccepted(arg[w])
                   /\ PendingEntries' \subseteq PendingEntries \cup {w}
  BY <1>5 DEF TypeOK, InsertEntry, Fail
<1>6. ASSUME NEW w \in Workers, InsertEvent(w)
      PROVE  arg' = arg /\ LedgerUnchanged /\ PendingEntries' \subseteq PendingEntries
  BY <1>6, Zenon DEF TypeOK, InsertEvent
<1>7. ASSUME NEW w \in Workers, Commit(w) \/ CommitUnanswered(w)
      PROVE  /\ arg' = arg /\ pc[w] = "commit" /\ MakeVisible(w) /\ w \in PendingEntries
             /\ "event" \in tx[w] /\ pc'[w] \in {"respond", "cleanup"}
             /\ PendingEntries' \subseteq PendingEntries \ {w}
  BY <1>7, Zenon DEF TypeOK, TxInv, Commit, CommitUnanswered, Fail
<1>8. CASE \/ \E k \in Keys : ExpireLock(k)
           \/ \E r \in Refs : ExpireRecord(r)
  BY <1>8, Zenon DEF ExpireLock, ExpireRecord
<1> QED BY <1>1, <1>2, <1>3, <1>4, <1>5, <1>6, <1>7, <1>8, Zenon
        DEF Next, CallStep

(* The unique index: an entry is inserted only when no other entry with    *)
(* its reference is committed or pending, and stays the only one.          *)
LEMMA UniqueStep ==
  TypeOK /\ TxInv /\ UniqueInv /\ EventIffEntry /\ Next => UniqueInv' /\ EventIffEntry'
<1> SUFFICES ASSUME TypeOK, TxInv, UniqueInv, EventIffEntry, Next
             PROVE  UniqueInv' /\ EventIffEntry'
  BY Zenon
<1> DEFINE U(pending, entries) ==
             /\ \A v, w \in pending : Ref(v) = Ref(w) => v = w
             /\ \A w \in pending, e \in entries : Ref(e) # Ref(w)
             /\ \A v, w \in entries : Ref(v) = Ref(w) => v = w
<1>1. U(PendingEntries, journal)
  BY Zenon DEF UniqueInv, OneEntryPerReference, PendingEntries
<1>2. SUFFICES U(PendingEntries', journal') /\ outbox' = journal'
  <2>1. arg' = arg
    BY LedgerStep, Zenon
  <2> QED BY <2>1, <1>2, Zenon
             DEF UniqueInv, OneEntryPerReference, PendingEntries, EventIffEntry, Ref
<1>3. CASE LedgerUnchanged /\ PendingEntries' \subseteq PendingEntries
  BY <1>1, <1>3, Zenon DEF LedgerUnchanged, EventIffEntry
<1>4. ASSUME LedgerUnchanged, NEW w \in Workers, ~ReferenceBusy(w), ~ReferenceTaken(w),
             PendingEntries' \subseteq PendingEntries \cup {w}
      PROVE  U(PendingEntries', journal') /\ outbox' = journal'
  BY <1>1, <1>4, Zenon
     DEF LedgerUnchanged, EventIffEntry, ReferenceBusy, ReferenceTaken, PendingEntries
<1>5. ASSUME NEW w \in Workers, MakeVisible(w), w \in PendingEntries, "event" \in tx[w],
             PendingEntries' \subseteq PendingEntries \ {w}
      PROVE  U(PendingEntries', journal') /\ outbox' = journal'
  <2>1. journal' = journal \cup {w} /\ outbox' = outbox \cup {w}
    BY <1>5, Zenon DEF MakeVisible, PendingEntries
  <2> QED BY <1>1, <1>5, <2>1 DEF EventIffEntry
<1> QED BY <1>3, <1>4, <1>5, LedgerStep, Zenon

-----------------------------------------------------------------------------

(* The balance check is the only way past the balance check. *)
LEMMA CheckedStep ==
  ASSUME TypeOK, Next, NEW v \in Workers, pc'[v] \in Checked
  PROVE  \/ pc[v] \in Checked
         \/ TransferAllowed(v) /\ UNCHANGED <<debits, credits>>
<1>t. pc \in [Workers -> PcStates]
  BY ZenonT(30) DEF TypeOK
<1> USE <1>t DEF Checked, PcStates, InUow, Goto, Finish
<1>1. CASE \E w \in Workers :
             \/ Preflight(w) \/ ReadRecord(w) \/ ClaimReference(w) \/ StoreResponse(w)
             \/ CleanupRead(w) \/ CleanupDelete(w)
  <2>1. CASE \E w \in Workers : Preflight(w) \/ ReadRecord(w) \/ ClaimReference(w)
    BY <2>1 DEF Preflight, ReadRecord, ClaimReference
  <2>2. CASE \E w \in Workers : StoreResponse(w) \/ CleanupRead(w) \/ CleanupDelete(w)
    BY <2>2 DEF StoreResponse, CleanupRead, CleanupDelete
  <2> QED BY <1>1, <2>1, <2>2, Zenon
<1>2. CASE \E w \in Workers :
             ScreenTransfer(w) \/ AcquireLock(w) \/ AcquireFails(w) \/ Respond(w) \/ ReleaseLock(w)
  <2>1. CASE \E w \in Workers : ScreenTransfer(w) \/ AcquireLock(w) \/ AcquireFails(w)
    BY <2>1 DEF ScreenTransfer, AcquireLock, AcquireFails
  <2>2. CASE \E w \in Workers : Respond(w) \/ ReleaseLock(w)
    BY <2>2 DEF Respond, ReleaseLock
  <2> QED BY <1>2, <2>1, <2>2, Zenon
<1>3. CASE \E w \in Workers : CheckReference(w) \/ DbError(w) \/ DbLockTimeout(w) \/ CancelCall(w)
  <2>1. CASE \E w \in Workers : CheckReference(w) \/ DbError(w)
    BY <2>1 DEF CheckReference, DbError, Fail
  <2>2. CASE \E w \in Workers : DbLockTimeout(w)
    BY <2>2 DEF DbLockTimeout, DbError, Fail
  <2>3. CASE \E w \in Workers : CancelCall(w)
    BY <2>3 DEF CancelCall, Fail
  <2> QED BY <1>3, <2>1, <2>2, <2>3, Zenon
<1>4. CASE \E w \in Workers : CheckBalance(w)
  BY <1>4 DEF CheckBalance, Fail
<1>5. CASE \E w \in Workers : FindTreasury(w) \/ OpenTreasury(w)
  BY <1>5 DEF FindTreasury, OpenTreasury, Fail
<1>6. CASE \E w \in Workers : InsertEntry(w) \/ InsertEvent(w)
  BY <1>6, Zenon DEF InsertEntry, InsertEvent, Fail
<1>7. CASE \E w \in Workers : Commit(w) \/ CommitUnanswered(w)
  BY <1>7, Zenon DEF Commit, CommitUnanswered, Fail
<1>8. CASE \/ \E k \in Keys : ExpireLock(k)
           \/ \E r \in Refs : ExpireRecord(r)
  BY <1>8, Zenon DEF ExpireLock, ExpireRecord
<1> QED BY <1>1, <1>2, <1>3, <1>4, <1>5, <1>6, <1>7, <1>8, ZenonT(30)
        DEF Next, CallStep

(* Between two calls in the unit of work no account is shared. *)
LEMMA DisjointLocks ==
  ASSUME Timely, TypeOK, LockInv, PhaseInv,
         NEW v \in Workers, NEW w \in Workers, v # w,
         pc[v] \in InUow, pc[w] \in InUow
  PROVE  arg[v].src \notin {arg[w].src, arg[w].dst, arg[w].fee}
<1>1. /\ acquired[v] = LockKeys(arg[v]) /\ acquired[w] = LockKeys(arg[w])
      /\ lpc[v] = "holding" /\ lpc[w] = "holding"
  BY Zenon DEF PhaseInv, LockInv, ListInv
<1>2. arg[v].src \in Keys /\ arg[v].src # NoAccount
  <2>1. arg[v].src \in Accounts
    BY PostingsAssumption DEF TypeOK
  <2> QED BY <2>1, PostingsAssumption, TransferAssumption, Zenon
<1>3. lock[arg[v].src] = v
  BY <1>1, <1>2, Zenon DEF LockKeys, LockInv, OwnerInv
<1>4. arg[v].src \in LockKeys(arg[w]) => lock[arg[v].src] = w
  BY <1>1, <1>2, Zenon DEF LockInv, OwnerInv
<1> QED BY <1>2, <1>3, <1>4, Zenon DEF LockKeys

(* While the locks hold, a balance that was checked is not lowered by      *)
(* another call: the check and the commit are as good as one step.         *)
LEMMA FundedStep ==
  Timely /\ TypeOK /\ LockInv /\ PhaseInv /\ TxInv /\ FundedInv /\ Next => FundedInv'
<1> SUFFICES ASSUME Timely, TypeOK, LockInv, PhaseInv, TxInv, FundedInv, Next,
                    NEW v \in Workers, pc'[v] \in Checked, arg'[v].src \notin Treasuries
             PROVE  Balance(arg[v].src)' >= TotalRequired(arg'[v])
  BY Zenon DEF FundedInv
<1>1. arg' = arg
  BY LedgerStep, Zenon
<1>2. Balance(arg[v].src) >= TotalRequired(arg[v]) \/ pc[v] \notin Checked
  BY <1>1, Zenon DEF FundedInv
<1>3. CASE UNCHANGED <<debits, credits>>
  <2>1. Balance(arg[v].src)' = Balance(arg[v].src)
    BY <1>1, <1>3, Zenon DEF Balance, BalanceOf
  <2>2. TransferAllowed(v) => Balance(arg[v].src) >= TotalRequired(arg[v])
    BY Zenon DEF TransferAllowed
  <2> QED BY <1>1, <1>2, <2>1, <2>2, CheckedStep, Zenon
<1>4. ASSUME NEW w \in Workers, pc[w] = "commit", MakeVisible(w), pc'[w] \in {"respond", "cleanup"},
             pc[v] \in Checked
      PROVE  Balance(arg[v].src)' >= TotalRequired(arg'[v])
  <2>1. v # w /\ pc[v] \in InUow /\ pc[w] \in InUow
    BY <1>4, Zenon DEF Checked, InUow
  <2>2. arg[v].src \notin {arg[w].src, arg[w].dst, arg[w].fee}
    BY <2>1, DisjointLocks, Zenon
  <2>3. arg[v].src \in Accounts /\ arg[w] \in Requests
    BY PostingsAssumption DEF TypeOK
  <2>4. Posted(arg[w], "DEBIT", arg[v].src) = 0 /\ Posted(arg[w], "CREDIT", arg[v].src) = 0
    BY <1>1, <2>2, <2>3, PostedElsewhere, Zenon
  <2>5. debits'[arg[v].src] = debits[arg[v].src] /\ credits'[arg[v].src] = credits[arg[v].src]
    BY <1>4, <2>3, <2>4 DEF MakeVisible, TypeOK
  <2>6. Balance(arg[v].src)' = Balance(arg[v].src)
    BY <1>1, <2>5, Zenon DEF Balance, BalanceOf
  <2> QED BY <1>1, <1>2, <1>4, <2>6, Zenon
<1> QED BY <1>3, <1>4, LedgerStep, CheckedStep, Zenon DEF LedgerUnchanged
=============================================================================
