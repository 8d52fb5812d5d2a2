--------------------------- MODULE TransferProofs ---------------------------
(***************************************************************************)
(* The rest of the inductive invariant of LedgerTransfer, the theorems it  *)
(* gives, the refinement of AtomicLedger, and the instances for TLC.       *)
(***************************************************************************)
EXTENDS LedgerTransfer

(* Steps of a call seen from the idempotency records: RecordInv and        *)
(* ClaimInv are kept.                                                      *)

(* The records and the answers. *)
LEMMA RecordStep == TypeOK /\ TxInv /\ RecordInv /\ Next => RecordInv'
<1> SUFFICES ASSUME TypeOK, TxInv, RecordInv, Next PROVE RecordInv'
  BY Zenon
<1>a. \A w \in Workers : Ref(w) \in Refs
  BY RefType, Zenon
<1>b. arg' = arg /\ journal \subseteq journal' /\ \A w \in Workers : Ref(w)' = Ref(w)
  BY LedgerStep, Zenon DEF LedgerUnchanged, MakeVisible, Ref
<1> DEFINE Answered(w) == answer[w].kind \in {"accepted", "replayed"} =>
                            answer[w].entry \in journal /\ Ref(answer[w].entry) = Ref(w)
           Recorded(r) == /\ idem[r].status = "MISSING" => idem[r] = Missing
                          /\ idem[r].status # "MISSING" => idem[r].by \in Workers
                          /\ idem[r].status = "COMPLETED" =>
                               idem[r].by \in journal /\ Ref(idem[r].by) = r
           AtHand(w) == pc[w] \in {"respond", "complete"} => w \in journal
<1>c. RecordInv <=> /\ \A w \in Workers : Answered(w) /\ AtHand(w)
                    /\ \A r \in Refs : Recorded(r)
  BY Zenon DEF RecordInv, ResponsesArePosted
<1> DEFINE Goal == /\ \A w \in Workers : Answered(w)' /\ AtHand(w)'
                   /\ \A r \in Refs : Recorded(r)'
<1>d. SUFFICES Goal
  BY Zenon DEF RecordInv, ResponsesArePosted
<1>e. journal \subseteq Workers
  BY Zenon DEF TypeOK
<1>f. ASSUME UNCHANGED idem PROVE \A r \in Refs : Recorded(r)'
  BY <1>b, <1>c, <1>e, <1>f, Zenon
<1>g. ASSUME UNCHANGED answer PROVE \A w \in Workers : Answered(w)'
  BY <1>b, <1>c, <1>e, <1>g, ZenonT(30)
<1>h. ASSUME NEW w \in Workers, NEW kind \in {"conflict", "error", "invalid"}, Finish(w, kind, NoOwner)
      PROVE  /\ \A v \in Workers : Answered(v)'
             /\ \A v \in Workers : AtHand(v)'
  BY <1>b, <1>c, <1>e, <1>h DEF Finish, Goto, TypeOK
<1>i. ASSUME NEW w \in Workers, NEW label, Goto(w, label), label \notin {"respond", "complete"}
      PROVE  \A v \in Workers : AtHand(v)'
  BY <1>b, <1>c, <1>i, Zenon DEF Goto, TypeOK
<1>j. ASSUME UNCHANGED pc PROVE \A v \in Workers : AtHand(v)'
  BY <1>b, <1>c, <1>j, Zenon
<1>k. ASSUME NEW r \in Refs, idem'[r] = idem[r] PROVE Recorded(r)'
  BY <1>b, <1>c, <1>e, <1>k, Zenon
<1>l. ASSUME NEW r \in Refs, idem'[r] = Missing PROVE Recorded(r)'
  BY <1>l DEF Missing
<1>1. ASSUME NEW w \in Workers, Preflight(w) PROVE Goal
  BY <1>1, <1>f, <1>g, <1>h, <1>i, Zenon DEF Preflight
<1>2. ASSUME NEW w \in Workers, ReadRecord(w) PROVE Goal
  <2>1. CASE idem[Ref(w)].status = "COMPLETED" /\ Finish(w, "replayed", idem[Ref(w)].by)
    <3>1. idem[Ref(w)].by \in journal /\ Ref(idem[Ref(w)].by) = Ref(w)
      BY <1>a, <1>c, <2>1, Zenon
    <3>2. \A v \in Workers : Answered(v)'
      BY <1>b, <1>c, <1>e, <2>1, <3>1 DEF Finish, Goto, TypeOK
    <3> QED BY <1>2, <1>f, <1>i, <2>1, <3>2, Zenon DEF ReadRecord, Finish
  <2> QED BY <1>2, <2>1, <1>f, <1>g, <1>h, <1>i, Zenon DEF ReadRecord
<1>3. ASSUME NEW w \in Workers, ClaimReference(w) PROVE Goal
  <2>1. \A v \in Workers : Answered(v)' /\ AtHand(v)'
    BY <1>3, <1>g, <1>h, <1>i, Zenon DEF ClaimReference
  <2>2. \A r \in Refs : idem'[r] = idem[r] \/ idem'[r] = Processing(w)
    BY <1>3, <1>a, Zenon DEF ClaimReference, TypeOK
  <2>4. ASSUME NEW r \in Refs, idem'[r] = Processing(w) PROVE Recorded(r)'
    BY <2>4 DEF Processing
  <2>3. \A r \in Refs : Recorded(r)'
    BY <1>k, <2>2, <2>4, Zenon
  <2> QED BY <2>1, <2>3, Zenon
<1>4. ASSUME NEW w \in Workers,
             ScreenTransfer(w) \/ AcquireFails(w) \/ ReleaseLock(w) \/ CancelCall(w)
      PROVE  Goal
  BY <1>4, <1>f, <1>g, <1>i, <1>j, Zenon
  DEF ScreenTransfer, AcquireFails, ReleaseLock, CancelCall
<1>5. ASSUME NEW w \in Workers,
             AcquireLock(w) \/ CheckReference(w) \/ CheckBalance(w) \/ DbError(w) \/ DbLockTimeout(w)
      PROVE  Goal
  BY <1>5, <1>f, <1>g, <1>i, Zenon
  DEF AcquireLock, CheckReference, CheckBalance, DbError, DbLockTimeout, Fail
<1>6. ASSUME NEW w \in Workers,
             FindTreasury(w) \/ OpenTreasury(w) \/ InsertEntry(w) \/ InsertEvent(w)
      PROVE  Goal
  <2>1. AfterTreasury(w) \notin {"respond", "complete"}
    BY Zenon DEF AfterTreasury
  <2> QED BY <1>6, <1>f, <1>g, <1>i, <2>1, Zenon
          DEF FindTreasury, OpenTreasury, InsertEntry, InsertEvent, Fail
<1>7. ASSUME NEW w \in Workers, Commit(w) \/ CommitUnanswered(w) PROVE Goal
  <2>1. w \in journal'
    BY <1>7, Zenon DEF Commit, CommitUnanswered, MakeVisible, TxInv, TypeOK
  <2>2. \A v \in Workers : AtHand(v)'
    BY <1>7, <1>b, <1>c, <2>1, ZenonT(30) DEF Commit, CommitUnanswered, Fail, Goto, TypeOK
  <2> QED BY <1>7, <1>f, <1>g, <2>2 DEF Commit, CommitUnanswered
<1>8. ASSUME NEW w \in Workers, Respond(w) PROVE Goal
  <2>1. \A v \in Workers : AtHand(v)'
    BY <1>8, <1>b, <1>c, Zenon DEF Respond, Goto, TypeOK
  <2> QED BY <1>8, <1>f, <1>g, <2>1, Zenon DEF Respond
<1>9. ASSUME NEW w \in Workers, StoreResponse(w) PROVE Goal
  <2>1. w \in journal
    BY <1>9, <1>c, Zenon DEF StoreResponse
  <2>2. \A r \in Refs : idem'[r] = idem[r] \/ (r = Ref(w) /\ idem'[r] = Completed(w))
    BY <1>9, <1>a, Zenon DEF StoreResponse, TypeOK
  <2>5. \A r \in Refs : Recorded(r)'
    <3>1. ASSUME NEW r \in Refs, r = Ref(w), idem'[r] = Completed(w) PROVE Recorded(r)'
      <4>1. idem'[r].by = w /\ idem'[r].status = "COMPLETED"
        BY <3>1 DEF Completed
      <4> QED BY <1>b, <2>1, <3>1, <4>1, Zenon
    <3> QED BY <1>k, <2>2, <3>1, Zenon
  <2>3. \A v \in Workers : Answered(v)'
    <3>1. CASE UNCHANGED answer
      BY <1>g, <3>1, Zenon
    <3>2. CASE answer' = [answer EXCEPT ![w] = [kind |-> "accepted", entry |-> w]]
      <4>1. \A v \in Workers \ {w} : answer'[v] = answer[v]
        BY <3>2, Zenon DEF TypeOK
      <4>2. answer'[w].entry = w
        BY <3>2, Zenon DEF TypeOK
      <4>3. Answered(w)'
        BY <1>b, <2>1, <4>2, Zenon
      <4>4. ASSUME NEW v \in Workers \ {w} PROVE Answered(v)'
        BY <1>b, <1>c, <1>e, <4>1
      <4> QED BY <4>3, <4>4, Zenon
    <3> QED BY <1>9, <3>1, <3>2, Zenon DEF StoreResponse, Finish
  <2>4. \A v \in Workers : AtHand(v)'
    BY <1>9, <1>i, Zenon DEF StoreResponse, Finish
  <2> QED BY <2>3, <2>4, <2>5, Zenon
<1>10. ASSUME NEW w \in Workers, CleanupRead(w) \/ CleanupDelete(w) PROVE Goal
  <2>1. \A v \in Workers : Answered(v)' /\ AtHand(v)'
    BY <1>10, <1>g, <1>h, <1>i, Zenon DEF CleanupRead, CleanupDelete
  <2>2. \A r \in Refs : idem'[r] = idem[r] \/ idem'[r] = Missing
    BY <1>10, <1>a, Zenon DEF CleanupRead, CleanupDelete, TypeOK
  <2>3. \A r \in Refs : Recorded(r)'
    BY <1>k, <1>l, <2>2, Zenon
  <2> QED BY <2>1, <2>3, Zenon
<1>11. ASSUME NEW k \in Keys, ExpireLock(k) PROVE Goal
  BY <1>11, <1>f, <1>g, <1>j, Zenon DEF ExpireLock
<1>12. ASSUME NEW r \in Refs, ExpireRecord(r) PROVE Goal
  <2>1. \A q \in Refs : Recorded(q)'
    BY <1>12, <1>b, <1>c, <1>e, Zenon DEF ExpireRecord, Missing, TypeOK
  <2> QED BY <1>12, <1>g, <1>j, <2>1, Zenon DEF ExpireRecord
<1> QED BY <1>1, <1>2, <1>3, <1>4, <1>5, <1>6, <1>7, <1>8, <1>9, <1>10, <1>11, <1>12,
           ZenonT(30) DEF Next, CallStep

(* While no record expires under a running call, the call that claimed a   *)
(* reference is the only one that can replace or delete its record.        *)
LEMMA ClaimStep == Timely /\ TypeOK /\ ClaimInv /\ Next => ClaimInv'
<1> SUFFICES ASSUME Timely, TypeOK, ClaimInv, Next PROVE ClaimInv'
  BY Zenon
<1>a. \A w \in Workers : Ref(w) \in Refs
  BY RefType, Zenon
<1>b. \A w \in Workers : w # NoOwner
  BY LockAssumption, Zenon
<1>t. /\ pc \in [Workers -> PcStates]
      /\ idem \in [Refs -> [status : {"MISSING", "PROCESSING", "COMPLETED"},
                            by : Workers \cup {NoOwner}]]
  BY Zenon DEF TypeOK
<1> USE <1>t DEF ClaimInv, InFlight, Running, PcStates, InUow, Goto, Finish
<1>1. ASSUME NEW w \in Workers, Preflight(w) \/ ReadRecord(w) PROVE ClaimInv'
  <2>1. idem' = idem /\ arg' = arg /\ \A v \in Workers \ {w} : pc'[v] = pc[v]
    BY <1>1, Zenon DEF Preflight, ReadRecord
  <2>2. pc'[w] # "delete" /\ ~InFlight(w)'
    BY <1>1 DEF Preflight, ReadRecord
  <2> QED BY <2>1, <2>2, Zenon DEF Ref
<1>2. ASSUME NEW w \in Workers, ClaimReference(w) PROVE ClaimInv'
  <2>1. arg' = arg /\ (\A v \in Workers \ {w} : pc'[v] = pc[v]) /\ pc'[w] # "delete"
    BY <1>2 DEF ClaimReference
  <2>2. CASE idem' = idem /\ ~InFlight(w)'
    BY <2>1, <2>2, Zenon DEF Ref
  <2>3. CASE idem[Ref(w)] = Missing /\ idem' = [idem EXCEPT ![Ref(w)] = Processing(w)]
    <3>1. idem'[Ref(w)].by = w /\ \A r \in Refs \ {Ref(w)} : idem'[r] = idem[r]
      BY <1>a, <2>3, Zenon DEF Processing
    <3>2. ASSUME NEW v \in Workers, v # w, InFlight(v) \/ pc[v] = "delete" PROVE Ref(v) # Ref(w)
      <4>1. idem[Ref(w)].by # v /\ idem[Ref(w)].status # "PROCESSING"
        BY <1>b, <2>3 DEF Missing
      <4> QED BY <3>2, <4>1, Zenon
    <3>3. ASSUME NEW v \in Workers, v # w
          PROVE  /\ InFlight(v)' => idem'[Ref(v)'].by = v
                 /\ pc'[v] = "delete" => idem'[Ref(v)'].status = "PROCESSING"
      BY <1>a, <2>1, <3>1, <3>2, <3>3 DEF Ref
    <3>4. Ref(w)' = Ref(w)
      BY <2>1, Zenon DEF Ref
    <3> QED BY <2>1, <3>1, <3>3, <3>4, Zenon
  <2> QED BY <1>2, <2>2, <2>3, Zenon DEF ClaimReference, Unclaimed
<1>3. ASSUME NEW w \in Workers,
             \/ ScreenTransfer(w) \/ AcquireLock(w) \/ AcquireFails(w) \/ ReleaseLock(w)
             \/ CancelCall(w) \/ Respond(w)
      PROVE  ClaimInv'
  <2>1. idem' = idem /\ arg' = arg /\ \A v \in Workers \ {w} : pc'[v] = pc[v]
    BY <1>3, ZenonT(30)
       DEF ScreenTransfer, AcquireLock, AcquireFails, ReleaseLock, CancelCall, Respond
  <2>2. (pc'[w] = "delete" => pc[w] = "delete") /\ (InFlight(w)' => InFlight(w))
    BY <1>3, ZenonT(30)
       DEF ScreenTransfer, AcquireLock, AcquireFails, ReleaseLock, CancelCall, Respond
  <2> QED BY <2>1, <2>2, Zenon DEF Ref
<1>4. ASSUME NEW w \in Workers,
             CheckReference(w) \/ CheckBalance(w) \/ DbError(w) \/ DbLockTimeout(w)
      PROVE  ClaimInv'
  <2>1. idem' = idem /\ arg' = arg /\ \A v \in Workers \ {w} : pc'[v] = pc[v]
    BY <1>4, Zenon DEF CheckReference, CheckBalance, DbError, DbLockTimeout, Fail
  <2>2. pc'[w] # "delete" /\ (InFlight(w)' => InFlight(w))
    BY <1>4, Zenon DEF CheckReference, CheckBalance, DbError, DbLockTimeout, Fail
  <2> QED BY <2>1, <2>2, Zenon DEF Ref
<1>5. ASSUME NEW w \in Workers, FindTreasury(w) \/ OpenTreasury(w) PROVE ClaimInv'
  <2>1. idem' = idem /\ arg' = arg /\ \A v \in Workers \ {w} : pc'[v] = pc[v]
    BY <1>5, ZenonT(30) DEF FindTreasury, OpenTreasury, Fail
  <2>2. pc'[w] # "delete" /\ (InFlight(w)' => InFlight(w))
    BY <1>5 DEF FindTreasury, OpenTreasury, AfterTreasury, Fail
  <2> QED BY <2>1, <2>2, Zenon DEF Ref
<1>6. ASSUME NEW w \in Workers,
             InsertEntry(w) \/ InsertEvent(w) \/ Commit(w) \/ CommitUnanswered(w)
      PROVE  ClaimInv'
  <2>1. idem' = idem /\ arg' = arg /\ \A v \in Workers \ {w} : pc'[v] = pc[v]
    BY <1>6, ZenonT(30) DEF InsertEntry, InsertEvent, Commit, CommitUnanswered, Fail
  <2>2. pc'[w] # "delete" /\ (InFlight(w)' => InFlight(w))
    BY <1>6 DEF InsertEntry, InsertEvent, Commit, CommitUnanswered, Fail
  <2> QED BY <2>1, <2>2, Zenon DEF Ref
<1>8. ASSUME NEW w \in Workers, StoreResponse(w) PROVE ClaimInv'
  <2>1. idem[Ref(w)].by = w /\ pc'[w] \in {"done", "cleanup"} /\ arg' = arg
    BY <1>8, Zenon DEF StoreResponse
  <2>2. idem'[Ref(w)].by = w
    <3>1. Completed(w).by = w
      BY Zenon DEF Completed
    <3> QED BY <1>8, <1>a, <2>1, <3>1, Zenon DEF StoreResponse
  <2>3. \A r \in Refs \ {Ref(w)} : idem'[r] = idem[r]
    BY <1>8, <1>a, ZenonT(30) DEF StoreResponse
  <2>4. (\A v \in Workers \ {w} : pc'[v] = pc[v]) /\ pc'[w] # "delete"
        /\ \A v \in Workers : Ref(v)' = Ref(v)
    BY <1>8 DEF StoreResponse, Ref
  <2>5. ASSUME NEW v \in Workers, v # w, InFlight(v) \/ pc[v] = "delete" PROVE Ref(v) # Ref(w)
    BY <2>1, <2>5, Zenon
  <2>6. ASSUME NEW v \in Workers, v # w
        PROVE  /\ InFlight(v)' => idem'[Ref(v)'].by = v
               /\ pc'[v] = "delete" => idem'[Ref(v)'].status = "PROCESSING"
    BY <1>a, <2>3, <2>4, <2>5, <2>6
  <2> QED BY <2>2, <2>4, <2>6
<1>9. ASSUME NEW w \in Workers, CleanupRead(w) PROVE ClaimInv'
  BY <1>9, ZenonT(30) DEF CleanupRead, SaysProcessing, Ref
<1>10. ASSUME NEW w \in Workers, CleanupDelete(w) PROVE ClaimInv'
  <2>1. arg' = arg /\ (\A v \in Workers \ {w} : pc'[v] = pc[v]) /\ pc'[w] = "done"
    BY <1>10, Zenon DEF CleanupDelete
  <2>2. idem[Ref(w)].by = w
    BY <1>10, Zenon DEF CleanupDelete
  <2>3. ASSUME NEW v \in Workers, v # w, InFlight(v) PROVE idem'[Ref(v)] = idem[Ref(v)]
    BY <1>10, <1>a, <2>2, <2>3, Zenon DEF CleanupDelete
  <2> QED BY <2>1, <2>3 DEF Ref
<1>11. ASSUME NEW k \in Keys, ExpireLock(k) PROVE ClaimInv'
  BY <1>11, Zenon DEF ExpireLock, Ref
<1>12. ASSUME NEW r \in Refs, ExpireRecord(r) PROVE ClaimInv'
  BY <1>12, <1>a DEF ExpireRecord, Ref
<1> QED BY <1>1, <1>2, <1>3, <1>4, <1>5, <1>6, <1>8, <1>9, <1>10, <1>11, <1>12,
           Zenon DEF Next, CallStep

-----------------------------------------------------------------------------
(* Inv is inductive under any timing. *)
LEMMA InitInv == Init => Inv
<1> SUFFICES ASSUME Init PROVE Inv
  BY Zenon
<1>1. LockInv
  BY LockInitInv, Zenon DEF Init
<1>2. TypeOK
  BY <1>1, TransferAssumption, Zenon DEF Init, TypeOK, LockInv, PcStates, Missing, NoAnswer
<1>3. PhaseInv
  BY Zenon DEF Init, LockInit, PhaseInv, InUow
<1>4. TxInv /\ UniqueInv /\ EventIffEntry
  BY Zenon DEF Init, TxInv, UniqueInv, OneEntryPerReference, EventIffEntry
<1>5. RecordInv
  BY Zenon DEF Init, RecordInv, ResponsesArePosted, Missing, NoAnswer
<1> QED BY <1>1, <1>2, <1>3, <1>4, <1>5, Zenon DEF Inv

LEMMA StutterInv == Inv /\ UNCHANGED vars => Inv'
<1> SUFFICES ASSUME Inv, UNCHANGED vars PROVE Inv'
  BY Zenon
<1> USE DEF vars, lockVars, dbVars, Inv
<1>1. LockInv'
  BY LockStutterInv, Zenon
<1>2. TypeOK'
  BY <1>1, Zenon DEF TypeOK, LockInv
<1>3. PhaseInv' /\ TxInv'
  BY Zenon DEF PhaseInv, TxInv
<1>4. UniqueInv' /\ EventIffEntry'
  BY ZenonT(30) DEF UniqueInv, EventIffEntry, OneEntryPerReference, Ref
<1>5. RecordInv'
  BY Zenon DEF RecordInv, ResponsesArePosted, Ref
<1> QED BY <1>1, <1>2, <1>3, <1>4, <1>5, Zenon

LEMMA NextInv == Inv /\ Next => Inv'
<1> SUFFICES ASSUME Inv, Next PROVE Inv'
  BY Zenon
<1> USE DEF Inv
<1>1. LockInv'
  BY LocksStep, LockStepInv, LockStutterInv, Zenon
<1> QED BY <1>1, TypeStep, PhaseStep, TxStep, UniqueStep, RecordStep, Zenon

LEMMA InvHolds == Spec => []Inv
BY InitInv, StutterInv, NextInv, PTL DEF Spec

(* With the two facts that depend on the timing. *)
LEMMA TimelyInvHolds == ASSUME Timely PROVE Spec => []TimelyInv
<1>1. Init => FundedInv /\ ClaimInv
  BY DEF Init, FundedInv, ClaimInv, Checked, InFlight, Running
<1>2. TimelyInv /\ Next => TimelyInv'
  BY NextInv, FundedStep, ClaimStep, Zenon DEF TimelyInv, Inv
<1>3. TimelyInv /\ UNCHANGED vars => TimelyInv'
  <2> SUFFICES ASSUME TimelyInv, UNCHANGED vars PROVE FundedInv' /\ ClaimInv'
    BY StutterInv, Zenon DEF TimelyInv
  <2> QED BY Zenon DEF TimelyInv, FundedInv, ClaimInv, Balance, InFlight, Running, Ref, vars, dbVars
<1> QED BY InitInv, <1>1, <1>2, <1>3, PTL DEF Spec, TimelyInv

-----------------------------------------------------------------------------

(* The variables of transfer_funds() keep their types. *)
THEOREM TransferTypeCorrect == Spec => []TypeOK
<1>1. Inv => TypeOK
  BY Zenon DEF Inv
<1> QED BY <1>1, InvHolds, PTL

(* Whatever expires, fails or dies, a reference gets one journal entry,    *)
(* journal and outbox agree, and a response that is returned, replayed or  *)
(* cached belongs to a committed entry with the reference asked for.       *)
THEOREM TransferEntriesWhole == Spec => []EntriesWhole
<1>1. Inv => OneEntryPerReference
  BY Zenon DEF Inv, UniqueInv
<1>2. Inv => EventIffEntry
  BY Zenon DEF Inv
<1>3. Inv => ResponsesArePosted
  BY Zenon DEF Inv, RecordInv
<1>4. Inv => EntriesWhole
  BY <1>1, <1>2, <1>3, Zenon DEF EntriesWhole
<1> QED BY <1>4, InvHolds, PTL

(* When no record expires under a running call, concurrent duplicates are  *)
(* turned away: one call at a time works on a reference.                   *)
THEOREM TransferOneCallInFlight ==
  ASSUME Timely PROVE Spec => []OneCallInFlight
<1>1. TimelyInv => OneCallInFlight
  BY Zenon DEF TimelyInv, ClaimInv, OneCallInFlight
<1> QED BY <1>1, TimelyInvHolds, PTL

(* What a committing call does to an account it posts to: with the locks   *)
(* held, the funds are there and the lock is its own.                      *)
LEMMA CommitUnderLocks ==
  ASSUME Timely, TimelyInv, NEW w \in Workers, pc[w] = "commit", NEW a \in Accounts,
         a \notin Treasuries, lock[a] # w, NEW side \in {"DEBIT", "CREDIT"}
  PROVE  Posted(arg[w], side, a) = 0
<1>1. acquired[w] = LockKeys(arg[w]) /\ lpc[w] = "holding"
  BY Zenon DEF TimelyInv, Inv, PhaseInv, LockInv, ListInv, InUow
<1>2. a \notin LockKeys(arg[w])
  BY <1>1, TransferAssumption, Zenon DEF TimelyInv, Inv, LockInv, OwnerInv
<1>3. a # NoAccount /\ arg[w] \in Requests
  BY PostingsAssumption, Zenon DEF TimelyInv, Inv, TypeOK
<1> QED BY <1>2, <1>3, PostedElsewhere, Zenon DEF LockKeys

(* When locks outlive their holders, the postings of an account that is    *)
(* not a treasury account appear under its lock.                           *)
THEOREM TransferCustomerAccountsUnderLock ==
  ASSUME Timely PROVE Spec => CustomerAccountsUnderLock
<1>1. TimelyInv /\ [Next]_vars => [PostsUnderLock(Accounts \ Treasuries)]_vars
  <2> SUFFICES ASSUME TimelyInv, Next, NEW w \in journal' \ journal,
                      NEW a \in Accounts \ Treasuries, lock[a] # w
               PROVE  debits'[a] = debits[a] /\ credits'[a] = credits[a]
    BY Zenon DEF PostsUnderLock
  <2>1. PICK v \in Workers : pc[v] = "commit" /\ MakeVisible(v)
    BY LedgerStep, Zenon DEF TimelyInv, Inv, LedgerUnchanged
  <2>2. v = w
    BY <2>1, Zenon DEF MakeVisible
  <2>3. Posted(arg[w], "DEBIT", a) = 0 /\ Posted(arg[w], "CREDIT", a) = 0
    BY <2>1, <2>2, CommitUnderLocks, Zenon
  <2> QED BY <2>1, <2>2, <2>3 DEF MakeVisible, TimelyInv, Inv, TypeOK
<1> QED BY <1>1, TimelyInvHolds, PTL DEF Spec, CustomerAccountsUnderLock

(* When no record expires under a running call, no call removes a          *)
(* COMPLETED record: the cleanup of a failed call meets its own claim.     *)
THEOREM TransferCompletedIsKept ==
  ASSUME Timely PROVE Spec => CompletedIsKept
<1> DEFINE Kept == \A r \in Refs :
             idem[r].status = "COMPLETED" /\ idem'[r] # idem[r] => UNCHANGED pc
<1>1. TimelyInv /\ Next => Kept
  <2> SUFFICES ASSUME TimelyInv, Next, NEW r \in Refs, idem[r].status = "COMPLETED",
                      idem'[r] # idem[r]
               PROVE  UNCHANGED pc
    BY Zenon
  <2>t. /\ pc \in [Workers -> PcStates] /\ ClaimInv
        /\ idem \in [Refs -> [status : {"MISSING", "PROCESSING", "COMPLETED"},
                              by : Workers \cup {NoOwner}]]
    BY Zenon DEF TimelyInv, Inv, TypeOK
  <2> USE <2>t
  <2>1. ASSUME NEW w \in Workers, ClaimReference(w) PROVE FALSE
    BY <2>1 DEF ClaimReference, Unclaimed, Missing
  <2>2. ASSUME NEW w \in Workers, StoreResponse(w) PROVE FALSE
    <3>1. InFlight(w) /\ Ref(w) \in Refs
      BY <2>2, RefType, Zenon DEF StoreResponse, InFlight, Running
    <3>2. idem[Ref(w)].by = w
      BY <3>1, Zenon DEF ClaimInv
    <3>3. r = Ref(w) /\ idem'[r] = Completed(w)
      BY <2>2, <3>1, Zenon DEF StoreResponse
    <3>4. idem[r] = [status |-> "COMPLETED", by |-> w]
      BY <3>2, <3>3, Zenon
    <3> QED BY <3>3, <3>4, Zenon DEF Completed
  <2>3. ASSUME NEW w \in Workers, CleanupDelete(w) PROVE FALSE
    BY <2>3, RefType, Zenon DEF CleanupDelete, ClaimInv
  <2>4. CASE \E q \in Refs : ExpireRecord(q)
    BY <2>4, Zenon DEF ExpireRecord
  <2>5. CASE UNCHANGED idem
    BY <2>5, Zenon
  <2>6. \/ UNCHANGED idem
        \/ \E w \in Workers : ClaimReference(w) \/ StoreResponse(w) \/ CleanupDelete(w)
        \/ \E q \in Refs : ExpireRecord(q)
    BY ZenonT(30)
       DEF Next, CallStep, Preflight, ReadRecord, ScreenTransfer, AcquireLock, AcquireFails,
           CheckReference, CheckBalance, FindTreasury, OpenTreasury, InsertEntry, InsertEvent,
           DbLockTimeout, DbError, Commit, CommitUnanswered, Respond, ReleaseLock, CleanupRead,
           CancelCall, ExpireLock
  <2> QED BY <2>1, <2>2, <2>3, <2>4, <2>5, <2>6, Zenon
<1> QED BY <1>1, TimelyInvHolds, PTL DEF Spec, CompletedIsKept

(* When no TTL elapses under a running call, calls that share an account   *)
(* or a reference keep apart, for any number of them.                      *)
THEOREM TransferCallsKeepApart ==
  ASSUME Timely PROVE Spec => CallsKeepApart
<1>1. TimelyInv => MutualExclusion
  BY DEF TimelyInv, Inv, LockInv, LockTypeOK, ListInv, OwnerInv, MutualExclusion
<1>2. Spec => []MutualExclusion
  BY <1>1, TimelyInvHolds, PTL
<1> QED BY <1>2, TransferOneCallInFlight, TransferCompletedIsKept,
           TransferCustomerAccountsUnderLock, PTL DEF CallsKeepApart

-----------------------------------------------------------------------------

(* A commit of a funded transfer leaves no protected account negative. *)
LEMMA CommitKeepsBalance ==
  ASSUME TimelyInv, NEW w \in Workers, pc[w] = "commit", MakeVisible(w),
         NEW a \in Protected, Balance(a) >= 0
  PROVE  BalanceOf(debits', credits', a) >= 0
<1> DEFINE i == arg[w]
           up == Posted(i, NormalSide(a), a)
           down == Posted(i, Opposite(NormalSide(a)), a)
<1>1. i \in Requests /\ a \in Accounts /\ a \notin Treasuries
  BY Zenon DEF TimelyInv, Inv, TypeOK, Protected
<1>2. up \in Nat /\ down \in Nat
  BY <1>1, PostedType, Zenon DEF NormalSide, Opposite
<1>3. up - down >= IF a = i.src THEN 0 - TotalRequired(i) ELSE 0
  BY <1>1, BalanceEffect, Zenon DEF Protected
<1>4. a = i.src => Balance(a) >= TotalRequired(i)
  BY <1>1, Zenon DEF TimelyInv, FundedInv, Checked
<1>5. TotalRequired(i) \in Nat
  BY <1>1, PostingsAssumption DEF TotalRequired
<1>6. debits[a] \in Nat /\ credits[a] \in Nat
  BY <1>1, Zenon DEF TimelyInv, Inv, TypeOK
<1>7. BalanceOf(debits', credits', a) = Balance(a) + up - down
  BY <1>1, <1>2, <1>6 DEF MakeVisible, Balance, BalanceOf, NormalSide, Opposite
<1>8. Balance(a) \in Int
  BY <1>6 DEF Balance, BalanceOf
<1> QED BY <1>2, <1>3, <1>4, <1>5, <1>7, <1>8

(* When locks outlive their holders, no account that requests post to in   *)
(* its own direction is ever overdrawn, whatever number of concurrent      *)
(* transfers share it, and whichever of them fail or die on the way.       *)
THEOREM TransferNoOverdraft ==
  ASSUME Timely, \A a \in Protected : BalanceOf(OpeningDebits, OpeningCredits, a) >= 0
  PROVE  Spec => []NoOverdraft
<1>1. Init => NoOverdraft
  BY Zenon DEF Init, NoOverdraft, Balance
<1>2. TimelyInv /\ NoOverdraft /\ Next => NoOverdraft'
  <2> SUFFICES ASSUME TimelyInv, NoOverdraft, Next, NEW a \in Protected
               PROVE  BalanceOf(debits', credits', a) >= 0
    BY Zenon DEF NoOverdraft, Balance, BalanceOf
  <2>1. Balance(a) >= 0
    BY Zenon DEF NoOverdraft
  <2>2. CASE LedgerUnchanged
    BY <2>1, <2>2, Zenon DEF LedgerUnchanged, Balance
  <2>3. ASSUME NEW w \in Workers, pc[w] = "commit", MakeVisible(w)
        PROVE  BalanceOf(debits', credits', a) >= 0
    BY <2>1, <2>3, CommitKeepsBalance, Zenon
  <2> QED BY <2>2, <2>3, LedgerStep, Zenon DEF TimelyInv, Inv
<1>3. NoOverdraft /\ UNCHANGED vars => NoOverdraft'
  BY Zenon DEF NoOverdraft, Balance, BalanceOf, vars, dbVars
<1> QED BY <1>1, <1>2, <1>3, TimelyInvHolds, PTL DEF Spec

-----------------------------------------------------------------------------
(***************************************************************************)
(* The refinement: what a reader of committed rows sees is AtomicLedger.   *)
(***************************************************************************)

Abstract == INSTANCE AtomicLedger

(* transfer_funds() behaves like one indivisible step.                     *)
ImplementsAtomicLedger == Abstract!LedgerSpec

(* The operators of the instance are those of JournalPostings. *)
LEMMA AbstractOperators ==
  /\ \A i, side, a : Abstract!Posted(i, side, a) = Posted(i, side, a)
  /\ \A i, side : Abstract!TotalPosted(i, side) = TotalPosted(i, side)
  /\ \A i : Abstract!TotalRequired(i) = TotalRequired(i)
  /\ \A dr, cr, a : Abstract!BalanceOf(dr, cr, a) = BalanceOf(dr, cr, a)
  /\ Abstract!Treasuries = Treasuries
<1>1. \A i, side, a : Abstract!Posted(i, side, a) = Posted(i, side, a)
  BY DEF Posted, Abstract!Posted, Opposite, NormalSide, DestinationAmount,
         RoundHalfEven, CrossCurrency, SourceTreasury, DestinationTreasury,
         TotalRequired, LegSum, Abstract!Opposite, Abstract!NormalSide,
         Abstract!DestinationAmount, Abstract!RoundHalfEven, Abstract!CrossCurrency,
         Abstract!SourceTreasury, Abstract!DestinationTreasury, Abstract!TotalRequired,
         Abstract!LegSum
<1>2. \A i, side : Abstract!TotalPosted(i, side) = TotalPosted(i, side)
  BY DEF TotalPosted, Abstract!TotalPosted, Opposite, NormalSide, DestinationAmount,
         RoundHalfEven, CrossCurrency, SourceTreasury, DestinationTreasury,
         TotalRequired, LegSum, Abstract!Opposite, Abstract!NormalSide,
         Abstract!DestinationAmount, Abstract!RoundHalfEven, Abstract!CrossCurrency,
         Abstract!SourceTreasury, Abstract!DestinationTreasury, Abstract!TotalRequired,
         Abstract!LegSum
<1>3. \A i : Abstract!TotalRequired(i) = TotalRequired(i)
  BY Zenon DEF TotalRequired, Abstract!TotalRequired
<1>4. \A dr, cr, a : Abstract!BalanceOf(dr, cr, a) = BalanceOf(dr, cr, a)
  BY Zenon DEF BalanceOf, Abstract!BalanceOf
<1>5. Abstract!Treasuries = Treasuries
  BY Zenon DEF Treasuries, Abstract!Treasuries
<1> QED BY <1>1, <1>2, <1>3, <1>4, <1>5, Zenon

(* When locks outlive their holders, transfer_funds() implements the       *)
(* atomic ledger: the commit is its one visible step.                      *)
THEOREM TransferImplementsAtomicLedger ==
  ASSUME Timely PROVE Spec => ImplementsAtomicLedger
<1>1. Init => Abstract!LedgerInit
  BY Zenon DEF Init, Abstract!LedgerInit
<1>2. TimelyInv /\ Next => [\E w \in Workers : Abstract!Transfer(w)]_(Abstract!ledgerVars)
  <2> SUFFICES ASSUME TimelyInv, Next
               PROVE  (\E w \in Workers : Abstract!Transfer(w)) \/ UNCHANGED Abstract!ledgerVars
    BY Zenon
  <2>1. arg' = arg
    BY LedgerStep, Zenon DEF TimelyInv, Inv
  <2>2. CASE LedgerUnchanged
    BY <2>1, <2>2, Zenon DEF LedgerUnchanged, Abstract!ledgerVars
  <2>3. ASSUME NEW w \in Workers, pc[w] = "commit", MakeVisible(w), w \in PendingEntries,
               "event" \in tx[w]
        PROVE  Abstract!Transfer(w)
    <3>1. \A e \in journal : arg[e].ref # arg[w].ref
      BY <2>3, Zenon DEF TimelyInv, Inv, UniqueInv, PendingEntries, Ref
    <3>2. w \notin journal
      BY <3>1, Zenon
    <3>3. arg[w].src \notin Treasuries => Balance(arg[w].src) >= TotalRequired(arg[w])
      BY <2>3, Zenon DEF TimelyInv, FundedInv, Checked
    <3>4. TotalPosted(arg[w], "DEBIT") = TotalPosted(arg[w], "CREDIT")
      BY EveryTransferBalances, Zenon DEF TimelyInv, Inv, TypeOK
    <3>5. Abstract!Apply(w)
      BY <2>3, AbstractOperators, Zenon DEF MakeVisible, PendingEntries, Abstract!Apply
    <3> QED BY <2>1, <3>1, <3>2, <3>3, <3>4, <3>5, AbstractOperators
            DEF Abstract!Transfer, Abstract!Funded, Balance
  <2> QED BY <2>2, <2>3, LedgerStep, Zenon DEF TimelyInv, Inv
<1>3. UNCHANGED vars => UNCHANGED Abstract!ledgerVars
  BY Zenon DEF vars, dbVars, Abstract!ledgerVars
<1> QED BY <1>1, <1>2, <1>3, TimelyInvHolds, PTL
        DEF Spec, ImplementsAtomicLedger, Abstract!LedgerSpec

-----------------------------------------------------------------------------
(***************************************************************************)
(* The ledger balances in every currency.                                  *)
(***************************************************************************)

(* The sum of g[1], ..., g[n]. *)
SumTo(g, n) ==
  LET upTo[k \in 0..n] == IF k = 0 THEN 0 ELSE upTo[k - 1] + g[k]
  IN  upTo[n]

(* Debits less credits of the accounts in a currency, others as zero. *)
Net(dr, cr, cur) == [a \in Accounts |-> IF CurrencyOf[a] = cur THEN dr[a] - cr[a] ELSE 0]

(* The gap of a currency, over accounts numbered from 1. *)
Gap(dr, cr, cur) == SumTo(Net(dr, cr, cur), Cardinality(Accounts))

(* "Enforces zero-sum balance invariant globally and within currency-      *)
(* isolated buckets": in every currency the committed debits equal the     *)
(* committed credits.                                                      *)
ZeroSumPerCurrency == \A cur \in Currencies : Gap(debits, credits, cur) = 0

(* A set of natural numbers has a least element; the lemmas assume it and  *)
(* LeastOfNaturals proves it.                                              *)
NaturalsHaveLeast == \A S : S \subseteq Nat /\ S # {} => \E n \in S : \A m \in S : n <= m

(* f holds the sums of g from 0 to n. *)
Sums(f, g, n) ==
  f = [k \in 0..n |-> IF k = 0 THEN 0 ELSE f[k - 1] + g[k]]

(* The sums exist: those up to n extend the ones up to n - 1. *)
LEMMA SumsExist ==
  ASSUME NaturalsHaveLeast, NEW g, NEW n \in Nat, \A k \in 1..n : g[k] \in Int
  PROVE  \E f \in [0..n -> Int] : Sums(f, g, n)
<1> DEFINE Bad == {m \in 0..n : ~ \E f \in [0..m -> Int] : Sums(f, g, m)}
<1> SUFFICES ASSUME Bad # {} PROVE FALSE
  OBVIOUS
<1>1. PICK m \in Bad : \A k \in Bad : m <= k
  <2> HIDE DEF Bad
  <2>1. Bad \subseteq Nat
    BY DEF Bad
  <2> QED BY <2>1, Zenon DEF NaturalsHaveLeast
<1>2. m # 0
  <2>1. Sums([k \in 0..0 |-> 0], g, 0)
    BY DEF Sums
  <2>2. [k \in 0..0 |-> 0] \in [0..0 -> Int]
    OBVIOUS
  <2> QED BY <2>1, <2>2, Zenon
<1>3. m - 1 \in 0..n /\ m - 1 \notin Bad /\ m \in 1..n /\ m \in Nat
  BY <1>1, <1>2
<1>4. PICK f \in [0..(m - 1) -> Int] : Sums(f, g, m - 1)
  BY <1>3, Zenon
<1> DEFINE h == [k \in 0..m |-> IF k = m THEN f[m - 1] + g[m] ELSE f[k]]
<1>5. h \in [0..m -> Int]
  <2>1. g[m] \in Int
    BY <1>3, Zenon
  <2>2. f[m - 1] \in Int
    BY <1>3
  <2>3. \A k \in 0..m : k # m => f[k] \in Int
    BY <1>3
  <2> QED BY <2>1, <2>2, <2>3
<1>6. Sums(h, g, m)
  <2> SUFFICES ASSUME NEW k \in 0..m
               PROVE  h[k] = IF k = 0 THEN 0 ELSE h[k - 1] + g[k]
    BY Zenon DEF Sums
  <2>1. CASE k = m
    BY <1>3, <2>1
  <2>2. CASE k # m
    <3>1. k \in 0..(m - 1)
      BY <1>3, <2>2
    <3>2. f[k] = IF k = 0 THEN 0 ELSE f[k - 1] + g[k]
      BY <1>4, <3>1 DEF Sums
    <3>3. h[k] = f[k]
      BY <2>2
    <3>4. k # 0 => h[k - 1] = f[k - 1]
      BY <3>1, <1>3
    <3> QED BY <3>2, <3>3, <3>4, Zenon
  <2> QED BY <2>1, <2>2, Zenon
<1> QED BY <1>1, <1>5, <1>6, Zenon

(* What SumTo computes. *)
LEMMA SumToDef ==
  ASSUME NaturalsHaveLeast, NEW g, NEW n \in Nat, \A k \in 1..n : g[k] \in Int
  PROVE  \E f \in [0..n -> Int] :
           /\ f[0] = 0
           /\ \A k \in 1..n : f[k] = f[k - 1] + g[k]
           /\ SumTo(g, n) = f[n]
<1> DEFINE upTo == CHOOSE f : Sums(f, g, n)
<1>1. PICK f0 \in [0..n -> Int] : Sums(f0, g, n)
  BY SumsExist, Zenon
<1>2. Sums(upTo, g, n)
  BY <1>1, Zenon
<1>3. SumTo(g, n) = upTo[n]
  BY Zenon DEF SumTo, Sums
<1> HIDE DEF upTo
<1>4. upTo[0] = 0 /\ \A k \in 1..n : upTo[k] = upTo[k - 1] + g[k]
  BY <1>2 DEF Sums
<1>5. upTo \in [0..n -> Int]
  <2> DEFINE Bad == {m \in 0..n : upTo[m] \notin Int}
  <2>1. Bad = {}
    <3> SUFFICES ASSUME Bad # {} PROVE FALSE
      BY Zenon
    <3>1. PICK m \in Bad : \A k \in Bad : m <= k
      <4> HIDE DEF Bad
      <4>1. Bad \subseteq Nat
        BY DEF Bad
      <4> QED BY <4>1, Zenon DEF NaturalsHaveLeast
    <3>2. m # 0 /\ m \in 1..n
      BY <1>4
    <3>3. upTo[m - 1] \in Int
      BY <3>1, <3>2
    <3>4. upTo[m] = upTo[m - 1] + g[m] /\ g[m] \in Int
      BY <1>4, <3>2, Zenon
    <3>5. upTo[m] \in Int
      BY <3>3, <3>4
    <3> QED BY <3>5, Zenon
  <2> QED BY <1>2, <2>1, Zenon DEF Sums
<1> QED BY <1>3, <1>4, <1>5, Zenon

LEMMA SumToType ==
  ASSUME NaturalsHaveLeast, NEW n \in Nat, NEW g \in [1..n -> Int]
  PROVE  SumTo(g, n) \in Int
<1>1. n \in 0..n
  OBVIOUS
<1>2. \A k \in 1..n : g[k] \in Int
  BY Zenon
<1>3. PICK f \in [0..n -> Int] : SumTo(g, n) = f[n]
  BY <1>2, SumToDef, Zenon
<1> QED BY <1>1, <1>3, Zenon

(* Rearranging sums of integers. *)
Integral(a, b, c, d, e, f) ==
  a \in Int /\ b \in Int /\ c \in Int /\ d \in Int /\ e \in Int /\ f \in Int

LEMMA Rearranged ==
  ASSUME NEW a, NEW b, NEW c, NEW d, NEW e, NEW f, Integral(a, b, c, d, e, f)
  PROVE  /\ a + b + c + d + e + f = a + (b + c + d + e + f)
         /\ b + c + d + e + f = 0 => a + b + c + d + e + f = a
BY DEF Integral

(* Sums are added member by member. *)
Adds(s, g, h, n) == \A k \in 1..n : s[k] = g[k] + h[k]

LEMMA SumToPlus ==
  ASSUME NaturalsHaveLeast, NEW n \in Nat, NEW g \in [1..n -> Int], NEW h \in [1..n -> Int],
         NEW s \in [1..n -> Int], Adds(s, g, h, n)
  PROVE  SumTo(s, n) = SumTo(g, n) + SumTo(h, n)
<1>2. PICK sg \in [0..n -> Int] : /\ sg[0] = 0
                                  /\ \A k \in 1..n : sg[k] = sg[k - 1] + g[k]
                                  /\ SumTo(g, n) = sg[n]
  <2>1. \A k \in 1..n : g[k] \in Int
    BY Zenon
  <2> QED BY <2>1, SumToDef, Zenon
<1>3. PICK sh \in [0..n -> Int] : /\ sh[0] = 0
                                  /\ \A k \in 1..n : sh[k] = sh[k - 1] + h[k]
                                  /\ SumTo(h, n) = sh[n]
  <2>1. \A k \in 1..n : h[k] \in Int
    BY Zenon
  <2> QED BY <2>1, SumToDef, Zenon
<1>4. PICK ss \in [0..n -> Int] : /\ ss[0] = 0
                                  /\ \A k \in 1..n : ss[k] = ss[k - 1] + s[k]
                                  /\ SumTo(s, n) = ss[n]
  <2>1. \A k \in 1..n : s[k] \in Int
    BY Zenon
  <2> QED BY <2>1, SumToDef, Zenon
<1> DEFINE Bad == {k \in 0..n : ss[k] # sg[k] + sh[k]}
<1>5. Bad = {}
  <2> SUFFICES ASSUME Bad # {} PROVE FALSE
    BY Zenon
  <2>1. PICK m \in Bad : \A k \in Bad : m <= k
    <3> HIDE DEF Bad
    <3>1. Bad \subseteq Nat
      BY DEF Bad
    <3> QED BY <3>1, Zenon DEF NaturalsHaveLeast
  <2>2. m \in 1..n
    <3>1. 0 \notin Bad
      BY <1>2, <1>3, <1>4
    <3> QED BY <3>1
  <2>3. m - 1 \in 0..n /\ m - 1 \notin Bad
    BY <2>1, <2>2
  <2>4. ss[m - 1] = sg[m - 1] + sh[m - 1]
    BY <2>3, Zenon
  <2>5. ss[m] = ss[m - 1] + s[m] /\ sg[m] = sg[m - 1] + g[m] /\ sh[m] = sh[m - 1] + h[m]
    BY <1>2, <1>3, <1>4, <2>2, Zenon
  <2>6. s[m] = g[m] + h[m]
    BY <2>2, Zenon DEF Adds
  <2>7. g[m] \in Int /\ h[m] \in Int /\ sg[m - 1] \in Int /\ sh[m - 1] \in Int
    BY <2>2, <2>3, Zenon
  <2>8. ss[m] = sg[m] + sh[m]
    <3>1. PICK a, b, c, d : a = sg[m - 1] /\ b = sh[m - 1] /\ c = g[m] /\ d = h[m]
      BY Zenon
    <3>2. a \in Int /\ b \in Int /\ c \in Int /\ d \in Int
      BY <2>7, <3>1, Zenon
    <3>3. ss[m] = (a + b) + (c + d) /\ sg[m] = a + c /\ sh[m] = b + d
      BY <2>4, <2>5, <2>6, <3>1, Zenon
    <3>4. (a + b) + (c + d) = (a + c) + (b + d)
      <4> HIDE DEF Bad
      <4> QED BY <3>2
    <3> QED BY <3>3, <3>4, Zenon
  <2> QED BY <2>8, Zenon
<1>6. n \in 0..n
  OBVIOUS
<1>7. ss[n] = sg[n] + sh[n]
  BY <1>5, <1>6, Zenon
<1> QED BY <1>2, <1>3, <1>4, <1>7, Zenon

(* An amount at one number and nothing elsewhere. *)
At(n, p, x) == [k \in 1..n |-> IF k = p THEN x ELSE 0]

LEMMA SumToAt ==
  ASSUME NaturalsHaveLeast, NEW n \in Nat, NEW p \in 1..n, NEW x \in Int
  PROVE  SumTo(At(n, p, x), n) = x
<1>1. \A k \in 1..n : At(n, p, x)[k] \in Int
  BY DEF At
<1>2. PICK f \in [0..n -> Int] : /\ f[0] = 0
                                 /\ \A k \in 1..n : f[k] = f[k - 1] + At(n, p, x)[k]
                                 /\ SumTo(At(n, p, x), n) = f[n]
  BY <1>1, SumToDef, Zenon
<1>3. \A k \in 1..n : f[k] = f[k - 1] + IF k = p THEN x ELSE 0
  BY <1>2, Zenon DEF At
<1> DEFINE Bad == {k \in 0..n : f[k] # IF k < p THEN 0 ELSE x}
<1>4. Bad = {}
  <2> SUFFICES ASSUME Bad # {} PROVE FALSE
    BY Zenon
  <2>1. PICK m \in Bad : \A k \in Bad : m <= k
    <3> HIDE DEF Bad
    <3>1. Bad \subseteq Nat
      BY DEF Bad
    <3> QED BY <3>1, Zenon DEF NaturalsHaveLeast
  <2>2. m \in 1..n
    BY <1>2
  <2>3. m - 1 \in 0..n /\ m - 1 \notin Bad
    BY <2>1, <2>2
  <2>4. f[m - 1] = IF m - 1 < p THEN 0 ELSE x
    BY <2>3, Zenon
  <2>5. f[m] = f[m - 1] + IF m = p THEN x ELSE 0
    BY <1>3, <2>2, Zenon
  <2>6. f[m] = IF m < p THEN 0 ELSE x
    BY <2>2, <2>4, <2>5
  <2> QED BY <2>6, Zenon
<1>5. n \in 0..n /\ ~(n < p)
  OBVIOUS
<1>6. f[n] = x
  BY <1>4, <1>5, Zenon
<1> QED BY <1>2, <1>6, Zenon

(* One more leg. *)
Plus(n, g, p, x) == [k \in 1..n |-> g[k] + IF k = p THEN x ELSE 0]

LEMMA SumToLeg ==
  ASSUME NaturalsHaveLeast, NEW n \in Nat, NEW g \in [1..n -> Int], NEW p \in 1..n, NEW x \in Int
  PROVE  /\ Plus(n, g, p, x) \in [1..n -> Int]
         /\ SumTo(Plus(n, g, p, x), n) = SumTo(g, n) + x
<1>1. At(n, p, x) \in [1..n -> Int]
  BY DEF At
<1>2. Plus(n, g, p, x) \in [1..n -> Int]
  BY DEF Plus
<1>3. Adds(Plus(n, g, p, x), g, At(n, p, x), n)
  BY Zenon DEF Adds, Plus, At
<1>4. SumTo(Plus(n, g, p, x), n) = SumTo(g, n) + SumTo(At(n, p, x), n)
  BY <1>1, <1>2, <1>3, SumToPlus, Zenon
<1> QED BY <1>2, <1>4, SumToAt, Zenon

(* A leg seen from an account: debits less credits. *)
Leg(a, b, side, amount) == IF a = b THEN (IF side = "DEBIT" THEN amount ELSE -amount) ELSE 0

(* What a transfer adds to an account, debits less credits. *)
LEMMA PostedNet ==
  ASSUME NEW i \in Requests, NEW a \in Accounts
  PROVE  Posted(i, "DEBIT", a) - Posted(i, "CREDIT", a)
           = Leg(a, i.src, Opposite(NormalSide(i.src)), TotalRequired(i))
             + (IF CrossCurrency(i)
                THEN Leg(a, SourceTreasury(i), NormalSide(i.src), i.amount)
                     + Leg(a, DestinationTreasury(i), Opposite(NormalSide(i.dst)),
                           DestinationAmount(i))
                     + Leg(a, i.dst, NormalSide(i.dst), DestinationAmount(i))
                ELSE Leg(a, i.dst, NormalSide(i.src), i.amount))
             + (IF i.charge > 0 THEN Leg(a, i.fee, NormalSide(i.src), i.charge) ELSE 0)
<1>1. i.amount \in Int /\ i.charge \in Int /\ TotalRequired(i) \in Int
  <2>1. i.amount \in Nat /\ i.charge \in Nat
    BY PostingsAssumption, Zenon
  <2> QED BY <2>1 DEF TotalRequired
<1>2. DestinationAmount(i) \in Int
  BY DestinationAmountType
<1> DEFINE Sides == {"DEBIT", "CREDIT"}
           On(s, b, side, amount) == IF b = a /\ side = s THEN amount ELSE 0
<1>3. \A b : NormalSide(b) \in Sides /\ Opposite(NormalSide(b)) \in Sides
  BY DEF NormalSide, Opposite
<1>4. \A s : Posted(i, s, a)
               = On(s, i.src, Opposite(NormalSide(i.src)), TotalRequired(i))
                 + (IF CrossCurrency(i)
                    THEN On(s, SourceTreasury(i), NormalSide(i.src), i.amount)
                         + On(s, DestinationTreasury(i), Opposite(NormalSide(i.dst)),
                              DestinationAmount(i))
                         + On(s, i.dst, NormalSide(i.dst), DestinationAmount(i))
                    ELSE On(s, i.dst, NormalSide(i.src), i.amount))
                 + (IF i.charge > 0 THEN On(s, i.fee, NormalSide(i.src), i.charge) ELSE 0)
  BY Zenon DEF Posted, LegSum
<1>5. \A b, amount : \A side \in Sides : amount \in Int =>
        /\ On("DEBIT", b, side, amount) \in Int
        /\ On("CREDIT", b, side, amount) \in Int
        /\ Leg(a, b, side, amount)
             = On("DEBIT", b, side, amount) - On("CREDIT", b, side, amount)
  BY DEF Leg
<1> HIDE DEF On, Sides
<1>6. CASE CrossCurrency(i)
  BY <1>1, <1>2, <1>3, <1>4, <1>5, <1>6
<1>7. CASE ~CrossCurrency(i)
  BY <1>1, <1>2, <1>3, <1>4, <1>5, <1>7
<1> QED BY <1>6, <1>7, Zenon

(* A transfer leaves the sum of debits less credits in every currency. *)
LEMMA TransferNetsToZero ==
  ASSUME NaturalsHaveLeast, NEW n \in Nat, Accounts = 1..n, NEW i \in Requests, ValidRequest(i),
         i.charge > 0 => CurrencyOf[i.fee] = CurrencyOf[i.src],
         \A c \in Currencies : CurrencyOf[TreasuryOf[c]] = c,
         NEW dr \in [Accounts -> Int], NEW cr \in [Accounts -> Int], NEW cur \in Currencies
  PROVE  SumTo(Net([a \in Accounts |-> dr[a] + Posted(i, "DEBIT", a)],
                   [a \in Accounts |-> cr[a] + Posted(i, "CREDIT", a)], cur), n)
           = SumTo(Net(dr, cr, cur), n)
<1> DEFINE Value(b, side, amount) ==
             IF CurrencyOf[b] = cur THEN (IF side = "DEBIT" THEN amount ELSE -amount) ELSE 0
           p2 == IF CrossCurrency(i) THEN SourceTreasury(i) ELSE i.dst
           p3 == IF CrossCurrency(i) THEN DestinationTreasury(i) ELSE i.dst
           p5 == IF i.charge > 0 THEN i.fee ELSE i.src
           x1 == Value(i.src, Opposite(NormalSide(i.src)), TotalRequired(i))
           x2 == Value(p2, NormalSide(i.src), i.amount)
           x3 == IF CrossCurrency(i)
                 THEN Value(p3, Opposite(NormalSide(i.dst)), DestinationAmount(i)) ELSE 0
           x4 == IF CrossCurrency(i)
                 THEN Value(i.dst, NormalSide(i.dst), DestinationAmount(i)) ELSE 0
           x5 == IF i.charge > 0 THEN Value(p5, NormalSide(i.src), i.charge) ELSE 0
           g == Net(dr, cr, cur)
           h == Plus(n, Plus(n, Plus(n, Plus(n, Plus(n, g, i.src, x1), p2, x2), p3, x3),
                             i.dst, x4), p5, x5)
           after == Net([a \in Accounts |-> dr[a] + Posted(i, "DEBIT", a)],
                        [a \in Accounts |-> cr[a] + Posted(i, "CREDIT", a)], cur)
<1>1. /\ i.src \in 1..n /\ i.dst \in 1..n /\ (i.charge > 0 => i.fee \in 1..n)
      /\ CurrencyOf[i.src] \in Currencies /\ CurrencyOf[i.dst] \in Currencies
  BY PostingsAssumption, Zenon DEF ValidRequest
<1>2. p2 \in 1..n /\ p3 \in 1..n /\ p5 \in 1..n
  BY <1>1, PostingsAssumption, Zenon DEF SourceTreasury, DestinationTreasury
<1>3. /\ CrossCurrency(i) => CurrencyOf[p2] = CurrencyOf[i.src] /\ CurrencyOf[p3] = CurrencyOf[i.dst]
      /\ ~CrossCurrency(i) => CurrencyOf[p2] = CurrencyOf[i.src] /\ CurrencyOf[i.dst] = CurrencyOf[i.src]
      /\ CurrencyOf[p5] = CurrencyOf[i.src]
  BY <1>1, Zenon DEF SourceTreasury, DestinationTreasury, CrossCurrency
<1>4. /\ i.amount \in Int /\ i.charge \in Int /\ TotalRequired(i) = i.amount + i.charge
      /\ ~(i.charge > 0) => i.charge = 0
  <2>1. i.amount \in Nat /\ i.charge \in Nat
    BY PostingsAssumption, Zenon
  <2> QED BY <2>1 DEF TotalRequired
<1>5. DestinationAmount(i) \in Int
  BY DestinationAmountType
<1>6. /\ \A b : NormalSide(b) = "DEBIT" => Opposite(NormalSide(b)) = "CREDIT"
      /\ \A b : NormalSide(b) # "DEBIT" => Opposite(NormalSide(b)) = "DEBIT"
  BY Zenon DEF Opposite
<1>7. x1 \in Int /\ x2 \in Int /\ x3 \in Int /\ x4 \in Int /\ x5 \in Int
  <2>1. \A b, side : \A amount \in Int : Value(b, side, amount) \in Int
    OBVIOUS
  <2>2. TotalRequired(i) \in Int /\ 0 \in Int
    BY <1>4
  <2> HIDE DEF Value
  <2> QED BY <1>4, <1>5, <2>1, <2>2, Zenon
<1>8. x1 + x2 + x3 + x4 + x5 = 0
  <2> HIDE DEF p2, p3, p5
  <2>1. CASE CrossCurrency(i)
    <3>1. x3 + x4 = 0
      BY <1>3, <1>5, <1>6, <2>1
    <3>2. x1 + x2 + x5 = 0
      BY <1>3, <1>4, <1>6, <2>1
    <3> HIDE DEF x1, x2, x3, x4, x5
    <3> QED BY <1>7, <3>1, <3>2
  <2>2. CASE ~CrossCurrency(i)
    <3>1. x3 = 0 /\ x4 = 0
      BY <2>2, Zenon
    <3>2. x1 + x2 + x5 = 0
      BY <1>3, <1>4, <1>6, <2>2
    <3> HIDE DEF x1, x2, x3, x4, x5
    <3> QED BY <1>7, <3>1, <3>2
  <2> QED BY <2>1, <2>2, Zenon
<1>9. g \in [1..n -> Int]
  BY DEF Net
<1>10. after = h
  <2> SUFFICES ASSUME NEW a \in 1..n PROVE after[a] = h[a]
    <3> DEFINE w == Plus(n, Plus(n, Plus(n, Plus(n, g, i.src, x1), p2, x2), p3, x3), i.dst, x4)
    <3>1. h = [k \in 1..n |-> w[k] + IF k = p5 THEN x5 ELSE 0]
      BY Zenon DEF Plus
    <3>2. after = [k \in 1..n |-> IF CurrencyOf[k] = cur
                     THEN [a \in Accounts |-> dr[a] + Posted(i, "DEBIT", a)][k]
                          - [a \in Accounts |-> cr[a] + Posted(i, "CREDIT", a)][k] ELSE 0]
      BY Zenon DEF Net
    <3> HIDE DEF h, after, w
    <3> QED BY <3>1, <3>2
  <2> DEFINE L(p, x) == IF a = p THEN x ELSE 0
  <2>1. h[a] = g[a] + L(i.src, x1) + L(p2, x2) + L(p3, x3) + L(i.dst, x4) + L(p5, x5)
    <3> HIDE DEF g, x1, x2, x3, x4, x5, p2, p3, p5
    <3> QED BY Zenon DEF Plus
  <2>2. after[a] = IF CurrencyOf[a] = cur
                   THEN (dr[a] + Posted(i, "DEBIT", a)) - (cr[a] + Posted(i, "CREDIT", a)) ELSE 0
    BY Zenon DEF Net
  <2>3. g[a] = IF CurrencyOf[a] = cur THEN dr[a] - cr[a] ELSE 0
    BY Zenon DEF Net
  <2>4. CASE CurrencyOf[a] # cur
    <3>1. /\ L(i.src, x1) = 0 /\ L(p2, x2) = 0 /\ L(p3, x3) = 0 /\ L(i.dst, x4) = 0
          /\ L(p5, x5) = 0
      <4>1. \A b, side, amount : a = b => Value(b, side, amount) = 0
        BY <2>4, Zenon
      <4> HIDE DEF p2, p3, p5, Value
      <4> QED BY <4>1, Zenon
    <3> HIDE DEF L, g, h, after, x1, x2, x3, x4, x5, p2, p3, p5
    <3>2. h[a] = 0 + 0 + 0 + 0 + 0 + 0
      BY <2>1, <2>3, <2>4, <3>1, Zenon
    <3>3. after[a] = 0
      BY <2>2, <2>4, Zenon
    <3> QED BY <3>2, <3>3
  <2>5. CASE CurrencyOf[a] = cur
    <3>1. /\ L(i.src, x1) = Leg(a, i.src, Opposite(NormalSide(i.src)), TotalRequired(i))
          /\ L(p2, x2) = Leg(a, p2, NormalSide(i.src), i.amount)
          /\ L(p3, x3) = IF CrossCurrency(i)
                         THEN Leg(a, p3, Opposite(NormalSide(i.dst)), DestinationAmount(i)) ELSE 0
          /\ L(i.dst, x4) = IF CrossCurrency(i)
                         THEN Leg(a, i.dst, NormalSide(i.dst), DestinationAmount(i)) ELSE 0
          /\ L(p5, x5) = IF i.charge > 0 THEN Leg(a, p5, NormalSide(i.src), i.charge) ELSE 0
      <4> HIDE DEF p2, p3, p5
      <4> QED BY <2>5, Zenon DEF Leg
    <3>2. /\ L(i.src, x1) \in Int /\ L(p2, x2) \in Int /\ L(p3, x3) \in Int /\ L(i.dst, x4) \in Int
          /\ L(p5, x5) \in Int
      <4> HIDE DEF x1, x2, x3, x4, x5, p2, p3, p5
      <4> QED BY <1>7
    <3>3. Posted(i, "DEBIT", a) - Posted(i, "CREDIT", a)
            = L(i.src, x1) + L(p2, x2) + L(p3, x3) + L(i.dst, x4) + L(p5, x5)
      <4> HIDE DEF L, g, h, after, x1, x2, x3, x4, x5
      <4>1. CASE CrossCurrency(i)
        BY <4>1, PostedNet, <3>1, <3>2
      <4>2. CASE ~CrossCurrency(i)
        BY <4>2, PostedNet, <3>1, <3>2
      <4> QED BY <4>1, <4>2, Zenon
    <3>4. Posted(i, "DEBIT", a) \in Int /\ Posted(i, "CREDIT", a) \in Int
      BY PostedType
    <3>5. dr[a] \in Int /\ cr[a] \in Int
      BY Zenon
    <3> HIDE DEF L, g, h, after, x1, x2, x3, x4, x5, p2, p3, p5
    <3>6. g[a] = dr[a] - cr[a] /\ g[a] \in Int
      BY <2>3, <2>5, <3>5
    <3>7. h[a] = g[a] + (Posted(i, "DEBIT", a) - Posted(i, "CREDIT", a))
      <4>1. g[a] + L(i.src, x1) + L(p2, x2) + L(p3, x3) + L(i.dst, x4) + L(p5, x5)
              = g[a] + (L(i.src, x1) + L(p2, x2) + L(p3, x3) + L(i.dst, x4) + L(p5, x5))
        <5>1. Integral(g[a], L(i.src, x1), L(p2, x2), L(p3, x3), L(i.dst, x4), L(p5, x5))
          BY <3>2, <3>6, Zenon DEF Integral
        <5> QED BY <5>1, Rearranged
      <4> QED BY <2>1, <3>3, <4>1, Zenon
    <3>8. after[a] = (dr[a] + Posted(i, "DEBIT", a)) - (cr[a] + Posted(i, "CREDIT", a))
      BY <2>2, <2>5, Zenon
    <3> QED BY <3>4, <3>5, <3>6, <3>7, <3>8
  <2> QED BY <2>4, <2>5, Zenon
<1> HIDE DEF x1, x2, x3, x4, x5, g, p2, p3, p5
<1>11. SumTo(h, n) = SumTo(g, n)
  <2> DEFINE g1 == Plus(n, g, i.src, x1)
             g2 == Plus(n, g1, p2, x2)
             g3 == Plus(n, g2, p3, x3)
             g4 == Plus(n, g3, i.dst, x4)
             g5 == Plus(n, g4, p5, x5)
  <2> SUFFICES SumTo(g5, n) = SumTo(g, n)
    OBVIOUS
  <2>1. g1 \in [1..n -> Int] /\ SumTo(g1, n) = SumTo(g, n) + x1
    BY <1>1, <1>7, <1>9, SumToLeg, Zenon
  <2> HIDE DEF g1
  <2>2. g2 \in [1..n -> Int] /\ SumTo(g2, n) = SumTo(g1, n) + x2
    BY <1>2, <1>7, <2>1, SumToLeg, Zenon
  <2> HIDE DEF g2
  <2>3. g3 \in [1..n -> Int] /\ SumTo(g3, n) = SumTo(g2, n) + x3
    BY <1>2, <1>7, <2>2, SumToLeg, Zenon
  <2> HIDE DEF g3
  <2>4. g4 \in [1..n -> Int] /\ SumTo(g4, n) = SumTo(g3, n) + x4
    BY <1>1, <1>7, <2>3, SumToLeg, Zenon
  <2> HIDE DEF g4
  <2>5. SumTo(g5, n) = SumTo(g4, n) + x5
    BY <1>2, <1>7, <2>4, SumToLeg, Zenon
  <2> HIDE DEF g5
  <2>6. SumTo(g, n) \in Int
    BY <1>9, SumToType, Zenon
  <2>7. SumTo(g5, n) = SumTo(g, n) + x1 + x2 + x3 + x4 + x5
    BY <2>1, <2>2, <2>3, <2>4, <2>5, Zenon
  <2>8. SumTo(g, n) + x1 + x2 + x3 + x4 + x5 = SumTo(g, n)
    <3>1. Integral(SumTo(g, n), x1, x2, x3, x4, x5)
      BY <1>7, <2>6, Zenon DEF Integral
    <3> QED BY <1>8, <3>1, Rearranged
  <2> QED BY <2>7, <2>8, Zenon
<1> HIDE DEF h, after
<1>12. SumTo(after, n) = SumTo(g, n)
  BY <1>10, <1>11, Zenon
<1> QED BY <1>12 DEF after, g
(* A call gets past the pre-flight validation with a valid request only. *)
RunningValid == \A w \in Workers : Running(w) => ValidRequest(arg[w])

LEMMA ValidStep ==
  ASSUME TypeOK, Next, NEW v \in Workers, Running(v)'
  PROVE  Running(v) \/ ValidRequest(arg[v])
<1>t. pc \in [Workers -> PcStates]
  BY ZenonT(30) DEF TypeOK
<1> USE <1>t DEF Running, PcStates, InUow, Goto, Finish
<1>1. CASE \E w \in Workers : Preflight(w)
  BY <1>1, Zenon DEF Preflight
<1>2. CASE \E w \in Workers :
             \/ ReadRecord(w) \/ ClaimReference(w) \/ StoreResponse(w)
             \/ CleanupRead(w) \/ CleanupDelete(w)
  BY <1>2, ZenonT(30) DEF ReadRecord, ClaimReference, StoreResponse, CleanupRead, CleanupDelete
<1>3. CASE \E w \in Workers :
             ScreenTransfer(w) \/ AcquireLock(w) \/ AcquireFails(w) \/ Respond(w) \/ ReleaseLock(w)
  BY <1>3, ZenonT(30) DEF ScreenTransfer, AcquireLock, AcquireFails, Respond, ReleaseLock
<1>4. CASE \E w \in Workers :
             CheckReference(w) \/ CheckBalance(w) \/ DbError(w) \/ DbLockTimeout(w) \/ CancelCall(w)
  BY <1>4, ZenonT(30) DEF CheckReference, CheckBalance, DbError, DbLockTimeout, CancelCall, Fail
<1>5. CASE \E w \in Workers : FindTreasury(w) \/ OpenTreasury(w)
  BY <1>5, ZenonT(30) DEF FindTreasury, OpenTreasury, AfterTreasury, Fail
<1>6. CASE \E w \in Workers : InsertEntry(w) \/ InsertEvent(w)
  BY <1>6, ZenonT(30) DEF InsertEntry, InsertEvent, Fail
<1>7. CASE \E w \in Workers : Commit(w) \/ CommitUnanswered(w)
  BY <1>7, ZenonT(30) DEF Commit, CommitUnanswered, Fail
<1>8. CASE \/ \E k \in Keys : ExpireLock(k)
           \/ \E r \in Refs : ExpireRecord(r)
  BY <1>8, Zenon DEF ExpireLock, ExpireRecord
<1> QED BY <1>1, <1>2, <1>3, <1>4, <1>5, <1>6, <1>7, <1>8, ZenonT(30)
        DEF Next, CallStep

LEMMA RunningValidHolds == Spec => []RunningValid
<1>1. Init => RunningValid
  BY Zenon DEF Init, RunningValid, Running
<1>2. Inv /\ RunningValid /\ Next => RunningValid'
  <2> SUFFICES ASSUME Inv, RunningValid, Next, NEW v \in Workers, Running(v)'
               PROVE  ValidRequest(arg'[v])
    BY Zenon DEF RunningValid
  <2>1. TypeOK /\ TxInv
    BY Zenon DEF Inv
  <2>2. arg' = arg
    BY <2>1, LedgerStep, Zenon
  <2> QED BY <2>1, <2>2, ValidStep, Zenon DEF RunningValid
<1>3. RunningValid /\ UNCHANGED vars => RunningValid'
  BY Zenon DEF RunningValid, Running, vars
<1> QED BY <1>1, <1>2, <1>3, InvHolds, PTL DEF Spec

INSTANCE FiniteSetTheorems

LEMMA LeastOfNaturals == NaturalsHaveLeast
<1> SUFFICES ASSUME NEW S, S \subseteq Nat, S # {}
             PROVE  \E n \in S : \A m \in S : n <= m
  BY Zenon DEF NaturalsHaveLeast
<1>1. PICK Less : IsWellFoundedOn(Less, Nat) /\ \A m, n \in Nat : m < n => <<m, n>> \in Less
  <2>1. \A m, n \in Nat : m < n => <<m, n>> \in OpToRel(<, Nat)
    BY Zenon DEF OpToRel
  <2>2. QED BY <2>1, NatLessThanWellFounded, Zenon
<1>2. IsWellFoundedOn(Less, Nat)
  BY <1>1, Zenon
<1>3. \E n \in S : \A m \in S : ~(<<m, n>> \in Less)
  BY <1>2, WFMin, Zenon
<1>4. PICK n \in S : \A m \in S : <<m, n>> \notin Less
  BY <1>3, Zenon
<1>5. \A m \in S : ~(m < n)
  BY <1>1, <1>4, Zenon
<1> QED BY <1>4, <1>5


(* For any number of calls, accounts and currencies, whatever fails or     *)
(* expires: every commit of transfer_funds() leaves the debits of each     *)
(* currency equal to its credits.  The accounts are numbered without gaps, *)
(* a treasury account is kept in its own currency, the opening balances    *)
(* agree, and no fee is paid to an account of another currency than the    *)
(* source, which transfer_funds() does not check.                          *)
THEOREM TransferZeroSumPerCurrency ==
  ASSUME NEW n \in Nat, Accounts = 1..n,
         \A cur \in Currencies : CurrencyOf[TreasuryOf[cur]] = cur,
         \A i \in Requests :
           i.charge > 0 /\ i.fee # NoAccount => CurrencyOf[i.fee] = CurrencyOf[i.src],
         \A cur \in Currencies : Gap(OpeningDebits, OpeningCredits, cur) = 0
  PROVE  Spec => []ZeroSumPerCurrency
<1>1. Cardinality(Accounts) = n
  <2>1. Cardinality(1..n) = IF 1 > n THEN 0 ELSE n - 1 + 1
    BY FS_Interval
  <2> QED BY <2>1
<1>2. Init => ZeroSumPerCurrency
  BY Zenon DEF Init, ZeroSumPerCurrency
<1>3. Inv /\ RunningValid /\ ZeroSumPerCurrency /\ Next => ZeroSumPerCurrency'
  <2> SUFFICES ASSUME Inv, RunningValid, ZeroSumPerCurrency, Next, NEW cur \in Currencies
               PROVE  Gap(debits', credits', cur) = 0
    BY Zenon DEF ZeroSumPerCurrency
  <2>1. TypeOK /\ TxInv
    BY Zenon DEF Inv
  <2>2. Gap(debits, credits, cur) = 0
    BY Zenon DEF ZeroSumPerCurrency
  <2>3. CASE LedgerUnchanged
    BY <2>2, <2>3, Zenon DEF LedgerUnchanged
  <2>4. ASSUME NEW w \in Workers, pc[w] = "commit", MakeVisible(w)
        PROVE  Gap(debits', credits', cur) = 0
    <3>1. arg[w] \in Requests /\ debits \in [Accounts -> Nat] /\ credits \in [Accounts -> Nat]
      BY <2>1, Zenon DEF TypeOK
    <3>2. debits \in [Accounts -> Int] /\ credits \in [Accounts -> Int]
      BY <3>1
    <3>3. ValidRequest(arg[w])
      BY <2>4, Zenon DEF RunningValid, Running
    <3>4. arg[w].charge > 0 => CurrencyOf[arg[w].fee] = CurrencyOf[arg[w].src]
      BY <3>1, <3>3, Zenon DEF ValidRequest
    <3>5. SumTo(Net(debits', credits', cur), n) = SumTo(Net(debits, credits, cur), n)
      BY <2>4, <3>1, <3>2, <3>3, <3>4, LeastOfNaturals, TransferNetsToZero, Zenon
         DEF MakeVisible
    <3> QED BY <1>1, <2>2, <3>5, Zenon DEF Gap
  <2> QED BY <2>1, <2>3, <2>4, LedgerStep, Zenon
<1>4. ZeroSumPerCurrency /\ UNCHANGED vars => ZeroSumPerCurrency'
  BY Zenon DEF ZeroSumPerCurrency, vars, dbVars
<1> QED BY <1>2, <1>3, <1>4, InvHolds, RunningValidHolds, PTL DEF Spec


-----------------------------------------------------------------------------
(***************************************************************************)
(* The instances that TLC checks.                                          *)
(***************************************************************************)

(* Accounts 1 and 2 are USD assets, 3 and 7 are EUR assets, 4 is the USD   *)
(* fee account; 5 and 6 are the treasury accounts of USD and EUR.          *)
MCAccounts == 1..7
MCCurrencies == {"USD", "EUR"}
MCDebitNormal == {1, 2, 3, 4, 7}
MCCurrencyOf == [a \in MCAccounts |-> IF a \in {3, 6, 7} THEN "EUR" ELSE "USD"]
MCTreasuryOf == [cur \in MCCurrencies |-> IF cur = "USD" THEN 5 ELSE 6]
MCRefs == {"r1", "r2"}
MCOpeningDebits == [a \in MCAccounts |-> IF a \in {1, 3, 7} THEN 3 ELSE 0]
MCOpeningCredits == [a \in MCAccounts |-> IF a = 5 THEN 3 ELSE IF a = 6 THEN 6 ELSE 0]

Request(src, dst, fee, amount, charge, rate, ref) ==
  [src |-> src, dst |-> dst, fee |-> fee, amount |-> amount, charge |-> charge,
   rate |-> rate, ref |-> ref]

(* Two transfers that the funds of account 1 cover one at a time, under    *)
(* the same or different references, with and without a fee, the same      *)
(* currency or not, and requests that are refused.                         *)
MCRequests ==
  {Request(1, 2, 4, 2, 1, 0, "r1"),
   Request(1, 2, NoAccount, 2, 0, 0, "r1"),
   Request(1, 3, NoAccount, 1, 0, 3, "r2"),
   Request(3, 1, 4, 2, 0, 3, "r1"),
   Request(1, 1, NoAccount, 1, 0, 0, "r2")}

(* Calls that share a reference, from one source account and from two. *)
RepeatedRequests ==
  {Request(1, 2, NoAccount, 2, 0, 0, "r1"),
   Request(3, 1, NoAccount, 2, 0, 3, "r1")}

(* Cross-currency transfers in opposite directions between disjoint        *)
(* accounts, which open the treasury accounts in opposite orders.          *)
OppositeRequests ==
  {Request(1, 3, NoAccount, 2, 0, 3, "r1"),
   Request(7, 2, NoAccount, 2, 0, 3, "r2")}

(* Two transfers out of one account that holds enough for either. *)
CompetingRequests ==
  {Request(1, 2, NoAccount, 2, 0, 0, "r1"),
   Request(1, 4, NoAccount, 2, 0, 0, "r2")}

(* A fee account that is kept in another currency than the source. *)
ForeignFeeRequests == {Request(1, 2, 3, 2, 1, 0, "r1")}
=============================================================================
