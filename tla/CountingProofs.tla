--------------------------- MODULE CountingProofs ---------------------------
(***************************************************************************)
(* Theorems about the components that keep count of a set: the charges     *)
(* made under a key, the job scheduler, the leaderboard and the shutdown   *)
(* that waits for the requests in flight. One section per component: its   *)
(* inductive invariant, the lemmas that show it inductive, and the lemma   *)
(* from which the last section takes the theorem that states the property  *)
(* the runs check for every value of the constants.                        *)
(***************************************************************************)
EXTENDS IdempotentCharge, JobQueue, Leaderboard, ShutdownManager, TLAPS

(* What is used of finite sets and of natural numbers.  The lemmas assume  *)
(* it, and that it holds is shown from the library before the theorems, so *)
(* that the library's facts are not at hand where they are not needed.     *)
SetsCount ==
  /\ IsFiniteSet({}) /\ Cardinality({}) = 0
  /\ \A S : IsFiniteSet(S) => Cardinality(S) \in Nat /\ (Cardinality(S) = 0 => S = {})
  /\ \A S, T : IsFiniteSet(S) /\ T \subseteq S => IsFiniteSet(T) /\ Cardinality(T) <= Cardinality(S)
  /\ \A S, x : IsFiniteSet(S) =>
       /\ IsFiniteSet(S \cup {x})
       /\ Cardinality(S \cup {x}) = IF x \in S THEN Cardinality(S) ELSE Cardinality(S) + 1
       /\ IsFiniteSet(S \ {x})
       /\ Cardinality(S \ {x}) = IF x \in S THEN Cardinality(S) - 1 ELSE Cardinality(S)
  /\ \A S : S \subseteq Nat /\ S # {} => \E n \in S : \A m \in S : n <= m

-----------------------------------------------------------------------------
(***************************************************************************)
(* POST /payments/charge under an Idempotency-Key: IdempotentCharge.tla    *)
(* implements OnceOnly.tla. The invariant says what the record of a key is *)
(* evidence of; the refinement maps the charges made under a key to its    *)
(* count.                                                                  *)
(***************************************************************************)

(* The phases of a charge request.                                         *)
ChPhases == {"idle", "acquire", "inspect", "overwrite", "record", "fail", "done"}

(* The types, and that a request charged only once past its record.        *)
ChargeTypes ==
  /\ chPc \in [ChargeCalls -> ChPhases]
  /\ chArg \in [ChargeCalls -> [key : IdemKeys \cup {"none"}, body : Bodies \cup {NoBody}]]
  /\ \A w \in ChargeCalls : chPc[w] # "idle" => chArg[w] \in [key : IdemKeys, body : Bodies]
  /\ DOMAIN idemRec = IdemKeys
  /\ DOMAIN chAnswer = ChargeCalls
  /\ charged \subseteq {w \in ChargeCalls : chPc[w] \in {"record", "fail", "done"}}
  /\ IsFiniteSet(charged)

(* What a record says was done: nothing is written over a charge that is   *)
(* remembered, so a key without a record was not charged or was lost.      *)
RecordsTrue ==
  /\ \A w \in ChargeCalls : chPc[w] \in {"record", "fail"} => w \in charged
  /\ \A k \in IdemKeys :
       /\ \/ idemRec[k] = NoRecord
          \/ idemRec[k] = FailedRecord /\ k \in lost
          \/ \E w \in ChargeCalls :
               chPc[w] # "idle" /\ KeyOf(w) = k /\ idemRec[k] = InProgress(w)
          \/ \E w \in charged : KeyOf(w) = k /\ idemRec[k] = CompletedBy(w)
       /\ idemRec[k] = NoRecord /\ k \notin lost => \A w \in charged : KeyOf(w) # k
  /\ \A w \in ChargeCalls :
       /\ chPc[w] = "inspect" => RecordOf(w) # NoRecord \/ KeyOf(w) \in lost
       /\ chPc[w] = "overwrite" => KeyOf(w) \in lost

(* A replayed answer names a charge that was made with the same key and    *)
(* body.                                                                   *)
RepliesTrue ==
  \A w \in ChargeCalls : chAnswer[w].kind = "replayed" =>
    /\ chPc[w] = "done"
    /\ chAnswer[w].from \in charged
    /\ chArg[chAnswer[w].from] = chArg[w]

(* The inductive invariant of the charge endpoint.                         *)
ChargeInv == ChargeTypes /\ RecordsTrue /\ RepliesTrue

(* Every step keeps the types, and a charge is only added. *)
LEMMA ChargeStepTypes ==
  ASSUME SetsCount, ChargeTypes, ChargeNext
  PROVE  /\ ChargeTypes'
         /\ \A w \in ChargeCalls : chPc[w] # "idle" => chPc'[w] # "idle" /\ chArg'[w] = chArg[w]
         /\ charged \subseteq charged' /\ lost \subseteq lost'
<1> USE DEF ChargeTypes, ChPhases
<1> DEFINE Kept == \A w \in ChargeCalls : chPc[w] # "idle" => chPc'[w] # "idle" /\ chArg'[w] = chArg[w]
<1>1. ASSUME NEW w \in ChargeCalls, ArriveCharge(w)
      PROVE  ChargeTypes' /\ Kept /\ charged \subseteq charged' /\ lost \subseteq lost'
  BY <1>1 DEF ArriveCharge
<1>2. ASSUME NEW w \in ChargeCalls, chPc[w] \in {"acquire", "overwrite"}, TakeKey(w),
             UNCHANGED <<chArg, lost>>
      PROVE  ChargeTypes' /\ Kept /\ charged \subseteq charged' /\ lost \subseteq lost'
  <2>1. IsFiniteSet(charged \cup {w})
    BY Zenon DEF SetsCount
  <2> QED BY <1>2, <2>1, ZenonT(30) DEF TakeKey, PutRecord, ProcessCharge, Answer
<1>3. ASSUME NEW w \in ChargeCalls, AcquireKey(w), UNCHANGED idemRec, UNCHANGED charged
      PROVE  ChargeTypes' /\ Kept /\ charged \subseteq charged' /\ lost \subseteq lost'
  BY <1>3, ZenonT(30) DEF AcquireKey, TakeKey, ProcessCharge, Answer
<1>4. ASSUME NEW w \in ChargeCalls, InspectRecord(w)
      PROVE  ChargeTypes' /\ Kept /\ charged \subseteq charged' /\ lost \subseteq lost'
  BY <1>4 DEF InspectRecord, Answer
<1>5. ASSUME NEW w \in ChargeCalls, OverwriteRecord(w), UNCHANGED <<idemRec, charged>>
      PROVE  ChargeTypes' /\ Kept /\ charged \subseteq charged' /\ lost \subseteq lost'
  BY <1>5, Zenon DEF OverwriteRecord, TakeKey, ProcessCharge, Answer
<1>6. ASSUME NEW w \in ChargeCalls, RecordSuccess(w)
      PROVE  ChargeTypes' /\ Kept /\ charged \subseteq charged' /\ lost \subseteq lost'
  BY <1>6, ZenonT(30) DEF RecordSuccess, PutRecord, Answer
<1>7. ASSUME NEW w \in ChargeCalls, RecordFailure(w)
      PROVE  ChargeTypes' /\ Kept /\ charged \subseteq charged' /\ lost \subseteq lost'
  BY <1>7, Zenon DEF RecordFailure, PutRecord, Answer
<1>8. ASSUME NEW k \in IdemKeys, ExpireRecord(k)
      PROVE  ChargeTypes' /\ Kept /\ charged \subseteq charged' /\ lost \subseteq lost'
  BY <1>8, Zenon DEF ExpireRecord
<1>9. ASSUME NEW w \in ChargeCalls, AcquireKey(w) \/ OverwriteRecord(w)
      PROVE  \/ chPc[w] \in {"acquire", "overwrite"} /\ TakeKey(w) /\ UNCHANGED <<chArg, lost>>
             \/ UNCHANGED idemRec /\ UNCHANGED charged
  BY <1>9, Zenon DEF AcquireKey, OverwriteRecord
<1> QED BY <1>1, <1>2, <1>3, <1>4, <1>5, <1>6, <1>7, <1>8, <1>9, ZenonT(30)
           DEF ChargeNext, ChargeStep

(* What the record of one key may say, primed. *)
LEMMA ChargeStepRecords ==
  ASSUME SetsCount
  PROVE  ChargeTypes /\ RecordsTrue /\ ChargeNext => RecordsTrue'
<1> SUFFICES ASSUME ChargeTypes, RecordsTrue, ChargeNext PROVE RecordsTrue'
  BY Zenon
<1>0. /\ ChargeTypes'
      /\ \A w \in ChargeCalls : chPc[w] # "idle" => chPc'[w] # "idle" /\ chArg'[w] = chArg[w]
      /\ charged \subseteq charged' /\ lost \subseteq lost'
  BY ChargeStepTypes, ZenonT(30)
<1> USE DEF ChargeTypes, ChPhases, RecordsTrue, KeyOf, RecordOf, InProgress, CompletedBy
<1>1. ASSUME NEW w \in ChargeCalls, ArriveCharge(w) PROVE RecordsTrue'
  <2>1. /\ UNCHANGED <<idemRec, charged, lost>> /\ chPc[w] = "idle" /\ chPc'[w] = "acquire"
        /\ \A v \in ChargeCalls \ {w} : chPc'[v] = chPc[v] /\ chArg'[v] = chArg[v]
    BY <1>1, ZenonT(30) DEF ArriveCharge
  <2>2. \A v \in charged : v \in ChargeCalls \ {w}
    BY <2>1
  <2>3. \A v \in ChargeCalls \ {w} : /\ KeyOf(v)' = KeyOf(v) /\ RecordOf(v)' = RecordOf(v)
                                    /\ InProgress(v)' = InProgress(v)
                                    /\ CompletedBy(v)' = CompletedBy(v)
    BY <2>1, Zenon
  <2> HIDE <1>1 DEF ChargeTypes, KeyOf, RecordOf, InProgress, CompletedBy
  <2> QED BY <2>1, <2>2, <2>3
<1>2. ASSUME NEW w \in ChargeCalls, InspectRecord(w) PROVE RecordsTrue'
  BY <1>0, <1>2 DEF InspectRecord, Answer, NoRecord, FailedRecord
<1>3. ASSUME NEW w \in ChargeCalls, TakeKey(w), UNCHANGED <<chArg, lost>>,
             chPc[w] \in {"acquire", "overwrite"}
      PROVE  RecordsTrue'
  <2>1. /\ KeyOf(w) \in IdemKeys /\ InProgress(w) # NoRecord
        /\ idemRec' = [idemRec EXCEPT ![KeyOf(w)] = InProgress(w)]
        /\ chPc' = [chPc EXCEPT ![w] = chPc'[w]] /\ chPc'[w] \in {"record", "done"}
        /\ charged' = charged \/ charged' = charged \cup {w}
        /\ chPc'[w] = "record" => w \in charged'
    BY <1>3 DEF TakeKey, PutRecord, ProcessCharge, Answer, NoRecord
  <2>2. \A v \in ChargeCalls : chPc'[v] \in {"record", "fail"} => v \in charged'
    BY <2>1
  <2>3. \A k \in IdemKeys \ {KeyOf(w)} : idemRec'[k] = idemRec[k]
        /\ \A v \in charged' : KeyOf(v) = k => v \in charged
    BY <2>1, Zenon
  <2>4. idemRec'[KeyOf(w)] = InProgress(w) /\ InProgress(w)' = InProgress(w)
        /\ chPc'[w] # "idle" /\ KeyOf(w)' = KeyOf(w)
    BY <1>3, <2>1, Zenon
  <2>5. \A v \in ChargeCalls : KeyOf(v)' = KeyOf(v) /\ CompletedBy(v)' = CompletedBy(v)
                              /\ InProgress(v)' = InProgress(v)
    BY <1>3, Zenon
  <2>6. ASSUME NEW k \in IdemKeys
        PROVE  /\ \/ idemRec'[k] = NoRecord
                  \/ idemRec'[k] = FailedRecord /\ k \in lost'
                  \/ \E v \in ChargeCalls :
                       chPc'[v] # "idle" /\ KeyOf(v)' = k /\ idemRec'[k] = InProgress(v)'
                  \/ \E v \in charged' : KeyOf(v)' = k /\ idemRec'[k] = CompletedBy(v)'
               /\ idemRec'[k] = NoRecord /\ k \notin lost' => \A v \in charged' : KeyOf(v)' # k
    <3>1. CASE k = KeyOf(w)
      BY <2>1, <2>4, <3>1, ZenonT(30)
    <3>2. CASE k # KeyOf(w)
      BY <1>0, <1>3, <2>3, <2>5, <3>2, SMT, Z3
    <3> QED BY <3>1, <3>2, Zenon
  <2>7. ASSUME NEW v \in ChargeCalls
        PROVE  /\ chPc'[v] = "inspect" => RecordOf(v)' # NoRecord \/ KeyOf(v)' \in lost'
               /\ chPc'[v] = "overwrite" => KeyOf(v)' \in lost'
    <3>1. \A x \in ChargeCalls \ {w} : chPc'[x] = chPc[x]
      BY <2>1, Zenon
    <3>2. chPc[v] \in {"inspect", "overwrite"} => KeyOf(v) \in IdemKeys
      BY SMT, Z3
    <3> HIDE DEF ChargeTypes, KeyOf, InProgress, CompletedBy
    <3> QED BY <1>3, <2>1, <2>3, <2>4, <2>5, <3>1, <3>2
  <2> QED BY <2>2, <2>6, <2>7, Zenon DEF NoRecord, FailedRecord
<1>4. ASSUME NEW w \in ChargeCalls, AcquireKey(w) \/ OverwriteRecord(w),
             UNCHANGED <<idemRec, charged>>
      PROVE  RecordsTrue'
  BY <1>0, <1>4, SMT, Z3 DEF AcquireKey, OverwriteRecord, TakeKey, ProcessCharge, Answer, KeyFree
<1>5. ASSUME NEW w \in ChargeCalls, RecordSuccess(w) PROVE RecordsTrue'
  BY <1>0, <1>5, SMT, Z3 DEF RecordSuccess, PutRecord, Answer, NoRecord
<1>6. ASSUME NEW w \in ChargeCalls, RecordFailure(w) PROVE RecordsTrue'
  BY <1>0, <1>6, SMT, Z3 DEF RecordFailure, PutRecord, Answer, FailedRecord, NoRecord
<1>7. ASSUME NEW k \in IdemKeys, ExpireRecord(k) PROVE RecordsTrue'
  BY <1>0, <1>7 DEF ExpireRecord
<1>8. ASSUME NEW w \in ChargeCalls, AcquireKey(w) \/ OverwriteRecord(w)
      PROVE  \/ chPc[w] \in {"acquire", "overwrite"} /\ TakeKey(w) /\ UNCHANGED <<chArg, lost>>
             \/ UNCHANGED <<idemRec, charged>>
  BY <1>8, Zenon DEF AcquireKey, OverwriteRecord
<1> QED BY <1>1, <1>2, <1>3, <1>4, <1>5, <1>6, <1>7, <1>8, Zenon DEF ChargeNext, ChargeStep

(* A replay reports the call whose record was found with the same hash. *)
LEMMA ChargeStepReplies ==
  ASSUME SetsCount
  PROVE  ChargeInv /\ ChargeNext => RepliesTrue'
<1> SUFFICES ASSUME ChargeInv, ChargeNext, NEW v \in ChargeCalls, chAnswer'[v].kind = "replayed"
             PROVE  /\ chPc'[v] = "done"
                    /\ chAnswer'[v].from \in charged'
                    /\ chArg'[chAnswer'[v].from] = chArg'[v]
  BY Zenon DEF RepliesTrue
<1>0. /\ \A w \in ChargeCalls : chPc[w] # "idle" => chPc'[w] # "idle" /\ chArg'[w] = chArg[w]
      /\ charged \subseteq charged'
  BY ChargeStepTypes, Zenon DEF ChargeInv
<1> USE DEF ChargeInv, ChargeTypes, RepliesTrue
<1>1. CASE chAnswer'[v] = chAnswer[v] /\ chPc'[v] = chPc[v]
  BY <1>0, <1>1
<1>2. ASSUME NEW w \in ChargeCalls, ChargeStep(w), chAnswer'[v] # chAnswer[v] \/ chPc'[v] # chPc[v]
      PROVE  v = w /\ InspectRecord(v) /\ ~Tampered(v) /\ RecordOf(v).state = "COMPLETED"
             /\ chAnswer'[v].from = RecordOf(v).by /\ chPc'[v] = "done"
  <2>1. CASE ArriveCharge(w)
    BY <1>2, <2>1, Zenon DEF ArriveCharge
  <2>2. CASE AcquireKey(w)
    BY <1>2, <2>2, SMT, Z3 DEF AcquireKey, TakeKey, ProcessCharge, Answer
  <2>3. CASE InspectRecord(w)
    BY <1>2, <2>3 DEF InspectRecord, Answer
  <2>4. CASE OverwriteRecord(w)
    BY <1>2, <2>4, SMT, Z3 DEF OverwriteRecord, TakeKey, ProcessCharge, Answer
  <2>5. CASE RecordSuccess(w)
    BY <1>2, <2>5 DEF RecordSuccess, Answer
  <2>6. CASE RecordFailure(w)
    BY <1>2, <2>6, ZenonT(30) DEF RecordFailure, Answer
  <2> QED BY <1>2, <2>1, <2>2, <2>3, <2>4, <2>5, <2>6, Zenon DEF ChargeStep
<1>3. ASSUME InspectRecord(v), ~Tampered(v), RecordOf(v).state = "COMPLETED",
             chAnswer'[v].from = RecordOf(v).by
      PROVE  chAnswer'[v].from \in charged /\ chArg[chAnswer'[v].from] = chArg[v]
  <2>1. chArg[v] \in [key : IdemKeys, body : Bodies]
    BY <1>3, ZenonT(30) DEF InspectRecord
  <2>2. PICK u \in charged : KeyOf(u) = KeyOf(v) /\ RecordOf(v) = CompletedBy(u)
    BY <1>3, <2>1 DEF RecordsTrue, RecordOf, KeyOf, NoRecord, FailedRecord, InProgress
  <2>3. chArg[u] \in [key : IdemKeys, body : Bodies]
    BY ZenonT(30)
  <2>4. chArg[u].key = chArg[v].key /\ chArg[u].body = chArg[v].body
    BY <1>3, <2>2, <2>3, ChargeAssumption, SMT, Z3 DEF Tampered, CompletedBy, KeyOf
  <2>5. chArg[u] = chArg[v]
    BY <2>1, <2>3, <2>4
  <2> QED BY <1>3, <2>2, <2>5 DEF CompletedBy
<1>4. CASE \E k \in IdemKeys : ExpireRecord(k)
  BY <1>1, <1>4, Zenon DEF ExpireRecord
<1>5. CASE \E w \in ChargeCalls : ChargeStep(w)
  <2>1. CASE chAnswer'[v] # chAnswer[v] \/ chPc'[v] # chPc[v]
    <3>1. InspectRecord(v) /\ chPc'[v] = "done"
          /\ chAnswer'[v].from \in charged /\ chArg[chAnswer'[v].from] = chArg[v]
      BY <1>2, <1>3, <1>5, <2>1, Zenon
    <3>2. chArg' = chArg
      BY <3>1, Zenon DEF InspectRecord
    <3> QED BY <1>0, <3>1, <3>2, Zenon
  <2> QED BY <1>1, <2>1, Zenon
<1> QED BY <1>4, <1>5, Zenon DEF ChargeNext

(* The invariant of the charge endpoint is inductive.                      *)
LEMMA ChargeStepInv ==
  ASSUME SetsCount
  PROVE  ChargeInv /\ [ChargeNext]_chargeVars => ChargeInv'
<1>1. ChargeInv /\ ChargeNext => ChargeInv'
  BY ChargeStepTypes, ChargeStepRecords, ChargeStepReplies, ZenonT(30) DEF ChargeInv
<1>2. ChargeInv /\ UNCHANGED chargeVars => ChargeInv'
  BY DEF chargeVars, ChargeInv, ChargeTypes, RecordsTrue, RepliesTrue, KeyOf, RecordOf,
         InProgress, CompletedBy, NoRecord, FailedRecord
<1> QED BY <1>1, <1>2, Zenon

(* A charge is made for a key that was not charged yet or was lost. *)
LEMMA ChargeIsDo ==
  ASSUME SetsCount, ChargeInv, NEW w \in ChargeCalls, chPc[w] \in {"acquire", "overwrite"},
         NEW k \in IdemKeys, KeyOf(w) = k, chPc[w] = "acquire" => KeyFree(w),
         charged' = charged \cup {w}, UNCHANGED <<chArg, lost>>
  PROVE  Once!Do(k)
<1>1. w \notin charged
  BY Zenon DEF ChargeInv, ChargeTypes, KeyOf
<1>2. \A j \in IdemKeys : IsFiniteSet(ChargesOf(j))
  BY Zenon DEF ChargeInv, ChargeTypes, ChargesOf, SetsCount
<1>3. \A j \in IdemKeys \ {k} : ChargesOf(j)' = ChargesOf(j)
  BY Zenon DEF ChargesOf, KeyOf
<1>4. ChargesOf(k)' = ChargesOf(k) \cup {w} /\ w \notin ChargesOf(k)
  BY <1>1, Zenon DEF ChargesOf, KeyOf
<1>5. Cardinality(ChargesOf(k)') = Cardinality(ChargesOf(k)) + 1
  BY <1>1, <1>2, <1>4 DEF SetsCount
<1>6. k \notin lost => Cardinality(ChargesOf(k)) = 0
  <2> SUFFICES ASSUME k \notin lost PROVE ChargesOf(k) = {}
    BY Zenon DEF SetsCount
  <2> QED BY <1>1, Zenon DEF ChargeInv, RecordsTrue, ChargesOf, KeyFree, RecordOf
<1>7. [j \in IdemKeys |-> Cardinality(ChargesOf(j)')]
        = [[j \in IdemKeys |-> Cardinality(ChargesOf(j))] EXCEPT ![k] = @ + 1]
  <2>1. \A j \in IdemKeys : Cardinality(ChargesOf(j)') =
          IF j = k THEN Cardinality(ChargesOf(j)) + 1 ELSE Cardinality(ChargesOf(j))
    BY <1>3, <1>5, Zenon
  <2> QED BY <2>1, Zenon
<1> QED BY <1>1, <1>6, <1>7, Zenon DEF Once!Do

(* A step that charges nobody leaves every count as it is. *)
LEMMA ChargesStay ==
  ASSUME SetsCount, ChargeInv, charged' = charged, ChargeNext
  PROVE  \A k \in IdemKeys : ChargesOf(k)' = ChargesOf(k)
BY ChargeStepTypes DEF ChargeInv, ChargeTypes, ChargesOf, KeyOf

(* Every step of the endpoint is a charge that OnceOnly allows, a loss of  *)
(* a key's record, or invisible to it.                                     *)
LEMMA ChargeStepRefines ==
  ASSUME SetsCount, ChargeInv, ChargeNext
  PROVE  [Once!OnceNext]_<<[k \in IdemKeys |-> Cardinality(ChargesOf(k))], lost>>
<1> DEFINE count == [k \in IdemKeys |-> Cardinality(ChargesOf(k))]
<1>1. CASE charged' = charged
  <2>1. [k \in IdemKeys |-> Cardinality(ChargesOf(k)')] = count
    BY <1>1, ChargesStay, Zenon
  <2>2. lost' = lost \/ \E k \in IdemKeys : lost' = lost \cup {k}
    BY Zenon DEF ChargeNext, ChargeStep, ArriveCharge, AcquireKey, InspectRecord, OverwriteRecord,
           RecordSuccess, RecordFailure, ExpireRecord, ChargeInv, ChargeTypes, KeyOf
  <2> QED BY <2>1, <2>2, Zenon DEF Once!OnceNext, Once!Forget
<1>2. CASE charged' # charged
  <2>1. PICK w \in ChargeCalls :
          /\ chPc[w] \in {"acquire", "overwrite"}
          /\ chPc[w] = "acquire" => KeyFree(w)
          /\ charged' = charged \cup {w} /\ UNCHANGED <<chArg, lost>>
    BY <1>2, Zenon DEF ChargeNext, ChargeStep, ArriveCharge, AcquireKey, TakeKey, ProcessCharge,
                InspectRecord, OverwriteRecord, RecordSuccess, RecordFailure, ExpireRecord
  <2>2. PICK k \in IdemKeys : KeyOf(w) = k
    BY <2>1, Zenon DEF ChargeInv, ChargeTypes, KeyOf
  <2>3. Once!Do(k)
    BY <2>1, <2>2, ChargeIsDo, Zenon
  <2> QED BY <2>3, Zenon DEF Once!OnceNext
<1> QED BY <1>1, <1>2, Zenon

(* The charge endpoint implements OnceOnly.                                *)
LEMMA ChargeUnderCounts ==
  ASSUME SetsCount PROVE ChargeSpec => ChargeIsOnceOnly
<1>1. ChargeInit => ChargeInv
  <2> SUFFICES ASSUME ChargeInit PROVE ChargeInv
    BY Zenon
  <2>1. ChargeTypes
    BY Zenon DEF ChargeInit, ChargeTypes, ChPhases, SetsCount
  <2>2. RecordsTrue
    BY Zenon DEF ChargeInit, RecordsTrue
  <2>3. RepliesTrue
    BY Zenon DEF ChargeInit, RepliesTrue
  <2> QED BY <2>1, <2>2, <2>3, Zenon DEF ChargeInv
<1>2. ChargeInit => Once!OnceInit
  <2> SUFFICES ASSUME ChargeInit PROVE Once!OnceInit
    BY Zenon
  <2>1. \A k \in IdemKeys : ChargesOf(k) = {}
    BY Zenon DEF ChargeInit, ChargesOf
  <2>2. \A k \in IdemKeys : Cardinality(ChargesOf(k)) = 0
    BY <2>1, Zenon DEF SetsCount
  <2> QED BY <2>2, Zenon DEF ChargeInit, Once!OnceInit
<1>3. ChargeInv /\ [ChargeNext]_chargeVars
        => [Once!OnceNext]_<<[k \in IdemKeys |-> Cardinality(ChargesOf(k))], lost>>
  <2>1. ChargeInv /\ ChargeNext
          => [Once!OnceNext]_<<[k \in IdemKeys |-> Cardinality(ChargesOf(k))], lost>>
    BY ChargeStepRefines, Zenon
  <2>2. UNCHANGED chargeVars => UNCHANGED <<[k \in IdemKeys |-> Cardinality(ChargesOf(k))], lost>>
    BY Zenon DEF chargeVars, ChargesOf, KeyOf
  <2> QED BY <2>1, <2>2, Zenon
<1>4. ChargeInv => ReplayIsOwnCharge
  BY Zenon DEF ChargeInv, RepliesTrue, ReplayIsOwnCharge
<1> QED BY <1>1, <1>2, <1>3, <1>4, ChargeStepInv, PTL
        DEF ChargeSpec, ChargeIsOnceOnly, Once!OnceSpec

-----------------------------------------------------------------------------
(***************************************************************************)
(* The delayed priority queue: JobQueue.tla. The heap's root is the least  *)
(* job by priority, due time and number, which needs a least element of a  *)
(* set of naturals.                                                        *)
(***************************************************************************)

(* What the heap holds; made is how many jobs had run when it was          *)
(* scheduled.                                                              *)
Jobs == [priority : Nat, at : Nat, sequence : Nat, made : Nat]

(* What is remembered of a run.                                            *)
RunRecords == [job : Jobs, at : Nat]

(* The types of the queue.                                                 *)
JobTypes ==
  /\ jqTime \in Nat /\ jqSeq \in Nat
  /\ heap \subseteq Jobs /\ IsFiniteSet(heap)
  /\ ran \in Seq(RunRecords)

(* The jobs of the heap are numbered apart, up to the counter. *)
Numbered ==
  /\ \A j, k \in heap : j.sequence = k.sequence => j = k
  /\ \A j \in heap : 1 <= j.sequence /\ j.sequence <= jqSeq /\ j.made <= Len(ran)

(* Job a, which ran as number n, was rightly run before job b. *)
RanFirst(n, a, b) ==
  /\ a.priority > b.priority => b.made >= n
  /\ a.priority = b.priority =>
       a.at < b.at \/ (a.at = b.at /\ a.sequence < b.sequence)

(* A job that ran was rightly run before every job that still waits. *)
RanBeforeWaiting ==
  \A i \in 1..Len(ran) :
    ran[i].at <= jqTime /\ \A b \in heap : RanFirst(i, ran[i].job, b)

(* The inductive invariant of the queue.                                   *)
JobInv == JobTypes /\ Numbered /\ RanBeforeWaiting /\ RunOrder /\ EachJobOnceWhenDue

(* The root of the heap comes before every other job.                      *)
LEMMA RootIsLeast ==
  ASSUME SetsCount, heap \subseteq Jobs, heap # {},
         \A j, k \in heap : j.sequence = k.sequence => j = k
  PROVE  Root \in heap /\ \A k \in heap \ {Root} : Before(Root, k)
<1>0. \A S : S \subseteq Nat /\ S # {} => \E n \in S : \A m \in S : n <= m
  BY Zenon DEF SetsCount
<1>1. PICK p \in {j.priority : j \in heap} : \A m \in {j.priority : j \in heap} : p <= m
  <2>1. {j.priority : j \in heap} \subseteq Nat /\ {j.priority : j \in heap} # {}
    BY Zenon DEF Jobs
  <2>2. QED BY <1>0, <2>1, Zenon
<1> DEFINE urgent == {j \in heap : j.priority = p}
<1>2. PICK t \in {j.at : j \in urgent} : \A m \in {j.at : j \in urgent} : t <= m
  <2>1. {j.at : j \in urgent} \subseteq Nat /\ {j.at : j \in urgent} # {}
    BY DEF Jobs
  <2>2. QED BY <1>0, <2>1, Zenon
<1> DEFINE due == {j \in urgent : j.at = t}
<1>3. PICK n \in {j.sequence : j \in due} : \A m \in {j.sequence : j \in due} : n <= m
  <2>1. {j.sequence : j \in due} \subseteq Nat /\ {j.sequence : j \in due} # {}
    BY DEF Jobs
  <2>2. QED BY <1>0, <2>1, Zenon
<1>4. PICK least \in due : least.sequence = n
  BY <1>3, Zenon
<1>5. least \in heap /\ least.priority = p /\ least.at = t
  BY Zenon
<1>6. ASSUME NEW k \in heap \ {least} PROVE Before(least, k)
  <2>1. k \in Jobs /\ least \in Jobs /\ least.priority <= k.priority
    BY <1>1, <1>5
  <2>2. k.priority = p => least.at <= k.at
    BY <1>2, <1>5
  <2>3. k.priority = p /\ k.at = t => least.sequence <= k.sequence
    BY <1>3, <1>4
  <2>4. least.sequence # k.sequence
    BY <1>5, Zenon
  <2>5. QED BY <2>1, <2>2, <2>3, <2>4, <1>5 DEF Before, Jobs
<1>7. QED BY <1>5, <1>6, Zenon DEF Root

(* RunOrder in terms of RanFirst. *)
LEMMA RunOrderSays ==
  RunOrder <=> \A i, k \in 1..Len(ran) : i < k => RanFirst(i, ran[i].job, ran[k].job)
BY Zenon DEF RunOrder, RanFirst

(* schedule_sync() adds a job with a new number.                           *)
LEMMA ScheduleKeeps ==
  ASSUME SetsCount, JobInv, NEW p \in Priorities, NEW d \in Delays, ScheduleJob(p, d)
  PROVE  JobInv'
<1> DEFINE job == [priority |-> p, at |-> jqTime + d, sequence |-> jqSeq + 1, made |-> Len(ran)]
<1>1. /\ heap' = heap \cup {job} /\ jqSeq' = jqSeq + 1
      /\ jqTime' = jqTime /\ ran' = ran
  BY Zenon DEF ScheduleJob, ScheduleSync
<1>2. /\ p \in Nat /\ d \in Nat /\ Len(ran) \in Nat
      /\ jqTime \in Nat /\ jqSeq \in Nat
  BY JobQueueAssumption DEF JobInv, JobTypes
<1>3. /\ job \in Jobs /\ job.priority = p /\ job.at = jqTime + d
      /\ job.sequence = jqSeq + 1 /\ job.made = Len(ran)
  BY <1>2 DEF Jobs, JobInv, JobTypes
<1> HIDE DEF job
<1>4. JobTypes'
  <2>1. IsFiniteSet(heap \cup {job})
    BY Zenon DEF JobInv, JobTypes, SetsCount
  <2> QED BY <1>1, <1>2, <1>3, <2>1 DEF JobInv, JobTypes
<1>5. Numbered'
  BY <1>1, <1>2, <1>3, SMT, Z3 DEF JobInv, JobTypes, Numbered, Jobs
<1>6. \A i \in 1..Len(ran) : ran[i].job.sequence <= jqSeq /\ ran[i].job.at <= jqTime
  <2> SUFFICES ASSUME NEW i \in 1..Len(ran)
               PROVE  ran[i].job.sequence <= jqSeq /\ ran[i].job.at <= jqTime
    BY Zenon
  <2>1. ran[i].job.sequence \in 1..jqSeq
    BY Zenon DEF JobInv, EachJobOnceWhenDue
  <2>2. ran[i].job.at <= ran[i].at /\ ran[i].at <= jqTime
    BY Zenon DEF JobInv, EachJobOnceWhenDue, RanBeforeWaiting
  <2>3. ran[i] \in RunRecords
    BY DEF JobInv, JobTypes
  <2>4. QED BY <1>2, <2>1, <2>2, <2>3, SMT, Z3 DEF Jobs, RunRecords
<1>7. RanBeforeWaiting'
  <2> SUFFICES ASSUME NEW i \in 1..Len(ran) PROVE RanFirst(i, ran[i].job, job)
    BY <1>1, Zenon DEF RanBeforeWaiting, JobInv
  <2>1. ran[i] \in RunRecords
    BY DEF JobInv, JobTypes
  <2>2. ran[i].job.at \in Nat /\ ran[i].job.sequence \in Nat
    BY <2>1, Zenon DEF Jobs, RunRecords
  <2>3. ran[i].job.at <= jqTime /\ ran[i].job.sequence <= jqSeq
    BY <1>6, Zenon
  <2>4. job.made >= i
    BY <1>2, <1>3
  <2>5. \/ ran[i].job.at < job.at
        \/ ran[i].job.at = job.at /\ ran[i].job.sequence < job.sequence
    <3>1. \A a, s \in Nat : a <= jqTime /\ s <= jqSeq =>
            a < jqTime + d \/ (a = jqTime + d /\ s < jqSeq + 1)
      BY <1>2
    <3>2. QED BY <1>3, <2>2, <2>3, <3>1, Zenon
  <2>6. QED BY <2>4, <2>5, Zenon DEF RanFirst
<1>8. RunOrder'
  <2>1. RunOrder
    BY Zenon DEF JobInv
  <2>2. QED BY <1>1, <2>1 DEF RunOrder
<1>9. EachJobOnceWhenDue'
  <2>1. job \notin heap
    BY <1>3 DEF JobInv, JobTypes, Numbered
  <2>2. Cardinality(heap') = Cardinality(heap) + 1 /\ Cardinality(heap) \in Nat
    BY <1>1, <2>1, Zenon DEF JobInv, JobTypes, SetsCount
  <2>3. {j.sequence : j \in heap'} = {j.sequence : j \in heap} \cup {jqSeq + 1}
    BY <1>1, <1>3, Zenon
  <2>4. 1..(jqSeq + 1) = (1..jqSeq) \cup {jqSeq + 1}
    BY DEF JobInv, JobTypes
  <2>5. Cardinality(heap) + Len(ran) = jqSeq /\ Len(ran) \in Nat
    BY <1>2, Zenon DEF JobInv, EachJobOnceWhenDue
  <2>6. Cardinality(heap') + Len(ran') = jqSeq'
    BY <1>1, <2>2, <2>5
  <2>7. /\ \A i \in 1..Len(ran') : ran'[i].job.at <= ran'[i].at
        /\ {j.sequence : j \in heap} \cup {ran[i].job.sequence : i \in 1..Len(ran)} = 1..jqSeq
    BY <1>1, Zenon DEF JobInv, EachJobOnceWhenDue
  <2>8. {j.sequence : j \in heap'} \cup {ran'[i].job.sequence : i \in 1..Len(ran')} = 1..jqSeq'
    BY <1>1, <2>3, <2>4, <2>7, Zenon
  <2>9. QED BY <2>6, <2>7, <2>8, Zenon DEF EachJobOnceWhenDue
<1>10. QED BY <1>4, <1>5, <1>7, <1>8, <1>9, Zenon DEF JobInv

(* A due root is popped and run: it is least, so it was rightly run before *)
(* all that wait.                                                          *)
LEMMA RunKeeps ==
  ASSUME SetsCount, JobInv, NEW w \in JqWorkers, NEW j \in PopDueJob,
         heap' = heap \ {j}, ran' = Append(ran, [job |-> j, at |-> jqTime]),
         jqTime' = jqTime, jqSeq' = jqSeq
  PROVE  JobInv'
<1>1. /\ j \in heap /\ j.at <= jqTime
      /\ \A k \in heap \ {j} : Before(j, k)
  BY RootIsLeast, Zenon DEF PopDueJob, JobInv, JobTypes, Numbered
<1>2. j \in Jobs /\ jqTime \in Nat /\ jqSeq \in Nat
  BY <1>1, Zenon DEF JobInv, JobTypes
<1>3. PICK n \in Nat : n = Len(ran)
  BY DEF JobInv, JobTypes
<1>4. PICK e \in RunRecords : ran' = Append(ran, e) /\ e.job = j /\ e.at = jqTime
  BY <1>2 DEF RunRecords
<1>5. /\ Len(ran') = n + 1 /\ ran'[n + 1] = e
      /\ \A i \in 1..n : ran'[i] = ran[i] /\ ran[i] \in RunRecords
      /\ ran' \in Seq(RunRecords)
  BY <1>3, <1>4 DEF JobInv, JobTypes
<1>6. JobTypes'
  BY <1>2, <1>5, Zenon DEF JobInv, JobTypes, SetsCount
<1>7. Numbered'
  BY <1>2, <1>3, <1>5, SMT, Z3 DEF JobInv, JobTypes, Numbered, Jobs
<1>8. RanBeforeWaiting'
  <2>1. ASSUME NEW b \in heap' PROVE RanFirst(n + 1, j, b)
    <3>1. Before(j, b) /\ b \in Jobs
      BY <1>1, <2>1, Zenon DEF JobInv, JobTypes
    <3>2. QED BY <1>2, <3>1 DEF Before, RanFirst, Jobs
  <2>2. ASSUME NEW i \in 1..n, NEW b \in heap'
        PROVE  ran[i].at <= jqTime /\ RanFirst(i, ran[i].job, b)
    BY <1>3, Zenon DEF JobInv, RanBeforeWaiting
  <2>3. ASSUME NEW i \in 1..n PROVE ran[i].at <= jqTime
    BY <1>3, Zenon DEF JobInv, RanBeforeWaiting
  <2>4. QED BY <1>2, <1>3, <1>4, <1>5, <2>1, <2>2, <2>3 DEF RanBeforeWaiting
<1>9. RunOrder'
  <2> SUFFICES ASSUME NEW i \in 1..(n + 1), NEW k \in 1..(n + 1), i < k
               PROVE  RanFirst(i, ran'[i].job, ran'[k].job)
    BY <1>5, ZenonT(30) DEF RunOrder, RanFirst
  <2>1. i \in 1..n /\ (k \in 1..n \/ k = n + 1)
    BY <1>3
  <2>2. CASE k \in 1..n
    BY <1>3, <1>5, <2>1, <2>2, RunOrderSays, Zenon DEF JobInv
  <2>3. CASE k = n + 1
    <3>1. RanFirst(i, ran[i].job, j)
      BY <1>1, <1>3, <2>1, Zenon DEF JobInv, RanBeforeWaiting
    <3>2. ran'[i].job = ran[i].job /\ ran'[k].job = j
      BY <1>4, <1>5, <2>1, <2>3, Zenon
    <3>3. QED BY <3>1, <3>2, ZenonT(30) DEF RanFirst
  <2>4. QED BY <2>1, <2>2, <2>3, Zenon
<1>10. EachJobOnceWhenDue'
  <2>1. \A i \in 1..(n + 1) : ran'[i].job.at <= ran'[i].at
    BY <1>1, <1>3, <1>4, <1>5 DEF JobInv, EachJobOnceWhenDue
  <2>2. Cardinality(heap') = Cardinality(heap) - 1 /\ Cardinality(heap) \in Nat
    BY <1>1, Zenon DEF JobInv, JobTypes, SetsCount
  <2>3. {x.sequence : x \in heap} = {x.sequence : x \in heap'} \cup {j.sequence}
    BY <1>1, Zenon
  <2>4. {ran'[i].job.sequence : i \in 1..(n + 1)} =
          {ran[i].job.sequence : i \in 1..n} \cup {j.sequence}
    <3>1. 1..(n + 1) = (1..n) \cup {n + 1}
      OBVIOUS
    <3>2. QED BY <1>4, <1>5, <3>1
  <2>5. Cardinality(heap') + Len(ran') = jqSeq'
    <3>1. Cardinality(heap) + n = jqSeq
      BY <1>3, Zenon DEF JobInv, EachJobOnceWhenDue
    <3>2. QED BY <1>5, <2>2, <3>1
  <2>6. {x.sequence : x \in heap'} \cup {ran'[i].job.sequence : i \in 1..(n + 1)} = 1..jqSeq
    BY <1>3, <2>3, <2>4, Zenon DEF JobInv, EachJobOnceWhenDue
  <2>7. QED BY <1>5, <2>1, <2>5, <2>6, ZenonT(30) DEF EachJobOnceWhenDue
<1>11. QED BY <1>6, <1>7, <1>8, <1>9, <1>10, Zenon DEF JobInv

(* The invariant is kept by scheduling, running and the clock.             *)
LEMMA JobStep ==
  ASSUME SetsCount
  PROVE  JobInv /\ [JobNext]_jobVars => JobInv'
<1> SUFFICES ASSUME JobInv, [JobNext]_jobVars PROVE JobInv'
  BY Zenon
<1>1. ASSUME jqTime' \in Nat, jqTime <= jqTime', heap' = heap, jqSeq' = jqSeq, ran' = ran
      PROVE  JobInv'
  <2>1. ASSUME NEW i \in 1..Len(ran) PROVE ran[i].at <= jqTime'
    <3>1. ran[i] \in RunRecords /\ jqTime \in Nat /\ ran[i].at <= jqTime
      BY DEF JobInv, JobTypes, RanBeforeWaiting
    <3>2. QED BY <1>1, <3>1 DEF RunRecords
  <2>2. RanBeforeWaiting'
    BY <1>1, <2>1, Zenon DEF RanBeforeWaiting, JobInv
  <2>3. JobTypes' /\ Numbered'
    BY <1>1, Zenon DEF JobInv, JobTypes, Numbered
  <2>4. RunOrder /\ EachJobOnceWhenDue
    BY Zenon DEF JobInv
  <2>5. RunOrder'
    BY <1>1, <2>4 DEF RunOrder
  <2>6. EachJobOnceWhenDue'
    BY <1>1, <2>4, Zenon DEF EachJobOnceWhenDue
  <2>7. QED BY <2>2, <2>3, <2>5, <2>6, Zenon DEF JobInv
<1>2. CASE JqTick
  BY <1>1, <1>2 DEF JqTick, JobInv, JobTypes
<1>3. ASSUME NEW p \in Priorities, NEW d \in Delays, ScheduleJob(p, d) PROVE JobInv'
  BY <1>3, ScheduleKeeps, Zenon
<1>4. ASSUME NEW w \in JqWorkers, StartBatch(w) PROVE JobInv'
  BY <1>1, <1>4 DEF StartBatch, JobInv, JobTypes
<1>5. ASSUME NEW w \in JqWorkers, ProcessDueJob(w) PROVE JobInv'
  <2>1. CASE PopDueJob = {} /\ UNCHANGED <<heap, ran>>
    BY <1>1, <1>5, <2>1 DEF ProcessDueJob, JobInv, JobTypes
  <2>2. ASSUME NEW j \in PopDueJob,
               heap' = heap \ {j}, ran' = Append(ran, [job |-> j, at |-> jqTime])
        PROVE  JobInv'
    BY <1>5, <2>2, RunKeeps, Zenon DEF ProcessDueJob
  <2>3. QED BY <1>5, <2>1, <2>2, Zenon DEF ProcessDueJob
<1>6. CASE UNCHANGED jobVars
  BY <1>1, <1>6 DEF jobVars, JobInv, JobTypes
<1>7. QED BY <1>2, <1>3, <1>4, <1>5, <1>6, Zenon DEF JobNext

(* Jobs run once, when due and in order.                                   *)
LEMMA JobUnderCounts ==
  ASSUME SetsCount PROVE JobSpec => []JobsRunOnceInOrder
<1>1. JobInit => JobInv
  <2> SUFFICES ASSUME JobInit PROVE JobInv
    BY Zenon
  <2>1. JobTypes
    BY DEF JobInit, JobTypes, SetsCount
  <2>2. EachJobOnceWhenDue
    <3>1. Cardinality(heap) = 0 /\ Len(ran) = 0
      BY Zenon DEF JobInit, SetsCount
    <3>2. QED BY <3>1 DEF JobInit, EachJobOnceWhenDue
  <2>3. QED BY <2>1, <2>2 DEF JobInit, JobInv, Numbered, RanBeforeWaiting, RunOrder
<1>2. JobInv => JobsRunOnceInOrder
  BY Zenon DEF JobInv, JobsRunOnceInOrder
<1>3. QED BY <1>1, <1>2, JobStep, PTL DEF JobSpec

-----------------------------------------------------------------------------
(***************************************************************************)
(* LeaderboardService over a sorted set: Leaderboard.tla.                  *)
(***************************************************************************)

(* What a request knows of a player's standing.                            *)
Standings == [player : Nat, score : Int, rank : Nat, total : Nat]

(* The types: the sorted set is a finite function on players. *)
BoardTypes ==
  /\ DOMAIN scores \subseteq Players /\ IsFiniteSet(DOMAIN scores)
  /\ scores \in [DOMAIN scores -> Int]
  /\ recordedScores \in [Players -> Int]
  /\ lbPc \in [LbCalls -> {"idle", "ranking", "rank", "total", "answered"}]
  /\ standing \in [LbCalls -> Standings]
  /\ evictedSince \in [LbCalls -> BOOLEAN]

(* A rank that was read is within the board as it is now, until somebody   *)
(* is removed.                                                             *)
RankWithinBoard ==
  \A c \in LbCalls : lbPc[c] = "total" =>
    evictedSince[c] = TRUE \/ standing[c].rank \in 1 .. Cardinality(DOMAIN scores)

(* The rank a request answers is within the total it answers, unless       *)
(* somebody was removed between its commands.                              *)
RankWithinTotal ==
  \A c \in LbCalls : lbPc[c] = "answered" =>
    evictedSince[c] = TRUE \/ standing[c].rank \in 1 .. standing[c].total

(* Nothing is recorded for a player who is not on the board. *)
AbsentHaveNone == \A p \in Players : p \notin DOMAIN scores => recordedScores[p] = 0

(* The inductive invariant of the leaderboard.                             *)
BoardInv ==
  BoardTypes /\ ScoresAddUp /\ AbsentHaveNone /\ RankWithinBoard /\ RankWithinTotal

(* ZREVRANK of a player on the board is below the size of the board.       *)
LEMMA RankOfPlayer ==
  ASSUME SetsCount, BoardTypes, NEW p \in DOMAIN scores
  PROVE  ZRevRank(p) \in Nat /\ ZRevRank(p) + 1 \in 1 .. Cardinality(DOMAIN scores)
<1> DEFINE before == {q \in DOMAIN scores : \/ scores[q] > scores[p]
                                            \/ scores[q] = scores[p] /\ q > p}
<1>1. before \subseteq DOMAIN scores \ {p}
  BY LeaderboardAssumption DEF BoardTypes
<1>2. /\ IsFiniteSet(DOMAIN scores \ {p})
      /\ Cardinality(DOMAIN scores \ {p}) = Cardinality(DOMAIN scores) - 1
  BY Zenon DEF BoardTypes, SetsCount
<1> HIDE DEF before
<1>3. IsFiniteSet(before) /\ Cardinality(before) <= Cardinality(DOMAIN scores) - 1
  BY <1>1, <1>2 DEF SetsCount
<1>4. Cardinality(before) \in Nat /\ Cardinality(DOMAIN scores) \in Nat
  BY <1>3, Zenon DEF BoardTypes, SetsCount
<1>5. QED BY <1>3, <1>4 DEF ZRevRank, before

(* ZINCRBY adds to one player's score and puts them on the board.          *)
LEMMA RecordKeeps ==
  ASSUME SetsCount, BoardInv, NEW c \in LbCalls, RecordScore(c)
  PROVE  BoardInv'
<1> USE LeaderboardAssumption DEF BoardInv
<1>1. PICK p \in Players, delta \in ScoreDeltas :
        /\ ZIncrBy(p, delta)
        /\ recordedScores' = [recordedScores EXCEPT ![p] = @ + delta]
        /\ standing' = [standing EXCEPT ![c] = [NoStanding EXCEPT !.player = p]]
  BY Zenon DEF RecordScore
<1>2. /\ lbPc[c] = "idle" /\ lbPc' = [lbPc EXCEPT ![c] = "ranking"]
      /\ evictedSince' = evictedSince
  BY Zenon DEF RecordScore, LbGo
<1>3. [NoStanding EXCEPT !.player = p] \in Standings
  BY DEF NoStanding, Standings
<1>4. delta \in Int /\ DOMAIN scores' = DOMAIN scores \cup {p}
  BY <1>1, Zenon DEF ZIncrBy
<1>5. /\ IsFiniteSet(DOMAIN scores') /\ Cardinality(DOMAIN scores) <= Cardinality(DOMAIN scores')
      /\ Cardinality(DOMAIN scores) \in Nat /\ Cardinality(DOMAIN scores') \in Nat
  <2> DEFINE D == DOMAIN scores
  <2>1. D \in SUBSET Players /\ IsFiniteSet(D)
    BY Zenon DEF BoardTypes
  <2> HIDE DEF D
  <2>2. /\ IsFiniteSet(D \cup {p}) /\ Cardinality(D) \in Nat
        /\ Cardinality(D \cup {p}) = Cardinality(D) \/ Cardinality(D \cup {p}) = Cardinality(D) + 1
    BY <2>1, Zenon DEF SetsCount
  <2>3. QED BY <1>4, <2>2 DEF D
<1>6. /\ \A q \in DOMAIN scores' : scores'[q] \in Int
      /\ \A q \in DOMAIN scores : q # p => scores'[q] = scores[q]
      /\ scores'[p] = IF p \in DOMAIN scores THEN scores[p] + delta ELSE delta
  BY <1>1, <1>4 DEF ZIncrBy, BoardTypes
<1>7. BoardTypes'
  <2>1. scores' \in [DOMAIN scores' -> Int]
    BY <1>1, <1>6, Zenon DEF ZIncrBy
  <2>2. QED BY <1>1, <1>2, <1>3, <1>4, <1>5, <2>1 DEF BoardTypes
<1>8. ScoresAddUp' /\ AbsentHaveNone'
  BY <1>1, <1>4, <1>6 DEF ScoresAddUp, AbsentHaveNone, BoardTypes
<1>9. QED
  BY <1>1, <1>2, <1>5, <1>7, <1>8 DEF RankWithinBoard, RankWithinTotal, BoardTypes, Standings

(* A removal, of one player or of all, takes scores and records away       *)
(* together and is noted by the requests under way.                        *)
LEMMA EvictKeeps ==
  ASSUME SetsCount, BoardInv, NEW gone \in SUBSET DOMAIN scores, Evict(gone)
  PROVE  BoardInv'
<1> USE LeaderboardAssumption DEF BoardInv
<1>1. /\ DOMAIN scores' = DOMAIN scores \ gone
      /\ \A p \in DOMAIN scores' : scores'[p] = scores[p] /\ scores'[p] \in Int
      /\ scores' \in [DOMAIN scores' -> Int]
  BY Zenon DEF Evict, Restrict, BoardTypes
<1>2. /\ recordedScores' = [p \in Players |-> IF p \in gone THEN 0 ELSE recordedScores[p]]
      /\ lbPc' = lbPc /\ standing' = standing
  BY Zenon DEF Evict
<1>3. IsFiniteSet(DOMAIN scores')
  BY <1>1, Zenon DEF BoardTypes, SetsCount
<1>4. evictedSince' \in [LbCalls -> BOOLEAN]
  BY Zenon DEF Evict
<1>5. \A c \in LbCalls : /\ evictedSince[c] = TRUE => evictedSince'[c] = TRUE
                         /\ lbPc[c] = "total" => evictedSince'[c] = TRUE
  BY Zenon DEF Evict
<1>6. BoardTypes'
  BY <1>1, <1>2, <1>3, <1>4 DEF BoardTypes
<1>7. ScoresAddUp' /\ AbsentHaveNone'
  BY <1>1, <1>2, Zenon DEF ScoresAddUp, AbsentHaveNone, BoardTypes
<1>8. RankWithinBoard' /\ RankWithinTotal'
  BY <1>2, <1>5, Zenon DEF RankWithinBoard, RankWithinTotal
<1>9. QED BY <1>6, <1>7, <1>8, Zenon

(* What the reading commands leave alone, and what one of them may do to   *)
(* the standing of its request.                                            *)
LEMMA ReadKeeps ==
  ASSUME BoardInv, NEW c \in LbCalls, NEW l, NEW s \in Standings,
         scores' = scores, recordedScores' = recordedScores,
         l \in {"idle", "rank", "total", "answered"},
         lbPc' = [lbPc EXCEPT ![c] = l], standing' = [standing EXCEPT ![c] = s],
         \/ evictedSince' = evictedSince
         \/ l = "idle" /\ evictedSince' = [evictedSince EXCEPT ![c] = FALSE],
         l = "total" => s.rank \in 1 .. Cardinality(DOMAIN scores),
         l = "answered" => evictedSince[c] = TRUE \/ s.rank \in 1 .. s.total
  PROVE  BoardInv'
<1>1. BoardTypes'
  BY Zenon DEF BoardInv, BoardTypes
<1>2. ScoresAddUp' /\ AbsentHaveNone'
  BY Zenon DEF BoardInv, ScoresAddUp, AbsentHaveNone
<1>3. RankWithinBoard' /\ RankWithinTotal'
  BY Zenon DEF BoardInv, BoardTypes, RankWithinBoard, RankWithinTotal
<1>4. QED BY <1>1, <1>2, <1>3, Zenon DEF BoardInv

(* The invariant is kept by every command.                                 *)
LEMMA BoardStep ==
  ASSUME SetsCount
  PROVE  BoardInv /\ [BoardNext]_boardVars => BoardInv'
<1> SUFFICES ASSUME BoardInv, [BoardNext]_boardVars PROVE BoardInv'
  BY Zenon
<1>1. ASSUME NEW c \in LbCalls, RecordScore(c) PROVE BoardInv'
  BY <1>1, RecordKeeps, Zenon
<1>2. CASE RemovePlayer \/ ClearLeaderboard
  BY <1>2, EvictKeeps, Zenon DEF RemovePlayer, ClearLeaderboard
<1>3. NoStanding \in Standings
  BY DEF NoStanding, Standings
<1>4. ASSUME NEW c \in LbCalls, RankAfterRecord(c) \/ EndStanding(c) PROVE BoardInv'
  BY <1>3, <1>4, ReadKeeps, Zenon DEF RankAfterRecord, EndStanding, LbGo
<1>5. ASSUME NEW c \in LbCalls, GetPlayerStanding(c) PROVE BoardInv'
  <2>1. PICK p \in DOMAIN scores :
          standing' = [standing EXCEPT ![c] = [NoStanding EXCEPT !.player = p, !.score = scores[p]]]
    BY <1>5, Zenon DEF GetPlayerStanding
  <2>2. [NoStanding EXCEPT !.player = p, !.score = scores[p]] \in Standings
    BY LeaderboardAssumption, Zenon DEF BoardInv, BoardTypes, NoStanding, Standings
  <2>3. QED BY <1>5, <2>1, <2>2, ReadKeeps, Zenon DEF GetPlayerStanding, LbGo
<1>6. ASSUME NEW c \in LbCalls, ReadRank(c) PROVE BoardInv'
  <2>1. PICK p : p = standing[c].player
    BY Zenon
  <2>2. CASE p \in DOMAIN scores
    <3>1. ZRevRank(p) \in Nat /\ ZRevRank(p) + 1 \in 1 .. Cardinality(DOMAIN scores)
      BY <2>2, RankOfPlayer, Zenon DEF BoardInv
    <3>2. PICK s \in Standings :
            standing' = [standing EXCEPT ![c] = s] /\ s.rank = ZRevRank(p) + 1
      <4>1. [standing[c] EXCEPT !.rank = ZRevRank(p) + 1] \in Standings
        BY <3>1 DEF BoardInv, BoardTypes, Standings
      <4>2. QED BY <1>6, <2>1, <2>2, <4>1, Zenon DEF ReadRank, BoardInv, BoardTypes, Standings
    <3>3. QED BY <1>6, <2>1, <2>2, <3>1, <3>2, ReadKeeps, Zenon DEF ReadRank, LbGo
  <2>3. CASE p \notin DOMAIN scores
    BY <1>3, <1>6, <2>1, <2>3, ReadKeeps, Zenon DEF ReadRank, LbGo
  <2>4. QED BY <2>2, <2>3, Zenon
<1>7. ASSUME NEW c \in LbCalls, ReadTotal(c) PROVE BoardInv'
  <2>1. Cardinality(DOMAIN scores) \in Nat
    BY Zenon DEF BoardInv, BoardTypes, SetsCount
  <2>2. PICK s \in Standings :
          /\ standing' = [standing EXCEPT ![c] = s]
          /\ s.rank = standing[c].rank /\ s.total = Cardinality(DOMAIN scores)
    <3>1. [standing[c] EXCEPT !.total = Cardinality(DOMAIN scores)] \in Standings
      BY <2>1 DEF BoardInv, BoardTypes, Standings
    <3>2. QED BY <1>7, <3>1, Zenon DEF ReadTotal, BoardInv, BoardTypes, Standings
  <2>3. evictedSince[c] = TRUE \/ s.rank \in 1 .. s.total
    BY <1>7, <2>2, Zenon DEF ReadTotal, BoardInv, RankWithinBoard
  <2>4. QED BY <1>7, <2>2, <2>3, ReadKeeps, Zenon DEF ReadTotal, LbGo
<1>8. CASE UNCHANGED boardVars
  BY <1>8, Zenon DEF boardVars, BoardInv, BoardTypes, ScoresAddUp, AbsentHaveNone, RankWithinBoard,
              RankWithinTotal
<1>9. QED BY <1>1, <1>2, <1>4, <1>5, <1>6, <1>7, <1>8, Zenon DEF BoardNext

(* The board tells the scores.                                             *)
LEMMA BoardUnderCounts ==
  ASSUME SetsCount PROVE BoardSpec => []BoardTellsScores
<1>1. BoardInit => BoardInv
  <2> SUFFICES ASSUME BoardInit PROVE BoardInv
    BY Zenon
  <2>1. DOMAIN scores = {} /\ IsFiniteSet(DOMAIN scores)
    BY DEF BoardInit, SetsCount
  <2>2. NoStanding \in Standings
    BY DEF NoStanding, Standings
  <2>3. BoardTypes
    BY <2>1, <2>2 DEF BoardInit, BoardTypes
  <2>4. QED
    BY <2>1, <2>3, Zenon DEF BoardInit, BoardInv, ScoresAddUp, AbsentHaveNone, RankWithinBoard,
                      RankWithinTotal
<1>2. BoardInv => BoardTellsScores
  BY Zenon DEF BoardInv, BoardTellsScores, StandingInRange, RankWithinTotal
<1>3. QED BY <1>1, <1>2, BoardStep, PTL DEF BoardSpec

-----------------------------------------------------------------------------
(***************************************************************************)
(* The readiness probe, the in-flight counter and the drain:               *)
(* ShutdownManager.tla.                                                    *)
(***************************************************************************)

(* The requests in flight.                                                 *)
RequestsIn == {r \in ShRequests : shPc[r] = "in"}

(* The counter is the number of requests in flight, and a probe that came  *)
(* after the signal has not passed the flag.                               *)
ShutdownInv ==
  /\ isShuttingDown \in BOOLEAN
  /\ drainWait \in 0 .. ShutdownTimeout
  /\ shPc \in [ShRequests -> {"in", "out"}]
  /\ IsFiniteSet(RequestsIn)
  /\ inFlight = Cardinality(RequestsIn)
  /\ arrivedAfter \in BOOLEAN
  /\ arrivedAfter => probe \notin {"checking", "ready"}

(* The invariant is kept by requests, probes, the signal and the drain.    *)
LEMMA ShutdownStepInv ==
  ASSUME SetsCount
  PROVE  ShutdownInv /\ [ShutdownNext]_shutdownVars => ShutdownInv'
<1> SUFFICES ASSUME ShutdownInv, [ShutdownNext]_shutdownVars PROVE ShutdownInv'
  BY Zenon
<1> USE ShutdownAssumption DEF ShutdownInv
<1>1. ASSUME NEW r \in ShRequests, DispatchBegins(r) PROVE ShutdownInv'
  <2>1. r \notin RequestsIn /\ RequestsIn' = RequestsIn \cup {r}
    BY <1>1, Zenon DEF DispatchBegins, RequestsIn
  <2>2. IsFiniteSet(RequestsIn') /\ Cardinality(RequestsIn') = Cardinality(RequestsIn) + 1
    BY <2>1, Zenon DEF SetsCount
  <2> QED BY <1>1, <2>2, Zenon DEF DispatchBegins, IncrementInFlight
<1>2. ASSUME NEW r \in ShRequests, DispatchEnds(r) PROVE ShutdownInv'
  <2>1. r \in RequestsIn /\ RequestsIn' = RequestsIn \ {r}
    BY <1>2, Zenon DEF DispatchEnds, RequestsIn
  <2>2. IsFiniteSet(RequestsIn') /\ Cardinality(RequestsIn') = Cardinality(RequestsIn) - 1
    BY <2>1, Zenon DEF SetsCount
  <2>3. inFlight \in Nat /\ inFlight' \in Nat
    BY <2>2, <1>2 DEF DispatchEnds, DecrementInFlight, SetsCount
  <2>4. inFlight # 0
    BY <2>1, Zenon DEF SetsCount
  <2> QED BY <1>2, <2>2, <2>3, <2>4, Zenon DEF DispatchEnds, DecrementInFlight
<1>3. CASE InitiateShutdown \/ LifespanEnds \/ DisposePools
  <2>1. UNCHANGED <<inFlight, drainWait, shPc, probe, arrivedAfter>> /\ RequestsIn' = RequestsIn
    BY <1>3, Zenon DEF InitiateShutdown, LifespanEnds, DisposePools, RequestsIn
  <2>2. isShuttingDown' \in BOOLEAN
    BY <1>3, Zenon DEF InitiateShutdown, LifespanEnds, DisposePools
  <2> QED BY <2>1, <2>2, Zenon
<1>4. CASE WaitForDrain
  BY <1>4 DEF WaitForDrain, RequestsIn
<1>5. CASE ReadinessProbe \/ CheckReadiness \/ ProbeAnswered
  <2>1. UNCHANGED <<isShuttingDown, inFlight, drainWait, shPc>> /\ RequestsIn' = RequestsIn
    BY <1>5, Zenon DEF ReadinessProbe, CheckReadiness, ProbeAnswered, RequestsIn
  <2>2. arrivedAfter' \in BOOLEAN /\ (arrivedAfter' => probe' \notin {"checking", "ready"})
    <3>1. CASE ReadinessProbe
      BY <3>1, Zenon DEF ReadinessProbe
    <3>2. CASE CheckReadiness
      BY <3>2, Zenon DEF CheckReadiness
    <3>3. CASE ProbeAnswered
      BY <3>3, Zenon DEF ProbeAnswered
    <3> QED BY <1>5, <3>1, <3>2, <3>3, Zenon
  <2> QED BY <2>1, <2>2, Zenon
<1>6. CASE UNCHANGED shutdownVars
  BY <1>6, Zenon DEF shutdownVars, RequestsIn
<1> QED BY <1>1, <1>2, <1>3, <1>4, <1>5, <1>6, Zenon DEF ShutdownNext

(* A step into the disposal finds the counter at zero, so nobody in        *)
(* flight, or the whole timeout waited.                                    *)
LEMMA DisposalIsLate ==
  ASSUME SetsCount, ShutdownInv, ShutdownNext, Serving, lifePhase' = "disposing"
  PROVE  \/ \A r \in ShRequests : shPc[r] = "out"
         \/ lifePhase = "draining" /\ drainWait = ShutdownTimeout
<1>1. inFlight = 0 => \A r \in ShRequests : shPc[r] = "out"
  <2> SUFFICES ASSUME inFlight = 0 PROVE RequestsIn = {}
    BY Zenon DEF ShutdownInv, RequestsIn
  <2> QED BY Zenon DEF ShutdownInv, SetsCount
<1>2. inFlight = 0 \/ (lifePhase = "draining" /\ drainWait >= ShutdownTimeout)
  BY Zenon DEF ShutdownNext, DispatchBegins, DispatchEnds, InitiateShutdown, LifespanEnds,
         WaitForDrain, DisposePools, ReadinessProbe, CheckReadiness, ProbeAnswered, Serving
<1> QED BY <1>1, <1>2, ShutdownAssumption DEF ShutdownInv

(* The drain protects the requests in flight.                              *)
LEMMA ShutdownUnderCounts ==
  ASSUME SetsCount PROVE ShutdownSpec => DrainProtects
<1>1. ShutdownInit => ShutdownInv
  <2> SUFFICES ASSUME ShutdownInit PROVE ShutdownInv
    BY Zenon
  <2>1. RequestsIn = {}
    BY Zenon DEF ShutdownInit, RequestsIn
  <2>2. isShuttingDown \in BOOLEAN /\ arrivedAfter \in BOOLEAN /\ ~arrivedAfter
    BY Zenon DEF ShutdownInit
  <2>3. drainWait \in 0 .. ShutdownTimeout /\ shPc \in [ShRequests -> {"in", "out"}]
    BY ShutdownAssumption DEF ShutdownInit
  <2>4. IsFiniteSet(RequestsIn) /\ inFlight = Cardinality(RequestsIn)
    BY <2>1, Zenon DEF ShutdownInit, SetsCount
  <2> QED BY <2>2, <2>3, <2>4, Zenon DEF ShutdownInv
<1>2. ShutdownInv => CounterIsRequestsInFlight /\ CutoffHoldsForNewProbes
  BY Zenon DEF ShutdownInv, CounterIsRequestsInFlight, CutoffHoldsForNewProbes, RequestsIn
<1>3. ShutdownInv /\ [ShutdownNext]_shutdownVars =>
        [Serving /\ lifePhase' = "disposing" =>
           \/ \A r \in ShRequests : shPc[r] = "out"
           \/ lifePhase = "draining" /\ drainWait = ShutdownTimeout]_shutdownVars
  BY DisposalIsLate, Zenon
<1> QED BY <1>1, <1>2, <1>3, ShutdownStepInv, PTL
        DEF ShutdownSpec, DrainProtects, DisposedUnderRequestOnlyLate

-----------------------------------------------------------------------------
(***************************************************************************)
(* The theorems, with the library's facts about finite sets.               *)
(***************************************************************************)

INSTANCE FiniteSetTheorems

(* A set of natural numbers has a least element.                           *)
LEMMA LeastOfNaturals ==
  ASSUME NEW S, S \subseteq Nat, S # {}
  PROVE  \E n \in S : \A m \in S : n <= m
<1>1. PICK Less : IsWellFoundedOn(Less, Nat) /\ \A m, n \in Nat : m < n => <<m, n>> \in Less
  <2>1. \A m, n \in Nat : m < n => <<m, n>> \in OpToRel(<, Nat)
    BY Zenon DEF OpToRel
  <2>2. QED BY <2>1, NatLessThanWellFounded, Zenon
<1>2. IsWellFoundedOn(Less, Nat)
  BY <1>1, Zenon
<1>3. \E n \in S : \A m \in S : ~(<<m, n>> \in Less)
  BY <1>2, WFMin, Zenon
<1>4. PICK n \in S : \A m \in S : <<m, n>> \notin Less
  BY <1>3, Zenon
<1>5. \A m \in S : ~(m < n)
  BY <1>1, <1>4, Zenon
<1>6. QED BY <1>5

(* The facts hold of all sets.                                             *)
LEMMA SetsDoCount == SetsCount
<1>1. /\ IsFiniteSet({}) /\ Cardinality({}) = 0
      /\ \A S : IsFiniteSet(S) => Cardinality(S) \in Nat /\ (Cardinality(S) = 0 => S = {})
  BY FS_EmptySet, FS_CardinalityType, Zenon
<1>2. \A S, T : IsFiniteSet(S) /\ T \subseteq S => IsFiniteSet(T) /\ Cardinality(T) <= Cardinality(S)
  BY FS_Subset, Zenon
<1>3. \A S : S \subseteq Nat /\ S # {} => \E n \in S : \A m \in S : n <= m
  BY LeastOfNaturals, Zenon
<1> QED BY <1>1, <1>2, <1>3, FS_AddElement, FS_RemoveElement, Zenon DEF SetsCount

(* For any number of requests, keys and bodies: the endpoint implements    *)
(* OnceOnly, so a key is charged a second time only after its record was   *)
(* lost, and every replay reports a charge made for that key and that      *)
(* body.                                                                   *)
THEOREM ChargeTheorem == ChargeSpec => ChargeIsOnceOnly
BY SetsDoCount, ChargeUnderCounts, Zenon

(* For any number of jobs, workers, priorities and delays: every scheduled *)
(* job is in the heap or has run once, when it was due, and runs follow    *)
(* priority, due time and number but for jobs scheduled later.             *)
THEOREM JobTheorem == JobSpec => []JobsRunOnceInOrder
BY SetsDoCount, JobUnderCounts, Zenon

(* For any number of players and requests: scores are the sums of what was *)
(* recorded, and a standing read by several commands has a rank within its *)
(* total unless somebody was removed in between.                           *)
THEOREM BoardTheorem == BoardSpec => []BoardTellsScores
BY SetsDoCount, BoardUnderCounts

(* For any number of requests and any timeout: the counter is true, probes *)
(* that come after the signal are turned away, and the pools are disposed  *)
(* under a request only after the whole timeout.                           *)
THEOREM ShutdownTheorem == ShutdownSpec => DrainProtects
BY SetsDoCount, ShutdownUnderCounts, Zenon
=============================================================================
