-------------------------- MODULE IdempotentCharge --------------------------
(***************************************************************************)
(* POST /payments/charge: the endpoint, the IdempotencyManager record it   *)
(* keeps in Redis and the charge itself.  process_charge() never suspends, *)
(* so the charge belongs to the step that took the key.  A Redis command   *)
(* may raise whether or not it was applied, and a call may be cancelled    *)
(* at any await: `except Exception` does not see the cancellation.         *)
(***************************************************************************)
EXTENDS Naturals, FiniteSets

CONSTANTS
  ChargeCalls,  \* requests; a client's retry is another request
  IdemKeys,     \* Idempotency-Key header values
  Bodies,       \* request hashes
  NoBody        \* the missing request_hash of a FAILED record

ASSUME ChargeAssumption == NoBody \notin Bodies

VARIABLES
  chPc,      \* where a request is
  chArg,     \* its key and its hash
  idemRec,   \* the record under idempotency:<key>
  charged,   \* requests whose charge was made
  chAnswer,  \* the response: its kind and the charge it reports
  lost       \* history: keys whose record expired or was set to FAILED

chargeVars == <<chPc, chArg, idemRec, charged, chAnswer, lost>>

NoRecord == [state |-> "none", hash |-> NoBody, by |-> "nobody"]
InProgress(w) == [state |-> "IN_PROGRESS", hash |-> chArg[w].body, by |-> w]
CompletedBy(w) == [state |-> "COMPLETED", hash |-> chArg[w].body, by |-> w]
FailedRecord == [state |-> "FAILED", hash |-> NoBody, by |-> "nobody"]

KeyOf(w) == chArg[w].key
RecordOf(w) == idemRec[KeyOf(w)]
PutRecord(w, r) == idemRec' = [idemRec EXCEPT ![KeyOf(w)] = r]

ChargeInit ==
  /\ chPc = [w \in ChargeCalls |-> "idle"]
  /\ chArg = [w \in ChargeCalls |-> [key |-> "none", body |-> NoBody]]
  /\ idemRec = [k \in IdemKeys |-> NoRecord]
  /\ charged = {}
  /\ chAnswer = [w \in ChargeCalls |-> [kind |-> "none", from |-> "nobody"]]
  /\ lost = {}

Answer(w, kind, from) ==
  /\ chPc' = [chPc EXCEPT ![w] = "done"]
  /\ chAnswer' = [chAnswer EXCEPT ![w] = [kind |-> kind, from |-> from]]

ArriveCharge(w) ==
  /\ chPc[w] = "idle"
  /\ chPc' = [chPc EXCEPT ![w] = "acquire"]
  /\ \E k \in IdemKeys, b \in Bodies :
       chArg' = [chArg EXCEPT ![w] = [key |-> k, body |-> b]]
  /\ UNCHANGED <<idemRec, charged, chAnswer, lost>>

(* check_or_acquire() returned False: the gateway is charged at once. *)
ProcessCharge(w) ==
  /\ charged' = charged \cup {w}
  /\ chPc' = [chPc EXCEPT ![w] = "record"]
  /\ UNCHANGED chAnswer

(* A plain or NX SET of the IN_PROGRESS record whose reply may be lost. *)
TakeKey(w) ==
  /\ PutRecord(w, InProgress(w))
  /\ \/ ProcessCharge(w)
     \/ Answer(w, "error", "nobody") /\ UNCHANGED charged

(* Mutation of KeyFree: the SET is sent without NX. *)
MutKeyFree(w) == TRUE

KeyFree(w) == RecordOf(w) = NoRecord

AcquireKey(w) ==
  /\ chPc[w] = "acquire"
  /\ \/ KeyFree(w) /\ TakeKey(w)
     \/ /\ ~KeyFree(w)
        /\ chPc' = [chPc EXCEPT ![w] = "inspect"]
        /\ UNCHANGED <<idemRec, charged, chAnswer>>
     \/ /\ Answer(w, "error", "nobody")
        /\ UNCHANGED <<idemRec, charged>>
  /\ UNCHANGED <<chArg, lost>>

Tampered(w) == RecordOf(w).hash \notin {NoBody, chArg[w].body}

(* GET of the record that made SET NX fail; it may have expired since. *)
InspectRecord(w) ==
  /\ chPc[w] = "inspect"
  /\ \/ Tampered(w) /\ Answer(w, "tampered", "nobody")
     \/ /\ ~Tampered(w) /\ RecordOf(w).state = "IN_PROGRESS"
        /\ Answer(w, "conflict", "nobody")
     \/ /\ ~Tampered(w) /\ RecordOf(w).state = "COMPLETED"
        /\ Answer(w, "replayed", RecordOf(w).by)
     \/ /\ RecordOf(w).state \in {"none", "FAILED"}
        /\ chPc' = [chPc EXCEPT ![w] = "overwrite"]
        /\ UNCHANGED chAnswer
     \/ Answer(w, "error", "nobody")
  /\ UNCHANGED <<chArg, idemRec, charged, lost>>

(* The unconditional SET after an expired or FAILED record. *)
OverwriteRecord(w) ==
  /\ chPc[w] = "overwrite"
  /\ \/ TakeKey(w)
     \/ Answer(w, "error", "nobody") /\ UNCHANGED <<idemRec, charged>>
  /\ UNCHANGED <<chArg, lost>>

RecordSuccess(w) ==
  /\ chPc[w] = "record"
  /\ \/ PutRecord(w, CompletedBy(w)) /\ Answer(w, "created", w)
     \/ /\ PutRecord(w, CompletedBy(w)) \/ UNCHANGED idemRec
        /\ \/ chPc' = [chPc EXCEPT ![w] = "fail"] /\ UNCHANGED chAnswer
           \/ Answer(w, "cancelled", "nobody")
  /\ UNCHANGED <<chArg, charged, lost>>

(* record_failure(): reached only when record_success() raised, that is    *)
(* after the charge was made.                                              *)
RecordFailure(w) ==
  /\ chPc[w] = "fail"
  /\ \/ PutRecord(w, FailedRecord) /\ lost' = lost \cup {KeyOf(w)}
     \/ UNCHANGED <<idemRec, lost>>
  /\ Answer(w, "error", "nobody")
  /\ UNCHANGED <<chArg, charged>>

(* A day is longer than any request: only the record of a request that     *)
(* has ended elapses.                                                      *)
ExpireRecord(k) ==
  /\ idemRec[k] # NoRecord
  /\ \A w \in ChargeCalls : chPc[w] \in {"record", "fail"} => KeyOf(w) # k
  /\ idemRec' = [idemRec EXCEPT ![k] = NoRecord]
  /\ lost' = lost \cup {k}
  /\ UNCHANGED <<chPc, chArg, charged, chAnswer>>

ChargeStep(w) ==
  \/ ArriveCharge(w) \/ AcquireKey(w) \/ InspectRecord(w)
  \/ OverwriteRecord(w) \/ RecordSuccess(w) \/ RecordFailure(w)

ChargeNext ==
  \/ \E w \in ChargeCalls : ChargeStep(w)
  \/ \E k \in IdemKeys : ExpireRecord(k)

ChargeSpec == ChargeInit /\ [][ChargeNext]_chargeVars

-----------------------------------------------------------------------------

ChargesOf(k) == {w \in charged : KeyOf(w) = k}

Once == INSTANCE OnceOnly
          WITH Ops <- IdemKeys,
               done <- [k \in IdemKeys |-> Cardinality(ChargesOf(k))],
               forgotten <- lost

(* A replayed response reports a charge that was made, for the same key    *)
(* and the same request body, whatever expired, failed or raced meanwhile. *)
ReplayIsOwnCharge ==
  \A w \in ChargeCalls :
    chAnswer[w].kind = "replayed" =>
      /\ chAnswer[w].from \in charged
      /\ chArg[chAnswer[w].from] = chArg[w]

(* One charge per Idempotency-Key until its record is lost: the endpoint   *)
(* implements OnceOnly.  The key is charged again only after its record    *)
(* expired, or after record_success() failed behind a charge that was made *)
(* and record_failure() invited the retry.  A replay reports such a charge. *)
ChargeIsOnceOnly == Once!OnceSpec /\ []ReplayIsOwnCharge
=============================================================================
