--------------------------- MODULE FraudVelocity ----------------------------
(***************************************************************************)
(* FraudDetectionService for one source account: transfers are screened    *)
(* against the blacklist, scored on the velocity window Redis keeps, and   *)
(* recorded in it only after they are committed.  Screening, purging,      *)
(* reading and recording are separate Redis commands of concurrent         *)
(* requests, each of which may fail; the in-memory fallbacks live in a     *)
(* service object made for the request and are empty in the next one.      *)
(***************************************************************************)
EXTENDS Integers, FiniteSets, FiniteSetsExt

CONSTANTS
  Transfers,     \* transfers out of the account
  AmountOf,      \* their amounts
  BurstCount,    \* BURST_COUNT_THRESHOLD
  BurstVolume,   \* BURST_VOLUME_THRESHOLD
  SpikeAmount,   \* SPIKE_AMOUNT_THRESHOLD
  VelocityWindow,\* DEFAULT_VELOCITY_WINDOW_SECONDS
  MaxFraudTime   \* bound: ticks of the clock

ASSUME FraudAssumption ==
  /\ AmountOf \in [Transfers -> Nat \ {0}]
  /\ {BurstCount, BurstVolume, SpikeAmount, VelocityWindow, MaxFraudTime} \subseteq Nat

VARIABLES
  fraudNow,    \* time.time()
  frPc,        \* where a transfer is
  listed,      \* the destination is in blacklist:accounts
  refused,     \* is_account_blacklisted() of a transfer
  velocity,    \* velocity:transfers:<source>: transfer and score
  recorded,    \* history: every record Redis took
  lookback,    \* history: the shortest window anyone purged with
  known,       \* history: records in the window when a transfer was scored
  warned       \* history: the blacklisting was acknowledged and Redis took it

fraudVars == <<fraudNow, frPc, listed, refused, velocity, recorded, lookback,
               known, warned>>

FraudInit ==
  /\ fraudNow = 0
  /\ frPc = [t \in Transfers |-> "idle"]
  /\ listed = FALSE
  /\ refused = [t \in Transfers |-> FALSE]
  /\ velocity = {}
  /\ recorded = {}
  /\ lookback = VelocityWindow
  /\ known = [t \in Transfers |-> {}]
  /\ warned = [t \in Transfers |-> FALSE]

FrGo(t, l) == frPc' = [frPc EXCEPT ![t] = l]

FraudTick ==
  /\ fraudNow < MaxFraudTime
  /\ fraudNow' = fraudNow + 1
  /\ UNCHANGED <<frPc, listed, refused, velocity, recorded, lookback, known, warned>>

(* blacklist_account().  When SADD fails the answer is still 200, but only *)
(* the object of this request remembers the account, and nothing changes.  *)
BlacklistAccount ==
  /\ listed' = TRUE
  /\ UNCHANGED <<fraudNow, frPc, refused, velocity, recorded, lookback, known, warned>>

UnblacklistAccount ==
  /\ listed' = FALSE
  /\ UNCHANGED <<fraudNow, frPc, refused, velocity, recorded, lookback, known, warned>>

(* is_account_blacklisted(): SISMEMBER, taken for no when it fails. *)
ScreenDestination(t) ==
  /\ frPc[t] = "idle"
  /\ \/ /\ refused' = [refused EXCEPT ![t] = listed]
        /\ warned' = [warned EXCEPT ![t] = listed]
     \/ UNCHANGED <<refused, warned>>
  /\ FrGo(t, "purge")
  /\ UNCHANGED <<fraudNow, listed, velocity, recorded, lookback, known>>

Records(from) == {r \in recorded : r.score > from}
Volume(rs) == FoldSet(LAMBDA r, acc : AmountOf[r.transfer] + acc, 0, rs)

(* Mutation of PurgeWindow: it also drops what is inside the window. *)
MutPurgeWindow(w) == velocity' = {r \in velocity : r.score > fraudNow - w + 1}

(* ZREMRANGEBYSCORE -inf window_start of get_account_velocity(). *)
PurgeWindow(w) == velocity' = {r \in velocity : r.score > fraudNow - w}

PurgeVelocity(t) ==
  /\ frPc[t] = "purge"
  /\ \/ PurgeWindow(VelocityWindow) /\ FrGo(t, "read")
     \/ FrGo(t, "unread") /\ UNCHANGED velocity
  /\ UNCHANGED <<fraudNow, listed, refused, recorded, lookback, known, warned>>

(* The score of evaluate_transfer(). *)
RiskScore(black, count, volume, amount) ==
  (IF black THEN 100 ELSE 0)
    + (IF count >= BurstCount THEN 40 ELSE 0)
    + (IF volume + amount > BurstVolume THEN 40 ELSE 0)
    + (IF amount >= SpikeAmount THEN 30 ELSE 0)

(* The decision policy: 70 and more is refused. *)
Rejects(score) == score >= 70

(* ZRANGE of get_account_velocity() and the decision. *)
EvaluateTransfer(t) ==
  /\ frPc[t] \in {"read", "unread"}
  /\ LET seen == IF frPc[t] = "read" THEN velocity ELSE {}
         score == RiskScore(refused[t], Cardinality(seen), Volume(seen), AmountOf[t])
     IN FrGo(t, IF Rejects(score) THEN "rejected" ELSE "accepted")
  /\ known' = [known EXCEPT ![t] =
                 IF frPc[t] = "read" THEN Records(fraudNow - lookback) ELSE {}]
  /\ UNCHANGED <<fraudNow, listed, refused, velocity, recorded, lookback, warned>>

(* The transfer commits, and record_successful_transfer() writes ZADD;     *)
(* when Redis fails the record goes to the object and is lost with it.     *)
RecordSuccessfulTransfer(t) ==
  /\ frPc[t] = "accepted"
  /\ FrGo(t, "done")
  /\ \/ /\ velocity' = velocity \cup {[transfer |-> t, score |-> fraudNow]}
        /\ recorded' = recorded \cup {[transfer |-> t, score |-> fraudNow]}
     \/ UNCHANGED <<velocity, recorded>>
  /\ UNCHANGED <<fraudNow, listed, refused, lookback, known, warned>>

(* GET /ledger/fraud/velocity purges with the window it was asked for. *)
InspectVelocity(w) ==
  /\ PurgeWindow(w)
  /\ lookback' = Min({lookback, w})
  /\ UNCHANGED <<fraudNow, frPc, listed, refused, recorded, known, warned>>

FraudNext ==
  \/ FraudTick \/ BlacklistAccount \/ UnblacklistAccount
  \/ \E w \in 1..(VelocityWindow + 1) : InspectVelocity(w)
  \/ \E t \in Transfers :
       \/ ScreenDestination(t) \/ PurgeVelocity(t)
       \/ EvaluateTransfer(t) \/ RecordSuccessfulTransfer(t)

FraudSpec == FraudInit /\ [][FraudNext]_fraudVars

-----------------------------------------------------------------------------

(* The window forgets no record too early: what was recorded within the    *)
(* lookback is there, unless someone inspected the account with a shorter  *)
(* window, which erases the rest for the scoring too.                      *)
VelocityRemembers == Records(fraudNow - lookback) \subseteq velocity

(* A transfer is let through a burst only on what it could not know:       *)
(* transfers that were accepted but not yet recorded when it was scored,   *)
(* records Redis lost, or records an inspection had erased.  On the        *)
(* records of the window, count and volume together always refuse it, and  *)
(* so does a blacklisted destination that Redis reported.                  *)
BurstsRefused ==
  \A t \in Transfers : frPc[t] \in {"accepted", "done"} =>
    /\ Cardinality(known[t]) < BurstCount \/ Volume(known[t]) + AmountOf[t] <= BurstVolume
    /\ ~warned[t]

(* Screening holds: the window remembers, and what it remembers refuses a  *)
(* burst.                                                                  *)
ScreeningHolds == VelocityRemembers /\ BurstsRefused
=============================================================================
