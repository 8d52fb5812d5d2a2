---------------------------- MODULE RelayProofs -----------------------------
(***************************************************************************)
(* The rest of the inductive invariant of OutboxRelay: CountInv, which     *)
(* bounds every count of failures by the refusals met, and the theorem     *)
(* about what the relays deliver. At the end, the instances that TLC       *)
(* checks.                                                                 *)
(***************************************************************************)
EXTENDS OutboxRelay

(* The counts of one event, as numbers. *)
LEMMA CountNumbers ==
  ASSUME RelayTypes, NEW e \in Events
  PROVE  /\ refused[e] \in Nat /\ row[e].retries \in Nat /\ MaxRetries \in Nat \ {0}
         /\ \A r \in Relays : /\ seen[r].retries \in Nat
                              /\ write[r][e].retries \in Nat \cup {-1}
BY RelayAssumption DEF RelayTypes, Rows, Writes

(* Fewer refusals are uncounted in a subset.                               *)
LEMMA FewerUncounted ==
  ASSUME SetsCount, NEW S, NEW T, IsFiniteSet(S), T \subseteq S
  PROVE  IsFiniteSet(T) /\ Cardinality(T) <= Cardinality(S)
         /\ Cardinality(T) \in Nat /\ Cardinality(S) \in Nat
BY Zenon DEF SetsCount

(* One refusal more is uncounted.                                          *)
LEMMA OneMoreUncounted ==
  ASSUME SetsCount, NEW S, NEW x, IsFiniteSet(S)
  PROVE  IsFiniteSet(S \cup {x}) /\ Cardinality(S \cup {x}) <= Cardinality(S) + 1
         /\ Cardinality(S \cup {x}) \in Nat /\ Cardinality(S) \in Nat
<1>1. /\ IsFiniteSet(S \cup {x}) /\ Cardinality(S) \in Nat
      /\ Cardinality(S \cup {x}) = IF x \in S THEN Cardinality(S) ELSE Cardinality(S) + 1
  BY Zenon DEF SetsCount
<1> QED BY <1>1

(* One refusal less is uncounted.                                          *)
LEMMA OneLessUncounted ==
  ASSUME SetsCount, NEW S, NEW x \in S, IsFiniteSet(S)
  PROVE  IsFiniteSet(S \ {x}) /\ Cardinality(S \ {x}) = Cardinality(S) - 1
         /\ Cardinality(S \ {x}) \in Nat /\ Cardinality(S) \in Nat
<1>1. /\ IsFiniteSet(S \ {x}) /\ Cardinality(S \ {x}) \in Nat /\ Cardinality(S) \in Nat
      /\ Cardinality(S \ {x}) = IF x \in S THEN Cardinality(S) - 1 ELSE Cardinality(S)
  BY Zenon DEF SetsCount
<1> QED BY <1>1, Zenon

(* A step after which no more refusals are uncounted, and which reads and   *)
(* writes no count but the committed one.                                  *)
LEMMA CountsLeftAlone ==
  ASSUME SetsCount, RelayTypes, RelayTypes', NEW e \in Events, CountsBehind(e),
         refused'[e] = refused[e], Uncounted(e)' \subseteq Uncounted(e),
         row'[e].retries = row[e].retries, row'[e].status = "FAILED" => row[e].status = "FAILED",
         \A r \in Relays : rpc'[r] = "set_failed" /\ Current(r, e)' =>
            \/ rpc[r] = "set_failed" /\ Current(r, e) /\ seen'[r] = seen[r]
            \/ seen'[r] = row[e],
         \A r \in Relays : \/ write'[r][e] = write[r][e]
                           \/ write'[r][e].retries = -1 /\ write'[r][e].status # "FAILED"
  PROVE  CountsBehind(e)'
<1> SUFFICES ASSUME refused'[e] < MaxRetries PROVE CountsBehind(e)'
  BY Zenon DEF CountsBehind
<1> DEFINE u == Cardinality(Uncounted(e))
           v == Cardinality(Uncounted(e)')
<1>1. /\ IsFiniteSet(Uncounted(e))
      /\ row[e].status # "FAILED" /\ row[e].retries + u <= refused[e]
      /\ \A r \in Relays :
           /\ rpc[r] = "set_failed" /\ Current(r, e) => seen[r].retries + u <= refused[e]
           /\ write[r][e].retries # -1 => write[r][e].retries + u <= refused[e] + 1
           /\ write[r][e].status # "FAILED"
  BY Zenon DEF CountsBehind
<1>2. IsFiniteSet(Uncounted(e)') /\ v <= u /\ v \in Nat /\ u \in Nat
  BY <1>1, FewerUncounted, Zenon
<1> HIDE DEF u, v
<1>3. /\ refused[e] \in Nat /\ row[e].retries \in Nat
      /\ \A r \in Relays : seen[r].retries \in Nat /\ write[r][e].retries \in Nat \cup {-1}
  BY CountNumbers, Zenon
<1>4. row'[e].status # "FAILED" /\ row'[e].retries + v <= refused'[e]
  BY <1>1, <1>2, <1>3
<1>5. ASSUME NEW r \in Relays, rpc'[r] = "set_failed", Current(r, e)'
      PROVE  seen'[r].retries + v <= refused'[e]
  <2>1. CASE rpc[r] = "set_failed" /\ Current(r, e) /\ seen'[r] = seen[r]
    <3>1. seen[r].retries + u <= refused[e]
      BY <1>1, <2>1, Zenon
    <3> QED BY <1>2, <1>3, <2>1, <3>1
  <2>2. CASE seen'[r] = row[e]
    BY <1>1, <1>2, <1>3, <2>2
  <2> QED BY <1>5, <2>1, <2>2, Zenon
<1>6. ASSUME NEW r \in Relays
      PROVE  /\ write'[r][e].retries # -1 => write'[r][e].retries + v <= refused'[e] + 1
             /\ write'[r][e].status # "FAILED"
  <2>1. CASE write'[r][e] = write[r][e]
    <3>1. /\ write[r][e].retries # -1 => write[r][e].retries + u <= refused[e] + 1
          /\ write[r][e].status # "FAILED"
      BY <1>1, Zenon
    <3>2. write[r][e].retries \in Nat \cup {-1} /\ refused[e] \in Nat
      BY <1>3, Zenon
    <3>3. write[r][e].retries # -1 => write[r][e].retries + v <= refused[e] + 1
      BY <1>2, <3>1, <3>2
    <3> QED BY <2>1, <3>1, <3>3, Zenon
  <2> QED BY <2>1, Zenon
<1> QED BY <1>2, <1>4, <1>5, <1>6, Zenon DEF v, CountsBehind

(* A refusal is counted with the relay that met it. *)
LEMMA RefusalCounted ==
  ASSUME SetsCount, RelayTypes, RelayTypes', NEW e \in Events, CountsBehind(e),
         NEW r \in Relays, rpc[r] = "send", rpc' = [rpc EXCEPT ![r] = "failed"], Current(r, e),
         refused' = [refused EXCEPT ![e] = IF @ < MaxRetries THEN @ + 1 ELSE @],
         UNCHANGED <<row, batch, seen, write>>
  PROVE  CountsBehind(e)'
<1> SUFFICES ASSUME refused'[e] < MaxRetries PROVE CountsBehind(e)'
  BY Zenon DEF CountsBehind
<1> DEFINE u == Cardinality(Uncounted(e))
           v == Cardinality(Uncounted(e)')
<1>3. /\ refused[e] \in Nat /\ row[e].retries \in Nat /\ MaxRetries \in Nat
      /\ \A q \in Relays : seen[q].retries \in Nat /\ write[q][e].retries \in Nat \cup {-1}
  BY CountNumbers, Zenon
<1>0. refused'[e] = refused[e] + 1 /\ refused[e] < MaxRetries
  BY <1>3, Zenon DEF RelayTypes
<1>1. /\ IsFiniteSet(Uncounted(e))
      /\ row[e].status # "FAILED" /\ row[e].retries + u <= refused[e]
      /\ \A q \in Relays :
           /\ rpc[q] = "set_failed" /\ Current(q, e) => seen[q].retries + u <= refused[e]
           /\ write[q][e].retries # -1 => write[q][e].retries + u <= refused[e] + 1
           /\ write[q][e].status # "FAILED"
  BY <1>0, Zenon DEF CountsBehind
<1>2. IsFiniteSet(Uncounted(e)') /\ v <= u + 1 /\ v \in Nat /\ u \in Nat
  <2>1. Uncounted(e)' = Uncounted(e) \cup {r}
    BY DEF Uncounted, Current, RelayTypes
  <2> QED BY <1>1, <2>1, OneMoreUncounted, Zenon
<1> HIDE DEF u, v
<1>4. row'[e].status # "FAILED" /\ row'[e].retries + v <= refused'[e]
  <2>1. row[e].retries + u <= refused[e] /\ row[e].retries \in Nat /\ refused[e] \in Nat
    BY <1>1, <1>3, Zenon
  <2>2. row[e].retries + v <= refused[e] + 1
    BY <1>2, <2>1
  <2> QED BY <1>0, <1>1, <2>2, Zenon
<1>5. ASSUME NEW q \in Relays, rpc'[q] = "set_failed", Current(q, e)'
      PROVE  seen'[q].retries + v <= refused'[e]
  <2>1. rpc[q] = "set_failed" /\ Current(q, e) /\ seen'[q] = seen[q]
    BY <1>5, Zenon DEF Current, RelayTypes
  <2>2. seen[q].retries + u <= refused[e]
    BY <1>1, <2>1, Zenon
  <2> QED BY <1>0, <1>2, <1>3, <2>1, <2>2
<1>6. ASSUME NEW q \in Relays
      PROVE  /\ write'[q][e].retries # -1 => write'[q][e].retries + v <= refused'[e] + 1
             /\ write'[q][e].status # "FAILED"
  <2>1. /\ write[q][e].retries # -1 => write[q][e].retries + u <= refused[e] + 1
        /\ write[q][e].status # "FAILED"
    BY <1>1, Zenon
  <2>2. write[q][e].retries \in Nat \cup {-1} /\ refused[e] \in Nat
    BY <1>3, Zenon
  <2>3. write[q][e].retries # -1 => write[q][e].retries + v <= refused[e] + 1 + 1
    BY <1>2, <2>1, <2>2
  <2> QED BY <1>0, <2>1, <2>3, Zenon
<1> QED BY <1>2, <1>4, <1>5, <1>6, Zenon DEF v, CountsBehind

(* The count that mark_failed() writes is the one it read and one more: its *)
(* own refusal, until now uncounted.                                       *)
LEMMA FailureWritten ==
  ASSUME SetsCount, RelayTypes, RelayTypes', NEW e \in Events, CountsBehind(e),
         NEW r \in Relays, rpc[r] = "set_failed", Marks(r, e)
  PROVE  CountsBehind(e)'
<1> SUFFICES ASSUME refused'[e] < MaxRetries PROVE CountsBehind(e)'
  BY Zenon DEF CountsBehind
<1> DEFINE u == Cardinality(Uncounted(e))
           v == Cardinality(Uncounted(e)')
<1>0. /\ UNCHANGED <<row, refused>> /\ Current(r, e)
      /\ write' = [write EXCEPT ![r][e] = FailedColumns(r)]
      /\ rpc'[r] \in {"commit", "send"}
      /\ \A q \in Relays : q # r =>
           rpc'[q] = rpc[q] /\ batch'[q] = batch[q] /\ seen'[q] = seen[q] /\ write'[q] = write[q]
  BY DEF Marks, RelayTypes
<1>3. /\ refused[e] \in Nat /\ row[e].retries \in Nat /\ MaxRetries \in Nat
      /\ \A q \in Relays : seen[q].retries \in Nat /\ write[q][e].retries \in Nat \cup {-1}
  BY CountNumbers, Zenon
<1>1. /\ IsFiniteSet(Uncounted(e))
      /\ row[e].status # "FAILED" /\ row[e].retries + u <= refused[e]
      /\ \A q \in Relays :
           /\ rpc[q] = "set_failed" /\ Current(q, e) => seen[q].retries + u <= refused[e]
           /\ write[q][e].retries # -1 => write[q][e].retries + u <= refused[e] + 1
           /\ write[q][e].status # "FAILED"
  BY <1>0, Zenon DEF CountsBehind
<1>2. /\ write'[r][e] = FailedColumns(r) /\ write'[r][e].retries = seen[r].retries + 1
      /\ write'[r][e].status = "FAILED" => seen[r].retries + 1 >= MaxRetries
  <2>1. write'[r][e] = FailedColumns(r)
    BY <1>0 DEF RelayTypes
  <2> QED BY <2>1, ColumnTypes, Zenon
<1>4. r \in Uncounted(e) /\ Uncounted(e)' \subseteq Uncounted(e)
  BY <1>0, Zenon DEF Uncounted, Current
<1>5. IsFiniteSet(Uncounted(e)') /\ v <= u /\ v \in Nat /\ u \in Nat /\ u >= 1
  <2>1. IsFiniteSet(Uncounted(e)') /\ v <= u /\ v \in Nat /\ u \in Nat
    BY <1>1, <1>4, FewerUncounted, Zenon
  <2>2. u # 0
    BY <1>1, <1>4, Zenon DEF SetsCount
  <2> QED BY <2>1, <2>2
<1> HIDE DEF u, v
<1>6. seen[r].retries + u <= refused[e] /\ seen[r].retries \in Nat
  BY <1>0, <1>1, <1>3, Zenon
<1>7. row'[e].status # "FAILED" /\ row'[e].retries + v <= refused'[e]
  BY <1>0, <1>1, <1>3, <1>5
<1>8. ASSUME NEW q \in Relays, rpc'[q] = "set_failed", Current(q, e)'
      PROVE  seen'[q].retries + v <= refused'[e]
  <2>1. q # r /\ rpc[q] = "set_failed" /\ Current(q, e) /\ seen'[q] = seen[q]
    BY <1>0, <1>8, Zenon DEF Current
  <2>2. seen[q].retries + u <= refused[e]
    BY <1>1, <2>1, Zenon
  <2> QED BY <1>0, <1>3, <1>5, <2>1, <2>2
<1>9. ASSUME NEW q \in Relays
      PROVE  /\ write'[q][e].retries # -1 => write'[q][e].retries + v <= refused'[e] + 1
             /\ write'[q][e].status # "FAILED"
  <2>1. CASE q = r
    BY <1>0, <1>2, <1>3, <1>5, <1>6, <2>1
  <2>2. CASE q # r
    <3>1. /\ write[q][e].retries # -1 => write[q][e].retries + u <= refused[e] + 1
          /\ write[q][e].status # "FAILED"
      BY <1>1, Zenon
    <3>2. write[q][e].retries \in Nat \cup {-1} /\ refused[e] \in Nat
      BY <1>3, Zenon
    <3>3. write[q][e].retries # -1 => write[q][e].retries + v <= refused[e] + 1
      BY <1>5, <3>1, <3>2
    <3>4. write'[q][e] = write[q][e] /\ refused' = refused
      BY <1>0, <2>2, Zenon
    <3> QED BY <3>1, <3>3, <3>4, Zenon
  <2> QED BY <2>1, <2>2, Zenon
<1> QED BY <1>5, <1>7, <1>8, <1>9, Zenon DEF v, CountsBehind

(* A commit counts the refusal of its relay. *)
LEMMA FailureCommitted ==
  ASSUME SetsCount, RelayTypes, RelayTypes', NEW e \in Events, CountsBehind(e),
         NEW r \in Relays, Commit(r), write[r][e].retries # -1
  PROVE  CountsBehind(e)'
<1> SUFFICES ASSUME refused'[e] < MaxRetries PROVE CountsBehind(e)'
  BY Zenon DEF CountsBehind
<1> DEFINE u == Cardinality(Uncounted(e))
           v == Cardinality(Uncounted(e)')
<1>0. /\ refused' = refused /\ rpc'[r] = "idle" /\ write'[r][e] = NoWrite
      /\ row'[e] = Merge(row[e], write[r][e]) /\ row[e] \in Rows /\ write[r][e] \in Writes
      /\ \A q \in Relays : q # r =>
           rpc'[q] = rpc[q] /\ batch'[q] = batch[q] /\ seen'[q] = seen[q] /\ write'[q] = write[q]
  <2>1. refused' = refused /\ rpc'[r] = "idle"
    BY Zenon DEF Commit, Discard, Goto, RelayTypes
  <2>2. write'[r][e] = NoWrite
    BY DEF Commit, Discard, RelayTypes
  <2>3. row'[e] = Merge(row[e], write[r][e]) /\ row[e] \in Rows /\ write[r][e] \in Writes
    BY Zenon DEF Commit, ApplyWrites, RelayTypes
  <2>4. ASSUME NEW q \in Relays, q # r
        PROVE  rpc'[q] = rpc[q] /\ batch'[q] = batch[q] /\ seen'[q] = seen[q] /\ write'[q] = write[q]
    BY <2>4 DEF Commit, Discard, Goto, RelayTypes
  <2> QED BY <2>1, <2>2, <2>3, <2>4, Zenon
<1>3. /\ refused[e] \in Nat /\ row[e].retries \in Nat /\ MaxRetries \in Nat
      /\ \A q \in Relays : seen[q].retries \in Nat /\ write[q][e].retries \in Nat \cup {-1}
  BY CountNumbers, Zenon
<1>1. /\ IsFiniteSet(Uncounted(e))
      /\ row[e].status # "FAILED" /\ row[e].retries + u <= refused[e]
      /\ \A q \in Relays :
           /\ rpc[q] = "set_failed" /\ Current(q, e) => seen[q].retries + u <= refused[e]
           /\ write[q][e].retries # -1 => write[q][e].retries + u <= refused[e] + 1
           /\ write[q][e].status # "FAILED"
  BY <1>0, Zenon DEF CountsBehind
<1>2. row'[e].retries = write[r][e].retries /\ row'[e].status # "FAILED"
  <2>1. row[e].status # "FAILED" /\ write[r][e].status # "FAILED"
    BY <1>1, Zenon
  <2>2. row'[e] = Merge(row[e], write[r][e]) /\ row[e] \in Rows /\ write[r][e] \in Writes
    BY <1>0, Zenon
  <2> QED BY <2>1, <2>2, RowTypes
<1>4. IsFiniteSet(Uncounted(e)') /\ v = u - 1 /\ v \in Nat /\ u \in Nat
  <2>0. ~(rpc'[r] \in {"failed", "set_failed"}) /\ write'[r][e].retries = -1
    BY <1>0 DEF NoWrite
  <2>1. r \in Uncounted(e) /\ Uncounted(e)' = Uncounted(e) \ {r}
    BY <1>0, <2>0, Zenon DEF Uncounted, Current
  <2> QED BY <1>1, <2>1, OneLessUncounted, Zenon
<1> HIDE DEF u, v
<1>5. row'[e].retries + v <= refused'[e]
  <2>1. write[r][e].retries \in Nat /\ write[r][e].retries + u <= refused[e] + 1
    BY <1>1, <1>3, Zenon
  <2> QED BY <1>0, <1>2, <1>3, <1>4, <2>1
<1>6. ASSUME NEW q \in Relays, rpc'[q] = "set_failed", Current(q, e)'
      PROVE  seen'[q].retries + v <= refused'[e]
  <2>1. q # r /\ rpc[q] = "set_failed" /\ Current(q, e) /\ seen'[q] = seen[q]
    BY <1>0, <1>6, Zenon DEF Current
  <2>2. seen[q].retries + u <= refused[e] /\ seen[q].retries \in Nat /\ refused[e] \in Nat
    BY <1>1, <1>3, <2>1, Zenon
  <2>3. seen[q].retries + v <= refused[e]
    BY <1>4, <2>2
  <2> QED BY <1>0, <2>1, <2>3, Zenon
<1>7. ASSUME NEW q \in Relays
      PROVE  /\ write'[q][e].retries # -1 => write'[q][e].retries + v <= refused'[e] + 1
             /\ write'[q][e].status # "FAILED"
  <2>1. CASE q = r
    BY <1>0, <2>1 DEF NoWrite, Keep
  <2>2. CASE q # r
    <3>1. /\ write[q][e].retries # -1 => write[q][e].retries + u <= refused[e] + 1
          /\ write[q][e].status # "FAILED"
      BY <1>1, Zenon
    <3>2. write[q][e].retries \in Nat \cup {-1} /\ refused[e] \in Nat
      BY <1>3, Zenon
    <3>3. write[q][e].retries # -1 => write[q][e].retries + v <= refused[e] + 1
      BY <1>4, <3>1, <3>2
    <3>4. write'[q][e] = write[q][e] /\ refused' = refused
      BY <1>0, <2>2, Zenon
    <3> QED BY <3>1, <3>3, <3>4, Zenon
  <2> QED BY <2>1, <2>2, Zenon
<1> QED BY <1>2, <1>4, <1>5, <1>6, <1>7, Zenon DEF v, CountsBehind

(* Every step keeps the retry counts behind the refusals.                  *)
LEMMA StepCounts ==
  ASSUME SetsCount, RelayTypes, RelayTypes', \A r \in Relays : WritesKnown(r), Next,
         NEW e \in Events, CountsBehind(e)
  PROVE  CountsBehind(e)'
<1> DEFINE SameRow == row'[e].retries = row[e].retries
                      /\ (row'[e].status = "FAILED" => row[e].status = "FAILED")
           SeenKept == \A r \in Relays : rpc'[r] = "set_failed" /\ Current(r, e)' =>
             \/ rpc[r] = "set_failed" /\ Current(r, e) /\ seen'[r] = seen[r]
             \/ seen'[r] = row[e]
           WritesKept == \A r \in Relays :
             \/ write'[r][e] = write[r][e]
             \/ write'[r][e].retries = -1 /\ write'[r][e].status # "FAILED"
<1>0. ASSUME SameRow, SeenKept, WritesKept, refused'[e] = refused[e],
             Uncounted(e)' \subseteq Uncounted(e)
      PROVE  CountsBehind(e)'
  BY <1>0, CountsLeftAlone, Zenon
<1>1. ASSUME NEW f \in Events, RecordEvent(f) PROVE CountsBehind(e)'
  <2>1. SameRow
    BY <1>1 DEF RecordEvent, RelayTypes, Rows
  <2>2. SeenKept /\ WritesKept /\ refused'[e] = refused[e] /\ Uncounted(e)' \subseteq Uncounted(e)
    BY <1>1, Zenon DEF RecordEvent, Uncounted, Current
  <2> QED BY <1>0, <2>1, <2>2, Zenon
<1>2. ASSUME InitProducer PROVE CountsBehind(e)'
  <2>1. SameRow /\ SeenKept /\ WritesKept /\ refused'[e] = refused[e]
        /\ Uncounted(e)' \subseteq Uncounted(e)
    BY <1>2, Zenon DEF InitProducer, Uncounted, Current
  <2> QED BY <1>0, <2>1, Zenon
<1>3. ASSUME NEW r \in Relays, Poll(r) PROVE CountsBehind(e)'
  <2>1. SameRow /\ WritesKept /\ refused'[e] = refused[e]
    BY <1>3, Zenon DEF Poll
  <2>2. SeenKept
    BY <1>3, Zenon DEF Poll, Goto, Current, RelayTypes
  <2>3. Uncounted(e)' \subseteq Uncounted(e)
    BY <1>3, Zenon DEF Poll, Goto, Uncounted, Current, RelayTypes
  <2> QED BY <1>0, <2>1, <2>2, <2>3, Zenon
<1>4. ASSUME NEW r \in Relays, SendAcked(r) \/ SendRefused(r) PROVE CountsBehind(e)'
  <2>1. PICK f \in Events : Sends(r, f)
    BY <1>4, SendEffect, Zenon
  <2>2. /\ rpc[r] = "send" /\ Current(r, f) /\ UNCHANGED <<row, batch, seen, write>>
        /\ \/ /\ rpc' = [rpc EXCEPT ![r] = "published"] /\ refused' = refused
           \/ /\ rpc' = [rpc EXCEPT ![r] = "failed"]
              /\ refused' = [refused EXCEPT ![f] = IF @ < MaxRetries THEN @ + 1 ELSE @]
    BY <2>1, Zenon DEF Sends
  <2>3. CASE rpc' = [rpc EXCEPT ![r] = "published"] /\ refused' = refused
    <3>1. Uncounted(e)' \subseteq Uncounted(e) /\ SeenKept
      <4>1. rpc'[r] = "published" /\ \A q \in Relays \ {r} : rpc'[q] = rpc[q]
        BY <2>3, Zenon DEF RelayTypes
      <4> QED BY <2>2, <2>3, <4>1, Zenon DEF Uncounted, Current
    <3> QED BY <1>0, <2>2, <2>3, <3>1, Zenon
  <2>4. CASE f # e /\ rpc' = [rpc EXCEPT ![r] = "failed"]
             /\ refused' = [refused EXCEPT ![f] = IF @ < MaxRetries THEN @ + 1 ELSE @]
    <3>1. ~Current(r, e)
      <4>1. e \in Nat /\ f \in Nat
        BY RelayAssumption, Zenon
      <4> QED BY <2>2, <2>4, <4>1 DEF Current
    <3>2. Uncounted(e)' \subseteq Uncounted(e) /\ SeenKept
      BY <2>2, <2>4, <3>1, ZenonT(30) DEF Uncounted, Current, RelayTypes
    <3>3. refused'[e] = refused[e]
      BY <2>4, Zenon DEF RelayTypes
    <3> QED BY <1>0, <2>2, <3>2, <3>3, Zenon
  <2>5. CASE f = e /\ rpc' = [rpc EXCEPT ![r] = "failed"]
             /\ refused' = [refused EXCEPT ![f] = IF @ < MaxRetries THEN @ + 1 ELSE @]
    BY <2>2, <2>5, RefusalCounted, Zenon
  <2> QED BY <2>2, <2>3, <2>4, <2>5, Zenon
<1>5. ASSUME NEW r \in Relays, ReadRow(r) PROVE CountsBehind(e)'
  <2>1. PICK f \in batch[r] : Current(r, f) /\ seen' = [seen EXCEPT ![r] = row[f]]
    BY <1>5, Zenon DEF ReadRow
  <2>2. /\ UNCHANGED <<row, batch, write, refused>>
        /\ \A q : Current(q, e)' <=> Current(q, e)
        /\ \/ rpc[r] = "published" /\ rpc' = [rpc EXCEPT ![r] = "set_published"]
           \/ rpc[r] = "failed" /\ rpc' = [rpc EXCEPT ![r] = "set_failed"]
    BY <1>5, Zenon DEF ReadRow, Goto, Current
  <2>3. Uncounted(e)' \subseteq Uncounted(e)
    BY <2>2 DEF Uncounted, RelayTypes
  <2>4. SeenKept
    <3>1. Current(r, e) => f = e
      <4>1. e \in Nat /\ f \in Nat
        BY RelayAssumption, Zenon DEF RelayTypes
      <4> QED BY <2>1, <4>1 DEF Current
    <3>2. seen'[r] = row[f] /\ \A q \in Relays : q # r => seen'[q] = seen[q] /\ rpc'[q] = rpc[q]
      BY <2>1, <2>2 DEF RelayTypes
    <3> QED BY <2>2, <3>1, <3>2, Zenon
  <2> QED BY <1>0, <2>2, <2>3, <2>4, Zenon
<1>6. ASSUME NEW r \in Relays, MarkRow(r) PROVE CountsBehind(e)'
  <2>1. PICK f \in Events : f \in batch[r] /\ Marks(r, f)
    BY <1>6, MarkEffect, Zenon
  <2>2. CASE f = e /\ rpc[r] = "set_failed"
    BY <2>1, <2>2, FailureWritten, Zenon
  <2>3. CASE f # e \/ rpc[r] = "set_published"
    <3>1. /\ UNCHANGED <<row, refused>> /\ rpc'[r] \in {"commit", "send"}
          /\ \A q \in Relays : q # r =>
               rpc'[q] = rpc[q] /\ batch'[q] = batch[q] /\ seen'[q] = seen[q] /\ write'[q] = write[q]
      BY <2>1, ZenonT(30) DEF Marks, RelayTypes
    <3>2. write'[r][e] = write[r][e]
          \/ (write'[r][e].retries = -1 /\ write'[r][e].status # "FAILED")
      <4>0. write \in [Relays -> [Events -> Writes]]
        BY Zenon DEF RelayTypes
      <4>1. CASE f # e
        BY <2>1, <4>0, <4>1 DEF Marks
      <4>2. CASE f = e /\ rpc[r] = "set_published"
        <5>1. write'[r][e] = PublishedColumns(r)
          BY <2>1, <4>0, <4>2 DEF Marks
        <5> QED BY <5>1, ColumnTypes, Zenon DEF Done, Keep
      <4> QED BY <2>3, <4>1, <4>2, Zenon
    <3>3. Uncounted(e)' \subseteq Uncounted(e)
      BY <3>1, <3>2, Zenon DEF Uncounted, Current
    <3>4. SeenKept
      BY <3>1, Zenon DEF Current
    <3>5. WritesKept
      BY <3>1, <3>2, Zenon
    <3> QED BY <1>0, <3>1, <3>3, <3>4, <3>5, Zenon
  <2> QED BY <2>1, <2>2, <2>3, Zenon DEF Marks
<1>7. ASSUME NEW r \in Relays, Discard(r), refused' = refused, SameRow PROVE CountsBehind(e)'
  <2>1. /\ rpc'[r] = "idle" /\ write'[r][e] = NoWrite
        /\ \A q \in Relays : q # r =>
             rpc'[q] = rpc[q] /\ batch'[q] = batch[q] /\ seen'[q] = seen[q] /\ write'[q] = write[q]
    BY <1>7 DEF Discard, Goto, RelayTypes
  <2>2. Uncounted(e)' \subseteq Uncounted(e) /\ SeenKept /\ WritesKept
    BY <2>1 DEF Uncounted, Current, NoWrite, Keep
  <2> QED BY <1>0, <1>7, <2>2, Zenon
<1>8. ASSUME NEW r \in Relays, Abort(r) PROVE CountsBehind(e)'
  BY <1>7, <1>8, Zenon DEF Abort
<1>9. ASSUME NEW r \in Relays, Commit(r) PROVE CountsBehind(e)'
  <2>1. CASE write[r][e].retries # -1
    BY <1>9, <2>1, FailureCommitted, Zenon
  <2>2. CASE write[r][e].retries = -1
    <3>1. row'[e] = Merge(row[e], write[r][e]) /\ row[e] \in Rows /\ write[r][e] \in Writes
      BY <1>9, Zenon DEF Commit, ApplyWrites, RelayTypes
    <3>2. row'[e].retries = row[e].retries
      <4>1. PICK o, w : o = row[e] /\ w = write[r][e]
        BY Zenon
      <4>2. row'[e] = Merge(o, w) /\ w.retries = -1
        BY <2>2, <3>1, <4>1, Zenon
      <4> QED BY <4>1, <4>2 DEF Merge
    <3>3. CASE refused[e] < MaxRetries
      <4>1. row[e].status # "FAILED" /\ write[r][e].status # "FAILED"
        BY <3>3, Zenon DEF CountsBehind
      <4>2. SameRow
        BY <3>1, <3>2, <4>1, RowTypes
      <4> QED BY <1>7, <1>9, <4>2, Zenon DEF Commit
    <3>4. CASE ~(refused[e] < MaxRetries)
      BY <1>9, <3>4, Zenon DEF Commit, CountsBehind
    <3> QED BY <3>3, <3>4, Zenon
  <2> QED BY <2>1, <2>2, Zenon
<1>10. CASE Restart
  <2>1. SameRow /\ refused' = refused
    BY <1>10, Zenon DEF Restart
  <2>2. Uncounted(e)' \subseteq Uncounted(e) /\ SeenKept /\ WritesKept
    BY <1>10, Zenon DEF Restart, Uncounted, NoWrite, Keep
  <2> QED BY <1>0, <2>1, <2>2, Zenon
<1> QED BY <1>1, <1>2, <1>3, <1>4, <1>5, <1>6, <1>8, <1>9, <1>10, ZenonT(30) DEF Next, CycleStep

(* While a row is FAILED its event has been refused as often as allowed. *)
LEMMA CountsGiveUp == RelayTypes /\ CountInv => GivenUpAfterMaxRetries
<1> SUFFICES ASSUME RelayTypes, CountInv, NEW e \in Events, row[e].status = "FAILED"
             PROVE  refused[e] >= MaxRetries
  BY Zenon DEF GivenUpAfterMaxRetries
<1>1. ~(refused[e] < MaxRetries)
  BY Zenon DEF CountInv, CountsBehind
<1>2. refused[e] \in Nat /\ MaxRetries \in Nat
  BY CountNumbers, Zenon
<1> QED BY <1>1, <1>2

(* The order of the log is the promise to the consumers of a key.          *)
LEMMA LogOrderIsPromise == RelayTypes /\ LogInOrder => OvertakenAfterRefusal
<1> SUFFICES ASSUME RelayTypes, LogInOrder, NEW i \in DOMAIN log, NEW j \in DOMAIN log, Overtakes(i, j)
             PROVE  refused[log[j][1]] > 0 \/ \E k \in 1..i : log[k][1] = log[j][1]
  BY Zenon DEF OvertakenAfterRefusal
<1>1. log[j][1] \in Events
  BY DEF RelayTypes
<1>2. Before(log[j][1], log[i][1])
  BY Zenon DEF Overtakes, Before
<1> QED BY <1>1, <1>2, Zenon DEF LogInOrder

(* What the relays deliver, and when they give up.                         *)
LEMMA RelayUnderCounts ==
  ASSUME SetsCount, Reachable PROVE Spec => []DeliveryHolds
<1>1. Init => DeliveryInv /\ CountInv
  <2> SUFFICES ASSUME Init PROVE DeliveryInv /\ CountInv
    BY Zenon
  <2>1. RelayTypes
    BY RowTypes DEF Init, RelayTypes, RelayPhases
  <2>2. RecordedInOrder /\ MarkedAfterAck /\ LogInOrder
    BY DEF Init, RecordedInOrder, Recorded, MarkedAfterAck, LogInOrder, NoRow, Done
  <2>3. \A r \in Relays : MarksTrue(r) /\ WritesKnown(r) /\ BatchInOrder(r)
    BY Zenon DEF Init, MarksTrue, WritesKnown, BatchInOrder, NoWrite, Keep, Done
  <2>4. ASSUME NEW e \in Events PROVE CountsBehind(e)
    <3>1. Uncounted(e) = {}
      BY Zenon DEF Init, Uncounted, NoWrite
    <3>2. Cardinality(Uncounted(e)) = 0 /\ IsFiniteSet(Uncounted(e))
      BY <3>1, Zenon DEF SetsCount
    <3>3. row[e].status = "NONE" /\ row[e].retries = 0 /\ refused[e] = 0
      BY Zenon DEF Init, NoRow
    <3>4. \A r \in Relays : rpc[r] = "idle" /\ write[r][e].retries = -1 /\ write[r][e].status = Keep
      BY Zenon DEF Init, NoWrite
    <3> QED BY <3>2, <3>3, <3>4 DEF CountsBehind, Keep
  <2> QED BY <2>1, <2>2, <2>3, <2>4, Zenon DEF DeliveryInv, CountInv
<1>2. DeliveryInv /\ CountInv /\ [Next]_vars => (DeliveryInv /\ CountInv)'
  <2> SUFFICES ASSUME DeliveryInv, CountInv, [Next]_vars PROVE DeliveryInv' /\ CountInv'
    BY Zenon
  <2>1. CASE Next
    <3>1. DeliveryInv'
      BY <2>1, StepDelivery, CountsGiveUp, Zenon DEF DeliveryInv
    <3>2. CountInv'
      BY <2>1, <3>1, StepCounts, Zenon DEF DeliveryInv, CountInv
    <3> QED BY <3>1, <3>2, Zenon
  <2>2. CASE UNCHANGED vars
    <3>1. \A e : /\ Recorded(e)' <=> Recorded(e)
                 /\ Delivered(e)' <=> Delivered(e)
                 /\ Uncounted(e)' = Uncounted(e)
                 /\ \A r : Current(r, e)' <=> Current(r, e)
      BY <2>2 DEF vars, Recorded, Delivered, Uncounted, Current
    <3>2. RelayTypes' /\ RecordedInOrder' /\ MarkedAfterAck' /\ LogInOrder'
      <4>1. RelayTypes'
        BY <2>2, Zenon DEF vars, DeliveryInv, RelayTypes
      <4>2. RecordedInOrder' /\ MarkedAfterAck'
        BY <2>2, <3>1, Zenon DEF vars, DeliveryInv, RecordedInOrder, MarkedAfterAck, Before
      <4>3. LogInOrder'
        BY <2>2, ZenonT(30) DEF vars, DeliveryInv, LogInOrder, Before
      <4> QED BY <4>1, <4>2, <4>3, Zenon
    <3>3. \A r \in Relays : MarksTrue(r)' /\ WritesKnown(r)' /\ BatchInOrder(r)'
      BY <2>2, <3>1 DEF vars, DeliveryInv, MarksTrue, WritesKnown, BatchInOrder, Passed, Before
    <3>4. CountInv'
      BY <2>2, <3>1, Zenon DEF vars, CountInv, CountsBehind
    <3> QED BY <3>2, <3>3, <3>4, Zenon DEF DeliveryInv
  <2> QED BY <2>1, <2>2, Zenon
<1>3. DeliveryInv /\ CountInv => DeliveryHolds
  BY CountsGiveUp, LogOrderIsPromise, Zenon DEF DeliveryInv, DeliveryHolds
<1> QED BY <1>1, <1>2, <1>3, PTL DEF Spec

-----------------------------------------------------------------------------
INSTANCE FiniteSetTheorems

(* The facts hold of all sets.                                             *)
LEMMA SetsDoCount == SetsCount
BY FS_EmptySet, FS_CardinalityType, FS_Subset, FS_AddElement, FS_RemoveElement, ZenonT(30)
   DEF SetsCount

(* For any number of relays, events, keys and any batch size and retry     *)
(* limit, with a producer that reaches the broker: a PUBLISHED row is in   *)
(* the broker, a FAILED one was refused max_retries times, and only a      *)
(* refusal lets a later event of a key overtake an earlier one.            *)
THEOREM RelayTheorem == ASSUME Reachable PROVE Spec => []DeliveryHolds
BY SetsDoCount, RelayUnderCounts, Zenon

-----------------------------------------------------------------------------
(***************************************************************************)
(* The instances that TLC checks, two in one run, chosen in the initial    *)
(* state: one relay of each service over events 1 and 2 of one aggregate,  *)
(* and one relay over more events than its batch holds, 3 of another       *)
(* aggregate among them.                                                   *)
(***************************************************************************)

VARIABLE scenario

MCKeyOf == [e \in Events |-> IF e <= 2 THEN "a" ELSE "b"]

ScenarioInit == Init /\ scenario \in {"two relays", "batch limit"}

ScenarioNext ==
  /\ Next
  /\ UNCHANGED scenario
  /\ IF scenario = "two relays"
     THEN \A e \in Events \ {1, 2} : row'[e] = row[e]
     ELSE \A r \in LedgerRelays : rpc'[r] = rpc[r]

ScenarioSpec == ScenarioInit /\ [][ScenarioNext]_<<vars, scenario>>

FairScenarioSpec == ScenarioSpec /\ Fairness
=============================================================================
