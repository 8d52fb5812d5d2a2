----------------------------- MODULE Identifiers -----------------------------
(***************************************************************************)
(* core/identifiers.py: UUIDv7 and ULID generation by threads that share   *)
(* the last timestamp and a counter.  The clock is read before the lock is *)
(* taken.  Of an identifier only the part that decides the order of two    *)
(* issued ones is kept: its timestamp and its counter.                     *)
(***************************************************************************)
EXTENDS Naturals

CONSTANTS
    IdThreads,     \* threads generating identifiers
    SeqModulus,    \* the 12-bit counter of a UUIDv7 wraps here (4096)
    SeqSeeds,      \* secrets.randbits(10)
    EntropySeeds,  \* secrets.randbits(75), far below the 80-bit modulus
    MaxMs          \* a bound on the clock

ASSUME IdentifierAssumption ==
    /\ SeqModulus \in Nat \ {0}
    /\ SeqSeeds \subseteq 0 .. SeqModulus - 1
    /\ EntropySeeds \subseteq Nat
    /\ MaxMs \in Nat

VARIABLES
    wallMs,      \* the wall clock, which may be set back
    idPc, nowMs, \* per thread: what it generates, and the clock it read
    lastV7,      \* [ms, seq]: _last_v7_timestamp_ms and _v7_sequence_counter
    lastUlid,    \* [ms, seq]: _last_ulid_timestamp_ms and _last_ulid_entropy
    wraps        \* how often the 12-bit counter has wrapped
idVars == <<wallMs, idPc, nowMs, lastV7, lastUlid, wraps>>

Earlier(a, b) == a.ms < b.ms \/ (a.ms = b.ms /\ a.seq < b.seq)

IdInit ==
    /\ wallMs \in 1 .. MaxMs
    /\ idPc = [t \in IdThreads |-> "idle"]
    /\ nowMs = [t \in IdThreads |-> 0]
    /\ lastV7 = [ms |-> 0, seq |-> 0]
    /\ lastUlid = [ms |-> 0, seq |-> 0]
    /\ wraps = 0

(* The clock advances, or is stepped back. *)
ClockMoves ==
    /\ wallMs' \in 1 .. MaxMs
    /\ wallMs' # wallMs
    /\ UNCHANGED <<idPc, nowMs, lastV7, lastUlid, wraps>>

(* now_ms = int(time.time() * 1000), outside the lock. *)
ReadClock(t) ==
    /\ idPc[t] = "idle"
    /\ idPc' \in {[idPc EXCEPT ![t] = "uuid7"], [idPc EXCEPT ![t] = "ulid"]}
    /\ nowMs' = [nowMs EXCEPT ![t] = wallMs]
    /\ UNCHANGED <<wallMs, lastV7, lastUlid, wraps>>

Done(t) == idPc' = [idPc EXCEPT ![t] = "idle"] /\ nowMs' = [nowMs EXCEPT ![t] = 0]

(* A later millisecond starts a fresh counter; otherwise the counter is     *)
(* incremented modulo 2^12 and the last timestamp is used again.           *)
NextV7(last, now, seed) ==
    IF now > last.ms THEN [ms |-> now, seq |-> seed]
    ELSE [ms |-> last.ms, seq |-> (last.seq + 1) % SeqModulus]

(* generate_uuidv7, the locked section. *)
GenerateUuidv7(t) ==
    \E seed \in SeqSeeds :
        /\ idPc[t] = "uuid7"
        /\ wraps = 0
        /\ lastV7' = NextV7(lastV7, nowMs[t], seed)
        /\ wraps' = IF nowMs[t] <= lastV7.ms /\ lastV7.seq + 1 = SeqModulus
                    THEN wraps + 1 ELSE wraps
        /\ Done(t)
        /\ UNCHANGED <<wallMs, lastUlid>>

(* Mutation of NextUlid: the same millisecond draws fresh entropy. *)
MutNextUlid(last, now, seed) ==
    IF now >= last.ms THEN [ms |-> now, seq |-> seed]
    ELSE [ms |-> last.ms, seq |-> last.seq + 1]

(* A ULID increments its entropy, which has five bits of headroom. *)
NextUlid(last, now, seed) ==
    IF now > last.ms THEN [ms |-> now, seq |-> seed]
    ELSE [ms |-> last.ms, seq |-> last.seq + 1]

(* generate_ulid, the locked section (entropy bounded by 2 * SeqModulus). *)
GenerateUlid(t) ==
    \E seed \in EntropySeeds :
        /\ idPc[t] = "ulid"
        /\ lastUlid.seq < 2 * SeqModulus
        /\ lastUlid' = NextUlid(lastUlid, nowMs[t], seed)
        /\ Done(t)
        /\ UNCHANGED <<wallMs, lastV7, wraps>>

IdNext == ClockMoves \/ \E t \in IdThreads : ReadClock(t) \/ GenerateUuidv7(t) \/ GenerateUlid(t)
IdSpec == IdInit /\ [][IdNext]_idVars

-----------------------------------------------------------------------------
(* Every ULID sorts after the one issued before it, whichever threads read  *)
(* the clock when and however the clock moves (identifiers.py:124-135).     *)
UlidsAscend == [][lastUlid' # lastUlid => Earlier(lastUlid, lastUlid')]_idVars

(* So does every UUIDv7, except where the 12-bit counter wraps.            *)
Uuid7sAscendUntilWrap ==
    [][lastV7' # lastV7 => Earlier(lastV7, lastV7') \/ wraps' > wraps]_idVars

(* Identifiers of both kinds are issued in ascending order by all threads, *)
(* up to the wrap of the UUIDv7 counter.                                   *)
IdentifiersAscend == UlidsAscend /\ Uuid7sAscendUntilWrap
=============================================================================
