--------------------------- MODULE AuditPartitions ---------------------------
(***************************************************************************)
(* services/partition_service.py and routers/partition_router.py: the      *)
(* audit_logs table and its range partitions, on PostgreSQL (the database  *)
(* routes a row to one child table) and on SQLite (triggers copy a row of  *)
(* the root table to a child table).  A call that first makes sure the     *)
(* base partitions exist commits that, so other sessions may act before    *)
(* its second step.  Time is counted in months; two base years have a      *)
(* partition of their own and every other month belongs to the default one.*)
(***************************************************************************)
EXTENDS Naturals, FiniteSets, Functions

CONSTANTS
    AuditCalls,      \* requests that may overlap
    MonthsInYear,
    BaseYears,       \* the years 2025 and 2026 of the code
    Months,          \* the timestamps of the rows
    SearchRanges,    \* the ranges asked for: pairs <<start_date, end_date>>
    MonthlyShards,   \* the months for which a monthly partition is requested
    MaxAuditRows     \* a bound on the rows ever inserted

ASSUME PartitionAssumption ==
    /\ MonthsInYear \in Nat \ {0}
    /\ BaseYears \subseteq Nat
    /\ \E first, last \in BaseYears : BaseYears = first..last
    /\ Months \subseteq Nat /\ MonthlyShards \subseteq Nat
    /\ SearchRanges \subseteq Nat \X Nat
    /\ MaxAuditRows \in Nat

VARIABLES
    dialect,     \* "postgresql" or "sqlite"
    root,        \* the rows of audit_logs, as a query of the root table sees them
    shards,      \* name of a child table -> its rows
    auPc, auJob, \* per request: where it is and what it was asked
    searched,    \* per search: the rows its query returned, each with the tables it lay in
    scanned,     \* per search: the tables it reports as scanned, once it answers
    droppedRows,     \* rows whose child table has been dropped since
    dropRaced   \* a partition was dropped between the two steps of an insertion
                \* or of the creation of a monthly partition
auditVars == <<dialect, root, shards, auPc, auJob, searched, scanned, droppedRows, dropRaced>>

YearOf(t) == t \div MonthsInYear
YearShard(y) == <<"year", y>>
MonthShard(m) == <<"month", m>>
DefaultShard == <<"default">>
BaseShards == {YearShard(y) : y \in BaseYears} \cup {DefaultShard}

AuditInit ==
    /\ dialect \in {"postgresql", "sqlite"}
    /\ root = {}
    /\ shards = <<>>
    /\ auPc = [c \in AuditCalls |-> "idle"]
    /\ auJob = [c \in AuditCalls |-> 0]
    /\ searched = [c \in AuditCalls |-> {}]
    /\ scanned = [c \in AuditCalls |-> {}]
    /\ droppedRows = {}
    /\ dropRaced = FALSE

AuGo(c, pc, job) == auPc' = [auPc EXCEPT ![c] = pc] /\ auJob' = [auJob EXCEPT ![c] = job]

-----------------------------------------------------------------------------
(* resolve_target_partition: what an answer names as the row's partition. *)
ResolveTargetPartition(t) ==
    IF YearOf(t) \in BaseYears THEN YearShard(YearOf(t)) ELSE DefaultShard

(* The range a child table is declared for. *)
Covers(s, t) ==
    \/ s[1] = "year"  /\ YearOf(t) = s[2]
    \/ s[1] = "month" /\ t = s[2]

(* Where the row goes: PostgreSQL to the partition that covers it or else  *)
(* the default one; SQLite by the trigger of its year.                     *)
HomeOf(t) ==
    IF dialect = "sqlite" THEN ResolveTargetPartition(t)
    ELSE LET fit == {s \in DOMAIN shards : Covers(s, t)}
         IN  IF fit = {} THEN DefaultShard ELSE CHOOSE s \in fit : TRUE

(* CREATE TABLE IF NOT EXISTS ... PARTITION OF: PostgreSQL refuses a range  *)
(* that overlaps an existing one, and one the default partition has rows of.*)
Overlap(r, s) == \E t \in Months \cup MonthlyShards : Covers(r, t) /\ Covers(s, t)
MayAttach(s, tables) ==
    \/ dialect = "sqlite"
    \/ s = DefaultShard
    \/ /\ \A r \in DOMAIN tables \ {DefaultShard} : ~Overlap(r, s)
       /\ DefaultShard \in DOMAIN tables => \A r \in tables[DefaultShard] : ~Covers(s, r.at)

(* ensure_base_and_child_partitions: the missing base tables, empty. *)
MissingBase == BaseShards \ DOMAIN shards
EnsureFails == \E s \in MissingBase : ~MayAttach(s, shards)

(* Mutation of Ensured: only the default partition is put back. *)
MutEnsured == [s \in DOMAIN shards \cup {DefaultShard} |->
                 IF s \in DOMAIN shards THEN shards[s] ELSE {}]

Ensured == [s \in DOMAIN shards \cup BaseShards |->
              IF s \in DOMAIN shards THEN shards[s] ELSE {}]
EnsureBaseAndChildPartitions == ~EnsureFails /\ shards' = Ensured

(* The first step of every call but the detachment.  When a statement is    *)
(* refused the transaction rolls back and the request fails.               *)
BeginAuditCall(c, next, job) ==
    /\ auPc[c] = "idle"
    /\ \/ EnsureBaseAndChildPartitions /\ AuGo(c, next, job)
       \/ EnsureFails /\ UNCHANGED <<shards, auPc, auJob>>
    /\ UNCHANGED <<dialect, root, searched, scanned, droppedRows, dropRaced>>

BeginInsert(c) == \E t \in Months : BeginAuditCall(c, "insert", t)
BeginSearch(c) == \E range \in SearchRanges : BeginAuditCall(c, "search", range)
BeginMonthly(c) == \E m \in MonthlyShards : BeginAuditCall(c, "monthly", m)

(* A new AuditLogPartitionModel: its id is fresh. *)
AuditRow(t) == [id |-> Cardinality(root \cup droppedRows), at |-> t]

(* insert_audit_log: INSERT, COMMIT.  PostgreSQL has no partition for the   *)
(* row when the default one has been dropped meanwhile.                    *)
InsertAuditLog(c) ==
    LET row == AuditRow(auJob[c])
        home == HomeOf(row.at)
    IN  /\ auPc[c] = "insert"
        /\ Cardinality(root \cup droppedRows) < MaxAuditRows
        /\ IF home \in DOMAIN shards
           THEN /\ root' = root \cup {row}
                /\ shards' = [shards EXCEPT ![home] = @ \cup {row}]
                /\ UNCHANGED droppedRows
           ELSE IF dialect = "sqlite"
           THEN root' = root \cup {row} /\ droppedRows' = droppedRows \cup {row} /\ UNCHANGED shards
           ELSE UNCHANGED <<root, shards, droppedRows>>
        /\ AuGo(c, "idle", 0)
        /\ UNCHANGED <<dialect, searched, scanned, dropRaced>>

(* search_audit_logs: the range query, which sees one snapshot ... *)
QueryAuditLogs(c) ==
    /\ auPc[c] = "search"
    /\ searched' = [searched EXCEPT ![c] =
          {[row |-> r, home |-> {s \in DOMAIN shards : r \in shards[s]}] :
              r \in {x \in root : auJob[c][1] <= x.at /\ x.at < auJob[c][2]}}]
    /\ AuGo(c, "listing", auJob[c])
    /\ UNCHANGED <<dialect, root, shards, scanned, droppedRows, dropRaced>>

(* ... which tables it says were scanned: a base year overlapping the range,*)
(* a monthly table only if its name contains a base year (SQLite and        *)
(* PostgreSQL alike judge it by the whole year), the default table if the   *)
(* range reaches outside the base years ...                                *)
YearStart(y) == y * MonthsInYear
YearOverlaps(y, f, t) == ~(t <= YearStart(y) \/ f >= YearStart(y + 1))
Scanned(tables, f, t) ==
    {s \in tables :
        \/ s[1] = "year" /\ YearOverlaps(s[2], f, t)
        \/ s[1] = "month" /\ YearOf(s[2]) \in BaseYears /\ YearOverlaps(YearOf(s[2]), f, t)
        \/ s = DefaultShard
           /\ \/ f < YearStart(CHOOSE y \in BaseYears : \A z \in BaseYears : y <= z)
              \/ t > YearStart((CHOOSE y \in BaseYears : \A z \in BaseYears : z <= y) + 1)}

(* ... computed from list_active_partitions, which ensures the base tables *)
(* once more, after the rows have been read.                               *)
ListActivePartitions(c) ==
    /\ auPc[c] = "listing"
    /\ IF EnsureFails
       THEN /\ AuGo(c, "idle", 0)
            /\ searched' = [searched EXCEPT ![c] = {}]
            /\ UNCHANGED <<shards, scanned>>
       ELSE /\ AuGo(c, "answered", 0)
            /\ shards' = Ensured
            /\ scanned' = [scanned EXCEPT ![c] =
                             Scanned(DOMAIN Ensured, auJob[c][1], auJob[c][2])]
            /\ UNCHANGED searched
    /\ UNCHANGED <<dialect, root, droppedRows, dropRaced>>

(* The answer has been read; the request is over. *)
EndSearch(c) ==
    /\ auPc[c] = "answered"
    /\ AuGo(c, "idle", 0)
    /\ searched' = [searched EXCEPT ![c] = {}]
    /\ scanned' = [scanned EXCEPT ![c] = {}]
    /\ UNCHANGED <<dialect, root, shards, droppedRows, dropRaced>>

(* create_monthly_partition. *)
CreateMonthlyPartition(c) ==
    LET s == MonthShard(auJob[c])
    IN  /\ auPc[c] = "monthly"
        /\ IF s \notin DOMAIN shards /\ MayAttach(s, shards)
           THEN shards' = [x \in DOMAIN shards \cup {s} |->
                             IF x = s THEN {} ELSE shards[x]]
           ELSE UNCHANGED shards
        /\ AuGo(c, "idle", 0)
        /\ UNCHANGED <<dialect, root, searched, scanned, droppedRows, dropRaced>>

(* detach_and_drop_old_partition: on PostgreSQL the rows go with the table; *)
(* on SQLite the root table keeps them.  The drop rolls back when nothing   *)
(* of that name is attached.                                               *)
DetachAndDropOldPartition ==
    \E s \in DOMAIN shards :
        /\ root' = IF dialect = "postgresql" THEN root \ shards[s] ELSE root
        /\ shards' = Restrict(shards, DOMAIN shards \ {s})
        /\ droppedRows' = droppedRows \cup shards[s]
        /\ dropRaced' = (dropRaced \/ \E c \in AuditCalls : auPc[c] \in {"insert", "monthly"})
        /\ UNCHANGED <<dialect, auPc, auJob, searched, scanned>>

AuditNext ==
    \/ \E c \in AuditCalls : \/ BeginInsert(c) \/ BeginSearch(c) \/ BeginMonthly(c)
                             \/ InsertAuditLog(c) \/ QueryAuditLogs(c)
                             \/ ListActivePartitions(c) \/ EndSearch(c)
                             \/ CreateMonthlyPartition(c)
    \/ DetachAndDropOldPartition
AuditSpec == AuditInit /\ [][AuditNext]_auditVars

-----------------------------------------------------------------------------
(* Every row a query can see is in exactly one child table, the one its     *)
(* timestamp belongs to, unless that table was dropped on SQLite, where the *)
(* triggers only mirror the root table (partition_service.py:86-160).      *)
RowsHaveOneHome ==
    \A r \in root :
       LET at == {s \in DOMAIN shards : r \in shards[s]}
       IN  /\ Cardinality(at) = IF r \in droppedRows THEN 0 ELSE 1
           /\ \A s \in at : Covers(s, r.at) \/ s = DefaultShard

(* The base partitions can always be put back.  They cannot only after a    *)
(* partition was dropped between the two steps of an insertion, so that its *)
(* row fell into the default partition, or between those of a request for a *)
(* month of a base year, which then took its place: from then on every call *)
(* fails in ensure_base_and_child_partitions (partition_service.py:55).     *)
BaseAlwaysRestorable == EnsureFails => dropRaced

(* The report of a search never lists as pruned the base partition one of   *)
(* its rows was read from, although the tables are listed after the rows    *)
(* are read and may change in between (partition_service.py:239-273).       *)
BasePruningSound ==
    \A c \in AuditCalls : auPc[c] = "answered" /\ ~dropRaced =>
       \A hit \in searched[c] : hit.home \cap BaseShards \subseteq scanned[c]

(* The partitions hold their rows: each row has one home, the base         *)
(* partitions can be put back, and the report of a search prunes none a    *)
(* row came from.                                                          *)
PartitionsHold ==
  /\ RowsHaveOneHome
  /\ BaseAlwaysRestorable
  /\ BasePruningSound
=============================================================================
