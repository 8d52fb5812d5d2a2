---------------------------- MODULE UserAccounts ----------------------------
(***************************************************************************)
(* services/user_service.py over its four copies of a user: the row in the *)
(* database, the entry cache:user:<id> in Redis, the Bloom filter of known *)
(* ids and the trie behind the autocompletion.  A request works on its own *)
(* session (get_db_session), which holds the row it wrote until it commits *)
(* after the handler; cache, filter and trie change at once.  Email and    *)
(* username are one unique name; rev names the request that wrote a row.   *)
(***************************************************************************)
EXTENDS Naturals, FiniteSets

CONSTANTS
  UsCalls,     \* requests
  NoCall,      \* writer of the first row
  UserIds,     \* the ids the table hands out: 1 .. n, enough for every request
  Names,       \* usernames
  FullNames,   \* full names
  None         \* an absent row, entry or optional field

VARIABLES
  usPc,      \* where a request is
  job,       \* its operation and arguments
  loaded,    \* the user it works on
  orm,       \* whether that user is an object of its session
  pend,      \* its uncommitted row: [id, row]
  users,     \* committed rows
  lastId,    \* the table's sequence
  cache,     \* cache:user:<id>
  bloom,     \* ids in the Bloom filter
  trie,      \* <<term, id>> pairs
  basis,     \* history: the row whose version an optimistic client sends
  replaced,  \* history: the committed row a request's write replaces
  usDisturbed  \* history: requests overlapped, or Redis or a commit failed

userVars == <<usPc, job, loaded, orm, pend, users, lastId, cache, bloom, trie,
              basis, replaced, usDisturbed>>

NoJob == [op |-> "none", id |-> 1, name |-> None, full |-> None]

FirstRow == [name |-> CHOOSE n \in Names : TRUE, full |-> None, ver |-> 1, rev |-> NoCall]

(* The first user was registered by this process. *)
UserInit ==
  /\ usPc = [c \in UsCalls |-> "idle"]
  /\ job = [c \in UsCalls |-> NoJob]
  /\ loaded = [c \in UsCalls |-> None]
  /\ orm = [c \in UsCalls |-> FALSE]
  /\ pend = [c \in UsCalls |-> None]
  /\ users = [i \in UserIds |-> IF i = 1 THEN FirstRow ELSE None]
  /\ trie = {<<FirstRow.name, 1>>}
  /\ lastId = 1
  /\ cache = [i \in UserIds |-> None]
  /\ bloom = {1}
  /\ basis = [c \in UsCalls |-> None]
  /\ replaced = [c \in UsCalls |-> None]
  /\ usDisturbed = FALSE

UsGo(c, l) == usPc' = [usPc EXCEPT ![c] = l]
Active == {c \in UsCalls : usPc[c] \notin {"idle", "done"}}

Creates == {"register", "with_post"}
Renames == {"update", "write_through", "optimistic"}

(* Where the service's method for an operation begins: creation with the   *)
(* uniqueness checks, write_through and nid with the repository, every     *)
(* other operation with get_user_by_id().                                  *)
Entry(op) ==
  CASE op \in Creates -> "checking"
    [] op \in {"write_through", "nid"} -> "loading"
    [] OTHER -> "cached"

\* What the endpoints of user_router.py admit.
Opt(S) == S \cup {None}
CreateUserJobs ==
  [op : {"register"}, id : {1}, name : Names, full : Opt(FullNames)]
WithInitialPostJobs ==
  [op : {"with_post"}, id : {1}, name : Names, full : Opt(FullNames)]
GetUserJobs == [op : {"get"}, id : UserIds, name : {None}, full : {None}]
UpdateUserJobs ==
  [op : {"update"}, id : UserIds, name : Opt(Names), full : Opt(FullNames)]
WriteThroughJobs ==
  [op : {"write_through"}, id : UserIds, name : Opt(Names), full : Opt(FullNames)]
OptimisticJobs ==
  [op : {"optimistic"}, id : {i \in UserIds : users[i] # None},
   name : Opt(Names), full : Opt(FullNames)]
PermissionJobs == [op : {"permissions"}, id : UserIds, name : {None}, full : {None}]
NidJobs == [op : {"nid"}, id : UserIds, name : {None}, full : {None}]
DeleteUserJobs == [op : {"delete"}, id : UserIds, name : {None}, full : {None}]

Jobs ==
  CreateUserJobs \cup WithInitialPostJobs \cup GetUserJobs \cup UpdateUserJobs
    \cup WriteThroughJobs \cup OptimisticJobs \cup PermissionJobs \cup NidJobs
    \cup DeleteUserJobs

(* A request of user_router.py arrives; an optimistic one sends the        *)
(* version of a row its client has read.                                   *)
ArriveUser(c) ==
  /\ usPc[c] = "idle"
  /\ \E j \in Jobs :
       /\ job' = [job EXCEPT ![c] = j]
       /\ UsGo(c, Entry(j.op))
       /\ basis' = IF j.op = "optimistic"
                   THEN [basis EXCEPT ![c] = users[j.id]]
                   ELSE basis
  /\ usDisturbed' = (usDisturbed \/ Active # {})
  /\ UNCHANGED <<loaded, orm, pend, users, lastId, cache, bloom, trie, replaced>>

Unsaved == UNCHANGED <<job, orm, pend, users, lastId, bloom, trie, basis, replaced>>

AfterLoad(c) ==
  CASE job[c].op = "get" -> "done"
    [] job[c].op \in Renames -> "checking"
    [] OTHER -> "writing"

(* BloomFilter.contains(): what was added is always found, and an id that  *)
(* was not may share all its bits with others that were.                   *)
BloomContains(i) == IF i \in bloom THEN {TRUE} ELSE BOOLEAN

(* BloomFilter.add(): bits are set and never cleared again. *)
BloomAdd(ids) == bloom' = bloom \cup ids

(* get_user_by_id(), step 0 and 1: the Bloom filter refuses an unknown id, *)
(* a cache hit is the user, a miss or a Redis error goes to the database.  *)
ReadCache(c) ==
  LET i == job[c].id
  IN  /\ usPc[c] = "cached"
      /\ \E known \in BloomContains(i) :
           \/ ~known /\ UsGo(c, "done") /\ UNCHANGED loaded
           \/ /\ known /\ cache[i] # None
              /\ loaded' = [loaded EXCEPT ![c] = cache[i]]
              /\ UsGo(c, AfterLoad(c))
           \/ known /\ UsGo(c, "loading") /\ UNCHANGED loaded
      /\ UNCHANGED <<cache, usDisturbed>> /\ Unsaved

(* Step 2: SqlAlchemyUserRepository.get_by_id(). *)
LoadRow(c) ==
  LET row == users[job[c].id]
  IN  /\ usPc[c] = "loading"
      /\ loaded' = [loaded EXCEPT ![c] = row]
      /\ orm' = [orm EXCEPT ![c] = TRUE]
      /\ UsGo(c, CASE row = None -> "done"
                   [] Entry(job[c].op) = "cached" -> "filling"
                   [] OTHER -> AfterLoad(c))
      /\ UNCHANGED <<job, pend, users, lastId, cache, bloom, trie, basis, replaced, usDisturbed>>

(* Step 3: the entity is stored in the cache; a Redis error is logged. *)
FillCache(c) ==
  /\ usPc[c] = "filling"
  /\ cache' \in {cache, [cache EXCEPT ![job[c].id] = loaded[c]]}
  /\ UsGo(c, AfterLoad(c))
  /\ UNCHANGED <<loaded, usDisturbed>> /\ Unsaved

Taken(n, i) == \E k \in UserIds \ {i} : users[k] # None /\ users[k].name = n

(* get_by_email() and get_by_username() before a create or a rename. *)
CheckName(c) ==
  LET j == job[c]
      i == IF j.op \in Creates THEN 0 ELSE j.id
      fresh == j.op \in Creates \/ (j.name # None /\ j.name # loaded[c].name)
  IN  /\ usPc[c] = "checking"
      /\ UsGo(c, IF fresh /\ Taken(j.name, i) THEN "done" ELSE "writing")
      /\ UNCHANGED <<loaded, cache, usDisturbed>> /\ Unsaved

\* PrefixTrie.insert() and .delete(): delete drops a term with all its payloads
TrieInsert(tr, terms, i) == tr \cup (terms \X {i})
TrieDelete(tr, terms) == {p \in tr : p[1] \notin terms}

(* _index_user_in_trie(): under the username and the full name, if any. *)
IndexUserInTrie(tr, i, row) == TrieInsert(tr, {row.name, row.full} \ {None}, i)

(* A write waits for the row and for a name another session holds. *)
Blocked(c, i, n) ==
  \E d \in UsCalls \ {c} : /\ pend[d] # None
                             /\ \/ pend[d].id = i
                                \/ (n # None /\ pend[d].row.name = n)

(* SqlAlchemyUserRepository.create(): the next id of the table, and the    *)
(* row waits for the commit; a name committed meanwhile fails the index.   *)
CreateRow(c, row) ==
  LET i == lastId + 1
  IN  /\ i \in UserIds /\ ~Blocked(c, i, row.name)
      /\ lastId' = i
      /\ IF Taken(row.name, i)
         THEN UsGo(c, "done") /\ UNCHANGED pend
         ELSE UsGo(c, "committing") /\ pend' = [pend EXCEPT ![c] = [id |-> i, row |-> row]]
      /\ UNCHANGED <<job, loaded, orm, users, cache, basis, replaced, usDisturbed>>

NewRow(c) == [name |-> job[c].name, full |-> job[c].full, ver |-> 1, rev |-> c]

Writes(c, op) == usPc[c] = "writing" /\ job[c].op = op

(* register_user() from its create() on: trie and filter before the commit. *)
RegisterAndIndexUser(c) ==
  LET i == lastId + 1
  IN  /\ Writes(c, "register") /\ CreateRow(c, NewRow(c))
      /\ IF pend'[c] = None
         THEN UNCHANGED <<trie, bloom>>
         ELSE trie' = IndexUserInTrie(trie, i, NewRow(c)) /\ BloomAdd({i})

(* create_user_with_initial_post() up to its own commit. *)
CreateUserWithInitialPost(c) ==
  Writes(c, "with_post") /\ CreateRow(c, NewRow(c)) /\ UNCHANGED <<trie, bloom>>

(* The value of an optional field: update() assigns to the object of its   *)
(* session and the ORM writes what differs from what an earlier SELECT     *)
(* filled in; the conditional UPDATE writes every field it is given.       *)
Field(c, given, old, current) ==
  IF given = None \/ (orm[c] /\ job[c].op # "optimistic" /\ given = old)
  THEN current
  ELSE given

(* SqlAlchemyUserRepository.update(): the version stays. *)
Updated(c, row) ==
  [name |-> Field(c, job[c].name, loaded[c].name, row.name),
   full |-> Field(c, job[c].full, loaded[c].full, row.full),
   ver |-> row.ver,
   rev |-> c]

(* update_with_optimistic_lock() once its WHERE has matched: the stored    *)
(* version is raised in the statement, and so in update_permissions().     *)
UpdatedWithOptimisticLock(c, row) == [Updated(c, row) EXCEPT !.ver = @ + 1]

UpdatedPermissions(c, row) == [row EXCEPT !.ver = @ + 1, !.rev = c]

(* update_nid() raises the version of the object it loaded. *)
UpdatedNid(c, row) == [row EXCEPT !.ver = loaded[c].ver + 1, !.rev = c]

(* The trie follows a rename, by the names of the user that was loaded. *)
Reindexed(c, new) ==
  LET l == loaded[c]
      gone == {t \in {l.name} : t # new.name} \cup {t \in {l.full} \ {None} : t # new.full}
  IN  IndexUserInTrie(TrieDelete(trie, gone), job[c].id, new)

(* The repository's statement: it waits for the row and the name, finds no *)
(* row (404), breaks the unique index (500), or leaves the row new.        *)
Save(c, new, index) ==
  LET i == job[c].id
      row == users[i]
  IN  /\ ~Blocked(c, i, IF row = None THEN None ELSE new.name)
      /\ IF row = None \/ Taken(new.name, i)
         THEN UsGo(c, "done") /\ UNCHANGED <<pend, trie, replaced>>
         ELSE /\ pend' = [pend EXCEPT ![c] = [id |-> i, row |-> new]]
              /\ replaced' = [replaced EXCEPT ![c] = row]
              /\ trie' = index
              /\ UsGo(c, "caching")
      /\ UNCHANGED <<job, loaded, orm, users, lastId, cache, bloom, basis, usDisturbed>>

(* The service's methods from their write to their await of the cache. *)
UpdateUser(c) ==
  LET new == Updated(c, users[job[c].id])
  IN  Writes(c, "update") /\ Save(c, new, Reindexed(c, new))

UpdateUserWriteThrough(c) ==
  LET new == Updated(c, users[job[c].id])
  IN  Writes(c, "write_through") /\ Save(c, new, Reindexed(c, new))

UpdateUserPermissions(c) ==
  Writes(c, "permissions") /\ Save(c, UpdatedPermissions(c, users[job[c].id]), trie)

UpdateNid(c) ==
  Writes(c, "nid") /\ Save(c, UpdatedNid(c, users[job[c].id]), trie)

(* A version that has moved, or a missing row, is OptimisticLockException. *)
UpdateUserOptimistic(c) ==
  LET row == users[job[c].id]
      new == UpdatedWithOptimisticLock(c, row)
  IN  /\ Writes(c, "optimistic")
      /\ IF row # None /\ row.ver # basis[c].ver /\ ~Blocked(c, job[c].id, None)
         THEN /\ UsGo(c, "done")
              /\ UNCHANGED <<loaded, cache, usDisturbed>> /\ Unsaved
         ELSE Save(c, new, Reindexed(c, new))

(* delete_user() likewise; the row of the delete is None. *)
DeleteUser(c) ==
  LET i == job[c].id
  IN  /\ Writes(c, "delete")
      /\ ~Blocked(c, i, None)
      /\ IF users[i] = None
         THEN UsGo(c, "done") /\ UNCHANGED <<pend, trie>>
         ELSE /\ pend' = [pend EXCEPT ![c] = [id |-> i, row |-> [name |-> None]]]
              /\ trie' = TrieDelete(trie, {loaded[c].name, loaded[c].full} \ {None})
              /\ UsGo(c, "caching")
      /\ UNCHANGED <<job, loaded, orm, users, lastId, cache, bloom, basis, replaced, usDisturbed>>

(* Mutation of CacheEntry: update_user_permissions() forgets its eviction. *)
MutCacheEntry(c) ==
  CASE job[c].op \in {"write_through", "nid"} -> pend[c].row
    [] job[c].op = "permissions" -> cache[pend[c].id]
    [] OTHER -> None

(* What the service leaves in the cache after its write: the new entity,   *)
(* or nothing.                                                             *)
CacheEntry(c) ==
  IF job[c].op \in {"write_through", "nid"} THEN pend[c].row ELSE None

(* The cache is written or evicted before the commit; an error is logged. *)
WriteCache(c) ==
  /\ usPc[c] = "caching"
  /\ \/ cache' = [cache EXCEPT ![pend[c].id] = CacheEntry(c)] /\ UNCHANGED usDisturbed
     \/ UNCHANGED cache /\ usDisturbed' = TRUE
  /\ UsGo(c, "committing")
  /\ UNCHANGED loaded /\ Unsaved

(* What is left of a request when its session is closed: that it was made. *)
Close(ended) ==
  /\ pend' = [c \in UsCalls |-> IF c \in ended THEN None ELSE pend[c]]
  /\ loaded' = [c \in UsCalls |-> IF c \in ended THEN None ELSE loaded[c]]
  /\ orm' = [c \in UsCalls |-> orm[c] /\ c \notin ended]
  /\ job' = [c \in UsCalls |-> IF c \in ended THEN [NoJob EXCEPT !.op = job[c].op] ELSE job[c]]

(* The end of get_db_session() or of the unit of work: commit, or an error *)
(* and rollback.  Only after its own commit does                           *)
(* create_user_with_initial_post() index the user, in the trie.            *)
EndSession(c) ==
  LET p == pend[c]
      commits == users' = [users EXCEPT ![p.id] = IF p.row.name = None THEN None ELSE p.row]
  IN  /\ usPc[c] = "committing"
      /\ \/ /\ commits /\ UNCHANGED usDisturbed
            /\ trie' = IF job[c].op = "with_post" THEN IndexUserInTrie(trie, p.id, p.row) ELSE trie
         \/ UNCHANGED <<users, trie>> /\ usDisturbed' = TRUE
      /\ Close({c})
      /\ UsGo(c, "done")
      /\ UNCHANGED <<lastId, cache, bloom, basis, replaced>>

(* The entry's TTL of 300 s passes. *)
ExpireUser ==
  /\ \E i \in UserIds : cache[i] # None /\ cache' = [cache EXCEPT ![i] = None]
  /\ UNCHANGED <<usPc, loaded, usDisturbed>> /\ Unsaved

(* SqlAlchemyUserRepository.get_all_ids(). *)
GetAllIds == {i \in UserIds : users[i] # None}

(* seed_user_bloom_filter(), into the empty filter of a new process. *)
SeedUserBloomFilter == bloom' = GetAllIds

(* main.py's lifespan on a restart: requests in flight and the trie are    *)
(* gone, the filter is seeded from the table.                              *)
RestartUsers ==
  /\ usPc' = [c \in UsCalls |-> IF usPc[c] = "idle" THEN "idle" ELSE "done"]
  /\ Close(UsCalls)
  /\ SeedUserBloomFilter
  /\ trie' = {}
  /\ usDisturbed' = TRUE
  /\ UNCHANGED <<users, lastId, cache, basis, replaced>>

UserStep(c) ==
  \/ ReadCache(c) \/ LoadRow(c) \/ FillCache(c) \/ CheckName(c) \/ RegisterAndIndexUser(c)
  \/ CreateUserWithInitialPost(c)
  \/ UpdateUser(c) \/ UpdateUserWriteThrough(c) \/ UpdateUserOptimistic(c)
  \/ UpdateUserPermissions(c) \/ UpdateNid(c) \/ DeleteUser(c) \/ WriteCache(c) \/ EndSession(c)

UserNext == (\E c \in UsCalls : ArriveUser(c) \/ UserStep(c)) \/ ExpireUser \/ RestartUsers

UserSpec == UserInit /\ [][UserNext]_userVars

Undisturbed == Active = {} /\ ~usDisturbed

(* Requests that follow one another without a fault leave the four copies  *)
(* in agreement: a cached user is the committed one, and each user is      *)
(* found under their own username and nobody else's.                       *)
CopiesAgreeInSequence ==
  Undisturbed =>
    \A i \in UserIds :
      /\ cache[i] \in {None, users[i]}
      /\ {n \in Names : <<n, i>> \in trie} =
           IF users[i] = None THEN {} ELSE {users[i].name}

Unversioned == {"update", "write_through", "nid"}

(* An optimistic update replaces the very row its client had read, unless  *)
(* a request that does not raise the stored version has written: plain and *)
(* write-through updates keep it and update_nid() writes a loaded one.     *)
OptimisticAmongVersioned ==
  \A c \in UsCalls :
    job[c].op = "optimistic" /\ replaced[c] # None /\ replaced[c] # basis[c]
      => \E d \in UsCalls : job[d].op \in Unversioned /\ replaced[d] # None

(* The filter answers no only for ids that are not in the table.           *)
BloomHasNoFalseNegatives == \A i \in UserIds : users[i] # None => i \in bloom

(* The copies of a user hold together: in sequence all of them, and        *)
(* concurrently the row under optimistic updates.                          *)
UserCopiesHold == CopiesAgreeInSequence /\ OptimisticAmongVersioned
=============================================================================
