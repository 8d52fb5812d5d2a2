----------------------------- MODULE MCServices -----------------------------
(*****************************************************************************)
(* The services that keep records in the database, in memory or in a cache   *)
(* in front of it, and what they do with the events they raise.  The         *)
(* components share no state, so a behaviour runs one of them, chosen in     *)
(* the initial state; the reachable states are the sum of the components'    *)
(* own, and a property of one holds trivially where another runs.            *)
(*****************************************************************************)
EXTENDS
    LedgerApi, FraudVelocity, UserAccounts, Inventory, OrderIntake,
    CatalogPaging, AuditPartitions, ViewCounter, DocumentWorkflow,
    RegistrationEvents, DeadLetter, ProductSearch, TLC

VARIABLE part   \* the component that this behaviour runs

(* Transfers of 1, 2 and 2 units. *)
MCAmountOf == "t1" :> 1 @@ "t2" :> 2 @@ "t3" :> 2

(* Ranges within a year, across years, and of the monthly partition only. *)
MCSearchRanges == {<<1, 3>>, <<2, 7>>, <<6, 7>>}

(* An admin, an owner and a member of the finance department. *)
MCDocSubjects ==
    {[uid |-> 1, role |-> "admin", dept |-> "it", tenant |-> "acme"],
     [uid |-> 2, role |-> "user", dept |-> "it", tenant |-> "acme"],
     [uid |-> 3, role |-> "user", dept |-> "finance", tenant |-> "acme"]}

(* An account, a balanced and an unbalanced entry on it, and feeds that     *)
(* match them, differ from them in an amount or a currency, and overlap.    *)
MCUser == <<"SETTLEMENT-USER", "usd">>
MCLeg(side, n) == [acct |-> MCUser, side |-> side, amount |-> n]
MCItem(ref, n, cur) == [ref |-> <<ref>>, amount |-> n, cur |-> cur]
MCEntry(ref, legs) == [op |-> "entry", ref |-> <<ref>>, legs |-> legs]
MCBatch(ref, auto, feed) == [op |-> "batch", ref |-> <<ref>>, auto |-> auto, feed |-> feed]
MCApiRequests ==
    {[op |-> "account", number |-> MCUser],
     MCEntry("r1", <<MCLeg("DEBIT", 1), MCLeg("DEBIT", 1), MCLeg("CREDIT", 2)>>),
     MCEntry("r2", <<MCLeg("DEBIT", 1), MCLeg("DEBIT", 1)>>),
     MCBatch("b1", TRUE, <<MCItem("r1", 2, "usd"), MCItem("r2", 1, "eur")>>),
     MCBatch("b2", TRUE, <<MCItem("r2", 1, "eur"), MCItem("r1", 1, "usd")>>),
     MCBatch("b2", FALSE, <<MCItem("r1", 1, "usd")>>)}

(* Products of which a query finds one by its title, both by stems, or one  *)
(* by its trigrams only.                                                    *)
MCRun == <<"r", "u", "n">>
MCShoe == <<"s", "h", "o", "e">>
MCVest == <<"v", "e", "s", "t">>
MCProduct(title, description, brand, price) ==
    [title |-> title, description |-> description, brand |-> brand, price |-> price]
MCNewProducts ==
    {MCProduct(<<MCVest>>, <<MCRun>>, MCShoe, 1),
     MCProduct(<<MCRun \o <<"n", "i", "n", "g">>, MCShoe>>, <<>>, MCVest \o <<"a">>, 2),
     MCProduct(<<<<"i", "n">> \o MCVest>>, <<MCRun>>, MCRun, 2)}
MCSearchQueries ==
    {<<>>, <<MCVest>>, <<Append(MCVest, "s")>>, <<MCRun>>, <<MCRun, MCShoe>>,
     <<<<"v", "e", "t">>>>, <<MCRun \o <<"n", "i", "n", "g">>, MCShoe>>}
MCSuggestPrefixes == {<<"v", "e">>, <<"r", "u">>}

Parts ==
    {"api", "fraud", "users", "inventory", "orders", "catalog", "audit",
     "views", "documents", "registration", "deadletter", "products"}

SumInit ==
    /\ part \in Parts
    /\ ApiInit
    /\ FraudInit
    /\ UserInit
    /\ InventoryInit
    /\ OrderInit
    /\ CatalogInit
    /\ AuditInit
    /\ ViewInit
    /\ DocInit
    /\ RegistrationInit
    /\ DlInit
    /\ SearchInit
    /\ part # "inventory" => rowLocks
    /\ part # "inventory" => quantity = CHOOSE q \in [Checkouts -> Quantities] : TRUE
    /\ part # "orders" => fkChecked
    /\ part # "orders" => odJob = CHOOSE j \in [OrderCalls -> [user : OrderUsers, outbox : BOOLEAN]] : TRUE
    /\ part # "audit" => dialect = "sqlite"
    /\ part # "registration" => tasksAfter

(* Component p runs; every other one stays in its initial state. *)
Running(p) ==
    /\ part = p
    /\ UNCHANGED part
    /\ IF p = "api" THEN TRUE ELSE UNCHANGED apiVars
    /\ IF p = "fraud" THEN TRUE ELSE UNCHANGED fraudVars
    /\ IF p = "users" THEN TRUE ELSE UNCHANGED userVars
    /\ IF p = "inventory" THEN TRUE ELSE UNCHANGED inventoryVars
    /\ IF p = "orders" THEN TRUE ELSE UNCHANGED orderVars
    /\ IF p = "catalog" THEN TRUE ELSE UNCHANGED catalogVars
    /\ IF p = "audit" THEN TRUE ELSE UNCHANGED auditVars
    /\ IF p = "views" THEN TRUE ELSE UNCHANGED viewVars
    /\ IF p = "documents" THEN TRUE ELSE UNCHANGED docVars
    /\ IF p = "registration" THEN TRUE ELSE UNCHANGED registrationVars
    /\ IF p = "deadletter" THEN TRUE ELSE UNCHANGED dlVars
    /\ IF p = "products" THEN TRUE ELSE UNCHANGED searchVars

SumNext ==
    \/ Running("api") /\ ApiNext
    \/ Running("fraud") /\ FraudNext
    \/ Running("users") /\ UserNext
    \/ Running("inventory") /\ InventoryNext
    \/ Running("orders") /\ OrderNext
    \/ Running("catalog") /\ CatalogNext
    \/ Running("audit") /\ AuditNext
    \/ Running("views") /\ ViewNext
    \/ Running("documents") /\ DocNext
    \/ Running("registration") /\ RegistrationNext
    \/ Running("deadletter") /\ DlNext
    \/ Running("products") /\ SearchNext

sumVars ==
    <<part, apiVars, fraudVars, userVars, inventoryVars, orderVars,
      catalogVars, auditVars, viewVars, docVars, registrationVars,
      dlVars, searchVars>>

SumSpec == SumInit /\ [][SumNext]_sumVars
=============================================================================
