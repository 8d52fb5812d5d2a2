--------------------------- MODULE DocumentWorkflow ---------------------------
(***************************************************************************)
(* The document endpoints: services/document_service.py over the in-memory *)
(* repositories/document_repository.py, guarded by the policies of         *)
(* core/abac.py.                                                           *)
(*                                                                         *)
(* The guard loads the document, then resolves the caller's identity, whose*)
(* synchronous dependency get_settings runs in the thread pool: other       *)
(* requests run in between.  From the evaluation on, the handler fetches    *)
(* the document again and writes it without suspending.  The approve route  *)
(* resolves the identity first, so its load, evaluation and write are one   *)
(* step.                                                                   *)
(***************************************************************************)
EXTENDS Naturals

CONSTANTS
    DocCalls,     \* requests in flight
    DocSubjects,  \* [uid, role, dept, tenant]: callers
    MaxDocs       \* a bound on the documents created

DocStatuses == {"active", "archived", "approved"}
NoDoc == [id |-> 0, owner |-> 0, tenant |-> "", status |-> "", large |-> FALSE]

VARIABLES
    docs, docSequence,  \* _store and _sequence
    docPc, docCall,     \* per request: where it is; its action and caller
    docLoaded,          \* per request: the ResourceContext it was given
    changedSince,       \* per request: its document changed after that load
    deletedDocs         \* ids ever deleted (history)
docVars == <<docs, docSequence, docPc, docCall, docLoaded, changedSince, deletedDocs>>

NoDocCall == [action |-> "", by |-> CHOOSE s \in DocSubjects : TRUE]

DocInit ==
    /\ docs = {}
    /\ docSequence = 0
    /\ docPc = [c \in DocCalls |-> "idle"]
    /\ docCall = [c \in DocCalls |-> NoDocCall]
    /\ docLoaded = [c \in DocCalls |-> NoDoc]
    /\ changedSince = [c \in DocCalls |-> FALSE]
    /\ deletedDocs = {}

(* get_by_id: the stored document with the id, as a set of at most one. *)
GetById(id) == {d \in docs : d.id = id}

-----------------------------------------------------------------------------
(* The policies of core/abac.py. *)

PolicyMultiTenantIsolation(s, r) == s.tenant # "" /\ r.tenant # "" /\ s.tenant = r.tenant

PolicyOwnershipAndAdminBypass(s, r) == s.role = "admin" \/ s.uid = r.owner

PolicyLifecycleStateGuard(s, r) == r.status = "archived" => s.role = "admin"

PolicyContextualApprovalGate(s, r, officeHours) ==
    IF r.large THEN s.dept = "finance" /\ officeHours
    ELSE s.dept = "finance" \/ s.role = "admin" \/ s.uid = r.owner

(* Mutation of MatchingRules: the lifecycle rule is not registered for deletion. *)
MutMatchingRules(action) ==
    {"tenant"} \cup (CASE action = "read" -> {"read"}
                       [] action = "update" -> {"owner", "lifecycle"}
                       [] action = "delete" -> {"owner"}
                       [] action = "approve" -> {"approval"})

(* create_default_policy_engine: the rules registered for an action. *)
MatchingRules(action) ==
    {"tenant"} \cup (CASE action = "read" -> {"read"}
                       [] action \in {"update", "delete"} -> {"owner", "lifecycle"}
                       [] action = "approve" -> {"approval"})

(* PolicyEngine.evaluate: every matching rule holds, and there is one. *)
Evaluate(action, s, r, officeHours) ==
    LET matching == MatchingRules(action) IN
    /\ matching # {}
    /\ "tenant" \in matching => PolicyMultiTenantIsolation(s, r)
    /\ "owner" \in matching => PolicyOwnershipAndAdminBypass(s, r)
    /\ "lifecycle" \in matching => PolicyLifecycleStateGuard(s, r)
    /\ "approval" \in matching => PolicyContextualApprovalGate(s, r, officeHours)

-----------------------------------------------------------------------------
(* Ids come from a sequence that deletions do not turn back. *)
NextDocId == docSequence + 1

(* The entity create_document() of the service stores. *)
NewDocument(s, tenant, large) ==
    [id |-> NextDocId, owner |-> s.uid, tenant |-> tenant, status |-> "active", large |-> large]

(* create_document, owned by the caller. *)
CreateDocument ==
    \E s \in DocSubjects, tenant \in {t.tenant : t \in DocSubjects}, large \in BOOLEAN :
        /\ docSequence < MaxDocs
        /\ docs' = docs \cup {NewDocument(s, tenant, large)}
        /\ docSequence' = docSequence + 1
        /\ UNCHANGED <<docPc, docCall, docLoaded, changedSince, deletedDocs>>

(* get_document_resource: 404 for an unknown id, else the context. *)
GetDocumentResource(c) ==
    \E s \in DocSubjects, action \in {"read", "update", "delete"}, d \in docs :
        /\ docPc[c] = "idle"
        /\ docPc' = [docPc EXCEPT ![c] = "loaded"]
        /\ docCall' = [docCall EXCEPT ![c] = [action |-> action, by |-> s]]
        /\ docLoaded' = [docLoaded EXCEPT ![c] = d]
        /\ UNCHANGED <<docs, docSequence, changedSince, deletedDocs>>

(* The request ends; the others that hold the document learn of a change. *)
EndDocCall(c, id, changed) ==
    /\ docPc' = [docPc EXCEPT ![c] = "idle"]
    /\ docCall' = [docCall EXCEPT ![c] = NoDocCall]
    /\ docLoaded' = [docLoaded EXCEPT ![c] = NoDoc]
    /\ changedSince' = [o \in DocCalls |->
            o # c /\ (changedSince[o] \/ (changed /\ docLoaded[o].id = id))]

(* abac_dependency_guard: 403 unless the policies hold of what was loaded. *)
Forbidden(c) ==
    \E officeHours \in BOOLEAN :
        /\ docPc[c] = "loaded"
        /\ ~Evaluate(docCall[c].action, docCall[c].by, docLoaded[c], officeHours)
        /\ EndDocCall(c, docLoaded[c].id, FALSE)
        /\ UNCHANGED <<docs, docSequence, deletedDocs>>

Allowed(c, action) ==
    /\ docPc[c] = "loaded"
    /\ docCall[c].action = action
    /\ Evaluate(action, docCall[c].by, docLoaded[c], TRUE)

(* get_document, and the 404 of the other two when it was deleted since. *)
GetDocument(c) ==
    /\ \/ Allowed(c, "read")
       \/ /\ Allowed(c, "update") \/ Allowed(c, "delete")
          /\ GetById(docLoaded[c].id) = {}
    /\ EndDocCall(c, docLoaded[c].id, FALSE)
    /\ UNCHANGED <<docs, docSequence, deletedDocs>>

(* update_document: the document as it is now, with the status given, or    *)
(* its own when the payload has none.                                      *)
UpdatedDocument(c, status) ==
    {[d EXCEPT !.status = status] : d \in GetById(docLoaded[c].id)}

UpdateDocument(c) ==
    \E status \in DocStatuses :
        LET updated == UpdatedDocument(c, status) IN
        /\ Allowed(c, "update")
        /\ updated # {}
        /\ docs' = {d \in docs : d.id # docLoaded[c].id} \cup updated
        /\ EndDocCall(c, docLoaded[c].id, TRUE)
        /\ UNCHANGED <<docSequence, deletedDocs>>

DeleteDocument(c) ==
    /\ Allowed(c, "delete")
    /\ GetById(docLoaded[c].id) # {}
    /\ docs' = {d \in docs : d.id # docLoaded[c].id}
    /\ deletedDocs' = deletedDocs \cup {docLoaded[c].id}
    /\ EndDocCall(c, docLoaded[c].id, TRUE)
    /\ UNCHANGED docSequence

(* approve_document() of the service: the status of the stored document. *)
ApprovedDocument(d) == [d EXCEPT !.status = "approved"]

(* approve_document: load, evaluation and write in one step. *)
ApproveDocument ==
    \E s \in DocSubjects, d \in docs, officeHours \in BOOLEAN :
        /\ Evaluate("approve", s, d, officeHours)
        /\ docs' = (docs \ {d}) \cup {ApprovedDocument(d)}
        /\ changedSince' = [o \in DocCalls |-> changedSince[o] \/ docLoaded[o].id = d.id]
        /\ UNCHANGED <<docSequence, docPc, docCall, docLoaded, deletedDocs>>

DocNext ==
    \/ CreateDocument
    \/ ApproveDocument
    \/ \E c \in DocCalls :
          \/ GetDocumentResource(c) \/ Forbidden(c) \/ GetDocument(c)
          \/ UpdateDocument(c) \/ DeleteDocument(c)

DocSpec == DocInit /\ [][DocNext]_docVars

-----------------------------------------------------------------------------
(* A document once deleted never comes back: a write that was allowed before *)
(* the deletion answers 404, and ids are not given out twice                 *)
(* (document_service.py:63, document_repository.py:57).                      *)
DeletedStayDeleted == \A d \in docs : d.id \notin deletedDocs

(* The lifecycle guard: an archived document is updated or deleted by a      *)
(* caller who is not an admin only when the document changed between that    *)
(* request's load and its write; approval alone has no such guard            *)
(* (abac.py:149, dependencies.py:758).                                       *)
ArchivedKeptUnlessStale ==
    [][\A d \in docs \ docs' : d.status = "archived" =>
          \/ docPc' = docPc
          \/ \E c \in DocCalls :
                /\ docPc[c] = "loaded" /\ docPc'[c] = "idle" /\ docLoaded[c].id = d.id
                /\ docCall[c].by.role = "admin" \/ changedSince[c]]_docVars

(* The lifecycle of a document holds under concurrent requests: what is    *)
(* deleted stays deleted, and what is archived is kept.                    *)
LifecycleHolds == []DeletedStayDeleted /\ ArchivedKeptUnlessStale
=============================================================================
