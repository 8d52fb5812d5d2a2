----------------------------- MODULE DeadLetter -----------------------------
(***************************************************************************)
(* The dead letter queue: process_with_dlq() retries the handler of a      *)
(* message, quarantines what keeps failing and acknowledges the message    *)
(* in either case; redrive_messages() gives quarantined messages back and  *)
(* purge_dlq() discards them.  The quarantine store is one list of         *)
(* the process, shared by every coroutine.                                 *)
(***************************************************************************)
EXTENDS Naturals, Sequences, SequencesExt, FiniteSets

CONSTANTS
  DlMessages,     \* messages of the primary queue
  Redrives,       \* calls of redrive_messages()
  MaxDlRetries,   \* max_retries of process_with_dlq(): the attempts
  MaxAckFaults    \* how often an acknowledgement may raise

ASSUME DeadLetterAssumption ==
  MaxDlRetries \in Nat \ {0} /\ MaxAckFaults \in Nat

VARIABLES
  dlPc,         \* where the processing of a message is
  dlAttempt,    \* attempts made, 0 again once they are spent or the message settled
  succeeded,    \* history: how often the handler succeeded
  quarantined,  \* history: how often the message was quarantined
  store,        \* _quarantine_store
  redrive,      \* the redrive calls: [pc, todo, done, remaining]
  returned,     \* history: how often the message was given back
  counted,      \* history: how often a redrive reported it as redriven
  purged,       \* history: how often it was purged
  ackFaults,    \* messages whose acknowledgement raised
  overlapped    \* history: the store was touched while a redrive was suspended

dlVars == <<dlPc, dlAttempt, succeeded, quarantined, store, redrive, returned, counted,
            purged, ackFaults, overlapped>>
dlHistory == <<returned, counted, purged>>

Zero == [m \in DlMessages |-> 0]
IdleRedrive == [pc |-> "idle", todo |-> <<>>, done |-> <<>>, remaining |-> <<>>]
EndedRedrive == [IdleRedrive EXCEPT !.pc = "done"]

DlInit ==
  /\ dlPc = [m \in DlMessages |-> "queued"]
  /\ dlAttempt = Zero /\ succeeded = Zero /\ quarantined = Zero
  /\ store = <<>>
  /\ redrive = [r \in Redrives |-> IdleRedrive]
  /\ returned = Zero /\ counted = Zero /\ purged = Zero
  /\ ackFaults = <<>>
  /\ overlapped = FALSE

DlGo(m, l) == dlPc' = [dlPc EXCEPT ![m] = l]

Suspended == \E r \in Redrives : redrive[r].pc = "republish"

(* The broker delivers a message to a consumer calling process_with_dlq(). *)
DeliverMessage(m) ==
  /\ dlPc[m] = "queued"
  /\ DlGo(m, "handle")
  /\ UNCHANGED <<dlAttempt, succeeded, quarantined, store, redrive, dlHistory, ackFaults,
                 overlapped>>

(* A failed attempt: the next one while attempts remain. *)
AttemptFails(m) ==
  /\ dlAttempt' = [dlAttempt EXCEPT ![m] = (@ + 1) % MaxDlRetries]
  /\ DlGo(m, IF dlAttempt'[m] # 0 THEN "handle" ELSE "quarantine")

(* await handler(payload). *)
Handle(m) ==
  /\ dlPc[m] = "handle"
  /\ \/ /\ succeeded' = [succeeded EXCEPT ![m] = @ + 1]
        /\ DlGo(m, "ack")
        /\ UNCHANGED dlAttempt
     \/ AttemptFails(m) /\ UNCHANGED succeeded
  /\ UNCHANGED <<quarantined, store, redrive, dlHistory, ackFaults, overlapped>>

(* await message.ack() inside the try: when it raises, the attempt counts  *)
(* as failed although the handler has succeeded.                           *)
AckHandled(m) ==
  /\ dlPc[m] = "ack"
  /\ \/ DlGo(m, "settled") /\ dlAttempt' = [dlAttempt EXCEPT ![m] = 0] /\ UNCHANGED ackFaults
     \/ /\ Len(ackFaults) < MaxAckFaults
        /\ ackFaults' = Append(ackFaults, m)
        /\ AttemptFails(m)
  /\ UNCHANGED <<succeeded, quarantined, store, redrive, dlHistory, overlapped>>

(* route_to_dlq(): an envelope is appended to the store. *)
RouteToDlq(m) ==
  /\ store' = Append(store, m)
  /\ quarantined' = [quarantined EXCEPT ![m] = @ + 1]
  /\ overlapped' = (overlapped \/ Suspended)

(* The retries are spent. *)
Quarantine(m) ==
  /\ dlPc[m] = "quarantine"
  /\ RouteToDlq(m)
  /\ DlGo(m, "ackDead")
  /\ UNCHANGED <<dlAttempt, succeeded, redrive, dlHistory, ackFaults>>

(* The acknowledgement after the quarantine.  When it raises the broker    *)
(* delivers the message again.                                             *)
AckQuarantined(m) ==
  /\ dlPc[m] = "ackDead"
  /\ \/ DlGo(m, "settled") /\ UNCHANGED ackFaults
     \/ /\ Len(ackFaults) < MaxAckFaults
        /\ ackFaults' = Append(ackFaults, m)
        /\ DlGo(m, "queued")
  /\ UNCHANGED <<dlAttempt, succeeded, quarantined, store, redrive, dlHistory, overlapped>>

(* The store without some messages: a redrive or purge with a filter. *)
Without(s, chosen) == SelectSeq(s, LAMBDA m : m \notin chosen)
Only(s, chosen) == SelectSeq(s, LAMBDA m : m \in chosen)

Occurs(s, m) == Cardinality({i \in DOMAIN s : s[i] = m})
AddCounts(f, s) == [m \in DlMessages |-> f[m] + Occurs(s, m)]

(* POST /dlq/redrive: redrive_messages() without a republish_func, which   *)
(* never suspends.                                                         *)
RedriveEndpoint(chosen) ==
  /\ Only(store, chosen) # <<>>
  /\ counted' = AddCounts(counted, Only(store, chosen))
  /\ store' = Without(store, chosen)
  /\ overlapped' = (overlapped \/ Suspended)
  /\ UNCHANGED <<dlPc, dlAttempt, succeeded, quarantined, redrive, returned, purged, ackFaults>>

(* redrive_messages() with a republish_func: candidates and remaining are  *)
(* taken from the store, then every candidate is awaited.                  *)
StartRedrive(r, chosen) ==
  /\ redrive[r].pc = "idle"
  /\ Only(store, chosen) # <<>>
  /\ redrive' = [redrive EXCEPT ![r] = [pc        |-> "republish",
                                        todo      |-> Only(store, chosen),
                                        done      |-> <<>>,
                                        remaining |-> Without(store, chosen)]]
  /\ overlapped' = (overlapped \/ Suspended)
  /\ UNCHANGED <<dlPc, dlAttempt, succeeded, quarantined, store, dlHistory, ackFaults>>

(* await republish_func(env): back into the original queue, where a copy   *)
(* that is settled is delivered again.                                     *)
Republish(r) ==
  LET m == Head(redrive[r].todo)
  IN  /\ redrive[r].pc = "republish" /\ redrive[r].todo # <<>>
      /\ returned' = [returned EXCEPT ![m] = @ + 1]
      /\ redrive' = [redrive EXCEPT ![r].todo = Tail(@), ![r].done = Append(@, m)]
      /\ IF dlPc[m] = "settled" THEN DlGo(m, "queued") ELSE UNCHANGED dlPc
      /\ UNCHANGED <<dlAttempt, succeeded, quarantined, store, counted, purged, ackFaults,
                     overlapped>>

(* republish_func raises: the call ends and the store stays as it is, with *)
(* the messages that were republished before.                              *)
RepublishRaises(r) ==
  /\ redrive[r].pc = "republish" /\ redrive[r].todo # <<>>
  /\ redrive' = [redrive EXCEPT ![r] = EndedRedrive]
  /\ UNCHANGED <<dlPc, dlAttempt, succeeded, quarantined, store, dlHistory, ackFaults, overlapped>>

(* Mutation of FinishRedrive: the candidates stay in the store. *)
MutFinishRedrive(r) ==
  /\ redrive[r].pc = "republish" /\ redrive[r].todo = <<>>
  /\ counted' = AddCounts(counted, redrive[r].done)
  /\ redrive' = [redrive EXCEPT ![r] = EndedRedrive]
  /\ UNCHANGED <<dlPc, dlAttempt, succeeded, quarantined, store, returned, purged, ackFaults,
                 overlapped>>

(* self._quarantine_store = remaining: what was read before the awaits. *)
FinishRedrive(r) ==
  /\ redrive[r].pc = "republish" /\ redrive[r].todo = <<>>
  /\ store' = redrive[r].remaining
  /\ counted' = AddCounts(counted, redrive[r].done)
  /\ redrive' = [redrive EXCEPT ![r] = EndedRedrive]
  /\ UNCHANGED <<dlPc, dlAttempt, succeeded, quarantined, returned, purged, ackFaults, overlapped>>

(* POST /dlq/purge: purge_dlq(), with or without a queue name. *)
PurgeDlq(chosen) ==
  /\ Only(store, chosen) # <<>>
  /\ purged' = AddCounts(purged, Only(store, chosen))
  /\ store' = Without(store, chosen)
  /\ overlapped' = (overlapped \/ Suspended)
  /\ UNCHANGED <<dlPc, dlAttempt, succeeded, quarantined, redrive, returned, counted, ackFaults>>

DlStep(m) == DeliverMessage(m) \/ Handle(m) \/ AckHandled(m) \/ Quarantine(m) \/ AckQuarantined(m)

DlNext ==
  \/ \E m \in DlMessages : DlStep(m)
  \/ \E chosen \in {DlMessages} \cup {{m} : m \in DlMessages} :
       \/ RedriveEndpoint(chosen) \/ PurgeDlq(chosen)
       \/ \E r \in Redrives : StartRedrive(r, chosen)
  \/ \E r \in Redrives : Republish(r) \/ RepublishRaises(r) \/ FinishRedrive(r)

(* The consumer and the broker run; nobody need ever redrive. *)
DlFairness == \A m \in DlMessages : WF_dlVars(DlStep(m))

DlSpec == DlInit /\ [][DlNext]_dlVars /\ DlFairness

(* Every envelope is in the store, or was redriven or purged, and nothing  *)
(* else, unless another operation touched the store while a redrive        *)
(* awaited a republish: what was added then is overwritten and what was    *)
(* removed comes back (dlq_service.py:160).                                *)
EnvelopesConserved ==
  ~overlapped /\ ~Suspended =>
    \A m \in DlMessages :
      quarantined[m] = Occurs(store, m) + counted[m] + purged[m]

(* A message leaves the primary queue only handled or quarantined, and its *)
(* handler succeeds again only after a failed acknowledgement or a redrive.*)
SettledOnlyWithOutcome ==
  \A m \in DlMessages :
    /\ dlPc[m] = "settled" => succeeded[m] + quarantined[m] > 0
    /\ succeeded[m] <= 1 + returned[m] + Occurs(ackFaults, m)

(* A poisoned message never blocks its queue: whatever its handler does,   *)
(* a delivered message is settled in the end.                              *)
QueueUnblocked ==
  \A m \in DlMessages : dlPc[m] = "handle" ~> dlPc[m] = "settled"

(* What the redrive endpoint says (dlq_router.py:44): re-inject            *)
(* dead-lettered messages back into their original queues.                 *)
RedrivenAreReinjected ==
  \A m \in DlMessages : counted[m] = returned[m]

(* No message disappears between its queue, its handler and the            *)
(* quarantine.                                                             *)
MessagesConserved == EnvelopesConserved /\ SettledOnlyWithOutcome
=============================================================================
