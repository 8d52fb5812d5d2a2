------------------------------ MODULE JobQueue ------------------------------
(***************************************************************************)
(* The in-memory job queue: PriorityJobScheduler, a heap ordered by        *)
(* priority, due time and arrival, and JobService, whose workers pop due   *)
(* jobs one at a time, giving way to each other between two pops.          *)
(***************************************************************************)
EXTENDS Integers, Sequences, FiniteSets

CONSTANTS
  JqWorkers,   \* callers of process_due_jobs()
  Priorities,  \* JobPriority: the smaller the more urgent
  Delays,      \* delay_seconds of the requests
  MaxBatch,    \* max_jobs
  MaxJobs,     \* bound: jobs scheduled
  MaxJqTime    \* bound: ticks of the clock

ASSUME JobQueueAssumption ==
  /\ Priorities \subseteq Nat /\ Delays \subseteq Nat
  /\ MaxBatch \in Nat \ {0} /\ MaxJobs \in Nat /\ MaxJqTime \in Nat

VARIABLES
  jqTime,   \* time.time()
  heap,     \* the jobs of _heap
  jqSeq,    \* _sequence_counter
  batch,    \* pops a worker has left in its batch
  ran       \* _processed_history

jobVars == <<jqTime, heap, jqSeq, batch, ran>>

JobInit ==
  /\ jqTime = 0
  /\ heap = {}
  /\ jqSeq = 0
  /\ batch = [w \in JqWorkers |-> 0]
  /\ ran = <<>>

JqTick ==
  /\ jqTime < MaxJqTime
  /\ jqTime' = jqTime + 1
  /\ UNCHANGED <<heap, jqSeq, batch, ran>>

(* Mutation of Before: due times are compared before priorities. *)
MutBefore(a, b) ==
  \/ a.at < b.at
  \/ a.at = b.at /\ a.priority < b.priority
  \/ a.at = b.at /\ a.priority = b.priority /\ a.sequence < b.sequence

(* The order of PriorityJob. *)
Before(a, b) ==
  \/ a.priority < b.priority
  \/ a.priority = b.priority /\ a.at < b.at
  \/ a.priority = b.priority /\ a.at = b.at /\ a.sequence < b.sequence

(* heapq keeps the least job at the root. *)
Root == CHOOSE j \in heap : \A k \in heap \ {j} : Before(j, k)

(* schedule_sync(), under the lock; made is history. *)
ScheduleSync(p, d) ==
  /\ jqSeq' = jqSeq + 1
  /\ heap' = heap \cup {[priority |-> p, at |-> jqTime + d, sequence |-> jqSeq + 1,
                         made |-> Len(ran)]}

(* POST /jobs/schedule. *)
ScheduleJob(p, d) ==
  /\ jqSeq < MaxJobs /\ jqTime + d <= MaxJqTime
  /\ ScheduleSync(p, d)
  /\ UNCHANGED <<jqTime, batch, ran>>

StartBatch(w) ==
  /\ batch[w] = 0
  /\ heap # {}
  /\ batch' = [batch EXCEPT ![w] = MaxBatch]
  /\ UNCHANGED <<jqTime, heap, jqSeq, ran>>

(* pop_due_job_sync(): the root, when it is due; nothing otherwise. *)
PopDueJob == IF heap # {} /\ Root.at <= jqTime THEN {Root} ELSE {}

(* One turn of the loop of process_due_jobs(). *)
ProcessDueJob(w) ==
  /\ batch[w] > 0
  /\ \/ \E j \in PopDueJob :
          /\ heap' = heap \ {j}
          /\ ran' = Append(ran, [job |-> j, at |-> jqTime])
          /\ batch' = [batch EXCEPT ![w] = @ - 1]
     \/ /\ PopDueJob = {}
        /\ batch' = [batch EXCEPT ![w] = 0]
        /\ UNCHANGED <<heap, ran>>
  /\ UNCHANGED <<jqTime, jqSeq>>

JobNext ==
  \/ JqTick
  \/ \E p \in Priorities, d \in Delays : ScheduleJob(p, d)
  \/ \E w \in JqWorkers : StartBatch(w) \/ ProcessDueJob(w)

(* The clock moves on and workers keep being called. *)
JobFairness ==
  /\ WF_jobVars(JqTick)
  /\ \A w \in JqWorkers : WF_jobVars(StartBatch(w)) /\ WF_jobVars(ProcessDueJob(w))

JobSpec == JobInit /\ [][JobNext]_jobVars /\ JobFairness

-----------------------------------------------------------------------------

(* Whatever the workers' turns, jobs of one priority run in the order of   *)
(* their due times, first come first served within one time, and a job     *)
(* runs before a more urgent one only if that one was scheduled later.     *)
RunOrder ==
  \A i, k \in 1..Len(ran) : i < k =>
    LET a == ran[i].job  b == ran[k].job IN
      /\ a.priority > b.priority => b.made >= i
      /\ a.priority = b.priority =>
           a.at < b.at \/ (a.at = b.at /\ a.sequence < b.sequence)

(* No job runs before it is due, twice, or is dropped: the heap and the    *)
(* history are the jobs scheduled.                                         *)
EachJobOnceWhenDue ==
  /\ \A i \in 1..Len(ran) : ran[i].job.at <= ran[i].at
  /\ Cardinality(heap) + Len(ran) = jqSeq
  /\ {j.sequence : j \in heap} \cup {ran[i].job.sequence : i \in 1..Len(ran)} = 1..jqSeq

(* Every scheduled job is run, also one that waits behind a delayed more   *)
(* urgent job.                                                             *)
EveryJobRuns ==
  \A s \in 1..MaxJobs :
    (\E j \in heap : j.sequence = s)
      ~> (\E i \in 1..Len(ran) : ran[i].job.sequence = s)

(* The scheduler's contract: every job runs once, when it is due, in the   *)
(* order of RunOrder.                                                      *)
JobsRunOnceInOrder == RunOrder /\ EachJobOnceWhenDue
=============================================================================
