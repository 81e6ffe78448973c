------------------------------- MODULE Outbox -------------------------------
(***************************************************************************)
(* The transactional outbox (src/events): rows committed with the change   *)
(* they announce, a fast path and a poller that both enqueue a dispatch    *)
(* job, the BullMQ job it becomes, the worker that publishes the event and *)
(* marks the row, the dead-letter listener and the admin's replay.         *)
(*                                                                         *)
(* A worker holds one job at a time and takes a step per database call.    *)
(* BullMQ is modelled as its options are used here: a job is named by the  *)
(* outbox id, so adding one that exists, in whatever state, does nothing;  *)
(* a failed job stays (removeOnFail: false), a completed one goes away     *)
(* after a while; a job whose worker lost it is stalled, and is given back *)
(* once, then failed.  Database and process failures are faults, at most   *)
(* MaxFaults of them.                                                      *)
(***************************************************************************)
EXTENDS Integers, FiniteSets

CONSTANTS
  OutboxIds,
  Registered,     \* the events whose type has a factory in the registry
  Workers,
  Attempts,       \* DEFAULT_JOB_OPTIONS.attempts
  Batch,          \* rows a poll takes
  MaxFaults, MaxReplays,
  Nobody

ASSUME OutboxConstants ==
  /\ Registered \subseteq OutboxIds
  /\ Attempts \in Nat \ {0} /\ Batch \in Nat \ {0}
  /\ MaxFaults \in Nat /\ MaxReplays \in Nat
  /\ IsFiniteSet(Workers) /\ Nobody \notin Workers

VARIABLES
  row,          \* outbox_events.status
  aged,         \* rows older than POLL_GRACE_PERIOD_MS
  fastPath,     \* rows whose scheduleDispatch call is still to come
  job,          \* the BullMQ job of each row
  run,          \* what each worker is doing
  notices,      \* 'failed' queue events the listener has yet to handle
  published,    \* how often an event was handed to the event bus
  faults,       \* faults so far
  hit,          \* history: faults and replays that concerned each row
  unheard       \* history: rows whose 'failed' event came to nothing

vars == <<row, aged, fastPath, job, run, notices, published, faults, hit, unheard>>

NoJob   == [state |-> "none", worker |-> Nobody, made |-> 0, stalled |-> FALSE]
Job     == [state: {"none", "waiting", "active", "completed", "failed"},
            worker: Workers \cup {Nobody}, made: 0..Attempts, stalled: BOOLEAN]
Idle    == [pc |-> "idle"]
Polling == [pc: {"poll"}, batch: SUBSET OutboxIds]
Dispatching == [pc: {"read", "publish", "write", "done", "throw"}, id: OutboxIds]

TypeOK ==
  /\ row \in [OutboxIds -> {"none", "PENDING", "PUBLISHED", "FAILED"}]
  /\ aged \subseteq OutboxIds /\ fastPath \subseteq OutboxIds
  /\ job \in [OutboxIds -> Job]
  /\ run \in [Workers -> {Idle} \cup Polling \cup Dispatching]
  /\ notices \subseteq OutboxIds /\ unheard \subseteq OutboxIds
  /\ published \in [OutboxIds -> Nat] /\ hit \in [OutboxIds -> Nat]
  /\ faults \in 0..MaxFaults

Init ==
  /\ row = [i \in OutboxIds |-> "none"]
  /\ aged = {} /\ fastPath = {}
  /\ job = [i \in OutboxIds |-> NoJob]
  /\ run = [w \in Workers |-> Idle]
  /\ notices = {} /\ unheard = {}
  /\ published = [i \in OutboxIds |-> 0] /\ hit = [i \in OutboxIds |-> 0]
  /\ faults = 0

---------------------------------------------------------------------------
Fault == faults < MaxFaults /\ faults' = faults + 1                      \* bound
Hits(i) == hit' = [hit EXCEPT ![i] = @ + 1]
Running(w, i) == run[w] \in Dispatching /\ run[w].id = i
Holds(w, i)   == job[i].worker = w
Set(i, s)     == [job[i] EXCEPT !.state = s, !.worker = Nobody]
Doing(w, pc)  == run[w].pc = pc
Go(w, pc)     == run' = [run EXCEPT ![w].pc = pc]
Rest(w)       == run' = [run EXCEPT ![w] = Idle]
SameFaults    == UNCHANGED <<faults, hit, unheard>>

(* OutboxPublisherService.scheduleDispatch: queue.add with jobId = row id  *)
Add(i) == job' = IF job[i] = NoJob THEN [job EXCEPT ![i].state = "waiting"] ELSE job

(* OutboxService.enqueue, committed with the caller's own write; the       *)
(* caller's next call is scheduleDispatch, unless it dies or Redis fails.  *)
Commit(i) ==
  /\ row[i] = "none"
  /\ row' = [row EXCEPT ![i] = "PENDING"]
  /\ fastPath' = fastPath \cup {i}
  /\ UNCHANGED <<aged, job, run, notices, published>> /\ SameFaults

ScheduleDispatch(i) ==
  /\ i \in fastPath
  /\ fastPath' = fastPath \ {i}
  /\ Add(i)
  /\ UNCHANGED <<row, aged, run, notices, published>> /\ SameFaults

LoseFastPath(i) ==
  /\ i \in fastPath
  /\ fastPath' = fastPath \ {i}
  /\ Fault /\ UNCHANGED hit
  /\ UNCHANGED <<row, aged, job, run, notices, published, unheard>>

Age(i) ==
  /\ row[i] = "PENDING" /\ i \notin aged
  /\ aged' = aged \cup {i}
  /\ UNCHANGED <<row, fastPath, job, run, notices, published>> /\ SameFaults

---------------------------------------------------------------------------
(* OutboxPublisherService.enqueuePendingBatch, run by a worker as a job of *)
(* its own: a query without an order, then one add per row.                *)
\* Mutant: the poller looks at the young rows.
DueYoung == {i \in OutboxIds \ aged : row[i] = "PENDING"}
Due == {i \in aged : row[i] = "PENDING"}

PollBegin(w) ==
  /\ run[w] = Idle
  /\ \E batch \in SUBSET Due :
       /\ batch # {}
       /\ Cardinality(batch) = Batch \/ (batch = Due /\ Cardinality(batch) < Batch)
       /\ run' = [run EXCEPT ![w] = [pc |-> "poll", batch |-> batch]]
  /\ UNCHANGED <<row, aged, fastPath, job, notices, published>> /\ SameFaults

PollAdd(w) ==
  /\ Doing(w, "poll")
  /\ \E i \in run[w].batch :
       LET left == run[w].batch \ {i} IN
       /\ Add(i)
       /\ run' = [run EXCEPT ![w] = IF left = {} THEN Idle ELSE [@ EXCEPT !.batch = left]]
  /\ UNCHANGED <<row, aged, fastPath, notices, published>> /\ SameFaults

---------------------------------------------------------------------------
(* OutboxProcessor.process for a dispatch job                              *)
Take(w, i) ==
  /\ run[w] = Idle /\ job[i].state = "waiting"
  /\ job' = [job EXCEPT ![i].state = "active", ![i].worker = w]
  /\ run' = [run EXCEPT ![w] = [pc |-> "read", id |-> i]]
  /\ UNCHANGED <<row, aged, fastPath, notices, published>> /\ SameFaults

\* Mutant: the row's status is not looked at.
ReadRowBlind(w) ==
  /\ Doing(w, "read")
  /\ Go(w, "publish")
  /\ UNCHANGED <<row, aged, fastPath, job, notices, published>> /\ SameFaults

ReadRow(w) ==
  /\ Doing(w, "read")
  /\ Go(w, IF row[run[w].id] = "PENDING" THEN "publish" ELSE "done")
  /\ UNCHANGED <<row, aged, fastPath, job, notices, published>> /\ SameFaults

\* Mutant: an event without a handler is passed over.
PublishSkips(w) ==
  LET i == run[w].id IN
  /\ Doing(w, "publish")
  /\ published' = IF i \in Registered THEN [published EXCEPT ![i] = @ + 1] ELSE published
  /\ Go(w, "write")
  /\ UNCHANGED <<row, aged, fastPath, job, notices>> /\ SameFaults

Publish(w) ==
  LET i == run[w].id IN
  /\ Doing(w, "publish")
  /\ IF i \in Registered
     THEN published' = [published EXCEPT ![i] = @ + 1] /\ Go(w, "write")
     ELSE Go(w, "throw") /\ UNCHANGED published
  /\ UNCHANGED <<row, aged, fastPath, job, notices>> /\ SameFaults

MarkPublished(w) ==
  /\ Doing(w, "write")
  /\ row' = [row EXCEPT ![run[w].id] = "PUBLISHED"]
  /\ Go(w, "done")
  /\ UNCHANGED <<aged, fastPath, job, notices, published>> /\ SameFaults

\* BullMQ refuses the result of a job this worker has lost.
Complete(w) ==
  LET i == run[w].id IN
  /\ Doing(w, "done")
  /\ job' = IF Holds(w, i) THEN [job EXCEPT ![i] = Set(i, "completed")] ELSE job
  /\ Rest(w)
  /\ UNCHANGED <<row, aged, fastPath, notices, published>> /\ SameFaults

\* Mutant: the attempts have no limit.
ThrowForever(w) ==
  LET i == run[w].id IN
  /\ Doing(w, "throw")
  /\ IF Holds(w, i)
     THEN job' = [job EXCEPT ![i] = [Set(i, "waiting") EXCEPT !.made = @ + 1]]
     ELSE UNCHANGED job
  /\ Rest(w)
  /\ UNCHANGED <<row, aged, fastPath, notices, published>> /\ SameFaults

\* attempts: 3 with backoff; the 'failed' event is raised with the last.
Throw(w) ==
  LET i    == run[w].id
      last == job[i].made + 1 >= Attempts IN
  /\ Doing(w, "throw")
  /\ IF Holds(w, i)
     THEN /\ job' = [job EXCEPT ![i] = [Set(i, IF last THEN "failed" ELSE "waiting") EXCEPT !.made = @ + 1]]
          /\ notices' = IF last THEN notices \cup {i} ELSE notices
     ELSE UNCHANGED <<job, notices>>
  /\ Rest(w)
  /\ UNCHANGED <<row, aged, fastPath, published>> /\ SameFaults

\* The row cannot be read, or not be written after the event was published.
DatabaseError(w) ==
  /\ run[w].pc \in {"read", "write"}
  /\ Fault /\ Hits(run[w].id)
  /\ Go(w, "throw")
  /\ UNCHANGED <<row, aged, fastPath, job, notices, published, unheard>>

---------------------------------------------------------------------------
(* A worker dies with its job; BullMQ's stalled check finds it, and fails  *)
(* the job the second time.                                                *)
WorkerDies(w) ==
  /\ run[w] # Idle
  /\ Fault
  /\ IF run[w].pc = "poll" THEN UNCHANGED hit ELSE Hits(run[w].id)
  /\ Rest(w)
  /\ UNCHANGED <<row, aged, fastPath, job, notices, published, unheard>>

GiveBack(i) ==
  /\ job' = [job EXCEPT ![i] = [Set(i, IF job[i].stalled THEN "failed" ELSE "waiting") EXCEPT !.stalled = TRUE]]
  /\ notices' = IF job[i].stalled THEN notices \cup {i} ELSE notices
  /\ UNCHANGED <<row, aged, fastPath, run, published>>

Stall(i) ==
  /\ job[i].state = "active" /\ ~Running(job[i].worker, i)
  /\ GiveBack(i) /\ SameFaults

\* A live worker too slow to renew its hold on the job.
LoseHold(i) ==
  /\ job[i].state = "active" /\ Running(job[i].worker, i)
  /\ Fault /\ Hits(i)
  /\ GiveBack(i) /\ UNCHANGED unheard

RemoveCompleted(i) ==
  /\ job[i].state = "completed"
  /\ job' = [job EXCEPT ![i] = NoJob]
  /\ UNCHANGED <<row, aged, fastPath, run, notices, published>> /\ SameFaults

---------------------------------------------------------------------------
(* OutboxDeadLetterListener.onFailed: whatever the row says by now.        *)
OnFailed(i) ==
  /\ i \in notices
  /\ notices' = notices \ {i}
  /\ row' = [row EXCEPT ![i] = "FAILED"]
  /\ UNCHANGED <<aged, fastPath, job, run, published>> /\ SameFaults

\* The listener is down when the event passes, or its update fails.
MissFailed(i) ==
  /\ i \in notices
  /\ notices' = notices \ {i}
  /\ unheard' = unheard \cup {i}
  /\ Fault /\ UNCHANGED hit
  /\ UNCHANGED <<row, aged, fastPath, job, run, published>>

(* ReplayService.replayById and replaySince publish any stored row again.  *)
Replay(i) ==
  /\ row[i] # "none" /\ i \in Registered
  /\ hit[i] < MaxReplays                                                 \* bound
  /\ published' = [published EXCEPT ![i] = @ + 1]
  /\ Hits(i)
  /\ UNCHANGED <<row, aged, fastPath, job, run, notices, faults, unheard>>

---------------------------------------------------------------------------
Dispatch(w) == ReadRow(w) \/ Publish(w) \/ MarkPublished(w) \/ Complete(w) \/ Throw(w)
Poll(w)     == PollBegin(w) \/ PollAdd(w)
Failure     == \/ \E i \in OutboxIds : LoseFastPath(i) \/ MissFailed(i) \/ LoseHold(i)
               \/ \E w \in Workers : DatabaseError(w) \/ WorkerDies(w)

Next ==
  \/ \E w \in Workers : Dispatch(w) \/ Poll(w) \/ \E i \in OutboxIds : Take(w, i)
  \/ \E i \in OutboxIds : \/ Commit(i) \/ ScheduleDispatch(i) \/ Age(i) \/ Stall(i)
                          \/ RemoveCompleted(i) \/ OnFailed(i) \/ Replay(i)
  \/ Failure

\* What the event loop, the repeatable job, BullMQ's stalled check and its
\* waiting list go on doing.  Nothing forces a commit, a fault or a replay.
Fairness ==
  /\ \A i \in OutboxIds : /\ WF_vars(ScheduleDispatch(i) \/ LoseFastPath(i))
                          /\ WF_vars(Age(i)) /\ WF_vars(Stall(i))
                          /\ WF_vars(OnFailed(i) \/ MissFailed(i))
                          /\ SF_vars(\E w \in Workers : Take(w, i))
  /\ \A w \in Workers : WF_vars(Dispatch(w)) /\ WF_vars(PollAdd(w)) /\ SF_vars(PollBegin(w))

Spec     == Init /\ [][Next]_vars
FairSpec == Spec /\ Fairness

---------------------------------------------------------------------------
(* A row is PUBLISHED only after its event reached the bus, and every      *)
(* further publication is owed to a fault that hit its job or to a replay: *)
(* the fast path, the poller and any number of workers never publish an    *)
(* event twice on their own.                                               *)
PublishedOncePerFault ==
  \A i \in OutboxIds : /\ row[i] = "PUBLISHED" => published[i] > 0
                       /\ published[i] <= 1 + hit[i]

(* The dead-letter view does not lie: a row is FAILED only when BullMQ     *)
(* gave its job up, and the job of an event somebody handles is given up   *)
(* only when workers lost it, or when each of its attempts met a fault of  *)
(* its own.                                                                *)
DeadLettersAreDead ==
  /\ \A i \in OutboxIds : row[i] = "FAILED" => job[i].state = "failed"
  /\ \A i \in Registered : job[i].state = "failed" => job[i].stalled \/ hit[i] >= Attempts

(* What an administrator reads in the table and in the queue is true: both *)
(* of the above, which one blind read or one early event would break.      *)
RowsTruthful == PublishedOncePerFault /\ DeadLettersAreDead

(* The rows, jobs, workers, polls and listeners together implement         *)
(* delivery at least once: a row says PUBLISHED only of a delivered event, *)
(* FAILED only of one nobody handles or some fault disturbed, deliveries   *)
(* repeat only after a fault or a replay, and no row stays PENDING unless  *)
(* the failure of its job went unheard.                                    *)
Promise == INSTANCE AtLeastOnce WITH
  Events <- OutboxIds, Deliverable <- Registered,
  status <- row, deliveries <- published, disturbed <- hit, ignored <- unheard
DeliversAtLeastOnce == Promise!FairSpec

(* Every committed row is settled, PUBLISHED or FAILED, through lost fast  *)
(* paths, dying workers and database errors, unless the dead-letter        *)
(* listener missed the failure of its job.                                 *)
SettledUnlessUnheard ==
  \A i \in OutboxIds : row[i] = "PENDING" ~> (row[i] \in {"PUBLISHED", "FAILED"} \/ i \in unheard)

(* What webhook.service.ts:120-123 claims of an outbox row: the            *)
(* transaction that committed it guarantees that it is never lost.         *)
NeverLost == \A i \in OutboxIds : row[i] = "PENDING" ~> row[i] \in {"PUBLISHED", "FAILED"}
=============================================================================
