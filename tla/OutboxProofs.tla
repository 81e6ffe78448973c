----------------------------- MODULE OutboxProofs -----------------------------
(***************************************************************************)
(* The outbox for every set of events, workers and every bound: its types, *)
(* that its rows and dead letters tell the truth, and that each of its     *)
(* steps is a step of AtLeastOnce or changes nothing there.                *)
(***************************************************************************)
EXTENDS Outbox, FiniteSetTheorems, TLAPS

---------------------------------------------------------------------------
(* The inductive invariant, part by part and event by event.               *)
Final(i)          == row[i] \in {"PUBLISHED", "FAILED"}
Holding(w, i, pc) == Running(w, i) /\ Holds(w, i) /\ Doing(w, pc)

\* Nobody works for an event that was not committed.
Known(i) ==
  /\ (i \in fastPath \/ i \in aged \/ i \in notices) => row[i] # "none"
  /\ job[i].state # "none" => row[i] # "none"
  /\ \A w \in Workers : Running(w, i) => row[i] # "none"
  /\ \A w \in Workers : (Doing(w, "poll") /\ i \in run[w].batch) => row[i] # "none"

\* What a worker has in hand when it writes the row, or is done with the job.
InHand(i) ==
  \A w \in Workers : Running(w, i) =>
    /\ Doing(w, "write") => i \in Registered /\ published[i] > 0
    /\ Doing(w, "done") => Final(i)

(* A job given up was lost by workers, or each of its attempts met a fault *)
(* of its own, or nobody handles its event; a job whose worker is gone has *)
(* met one.                                                                *)
JobSound(i) ==
  /\ job[i].state = "active" <=> job[i].worker \in Workers
  /\ job[i].state # "failed" => job[i].made < Attempts
  /\ (job[i].state = "active" /\ ~Running(job[i].worker, i)) => hit[i] > 0
  /\ job[i].stalled => hit[i] > 0
  /\ (i \in notices \/ row[i] = "FAILED") => job[i].state = "failed"
  /\ row[i] = "PUBLISHED" => published[i] > 0
  /\ i \in Registered =>
       /\ job[i].made <= hit[i]
       /\ \A w \in Workers : Holding(w, i, "throw") => job[i].made < hit[i]
       /\ job[i].state = "failed" => job[i].stalled \/ hit[i] >= Attempts

(* Workers that may publish the event although they lost its job.  Each    *)
(* has cost a hit, and so has every publication but one: that of a holder  *)
(* who has yet to write it, or that the row tells of.                      *)
Loose(i)  == {w \in Workers : Running(w, i) /\ ~Holds(w, i) /\ run[w].pc \in {"read", "publish"}}
Served(i) == \/ \E w \in Workers : Holding(w, i, "write")
             \/ Final(i) /\ \A w \in Workers : ~Holding(w, i, "publish")
Counted(i) ==
  IF i \in Registered THEN /\ published[i] + Cardinality(Loose(i)) <= hit[i] + 1
                           /\ ~Served(i) => published[i] + Cardinality(Loose(i)) <= hit[i]
  ELSE published[i] = 0

Sound(i)  == Known(i) /\ InHand(i) /\ JobSound(i) /\ Counted(i)
OutboxInv == TypeOK /\ \A i \in OutboxIds : Sound(i)

---------------------------------------------------------------------------
(* What a worker is doing, told by its pc.                                 *)
LEMMA RunShape ==
  ASSUME TypeOK, NEW w \in Workers
  PROVE  /\ run[w] = Idle \/ run[w] \in Polling \/ run[w] \in Dispatching
         /\ Doing(w, "poll") <=> run[w] \in Polling
         /\ Doing(w, "idle") <=> run[w] = Idle
         /\ run[w].pc \in {"read", "publish", "write", "done", "throw"}
              <=> run[w] \in Dispatching
  BY DEF TypeOK, Idle, Polling, Dispatching, Doing

LEMMA OtherWorkers ==
  ASSUME TypeOK, NEW w \in Workers, NEW q, run' = [run EXCEPT ![w] = q]
  PROVE  run'[w] = q /\ \A v \in Workers \ {w} : run'[v] = run[v]
  BY DEF TypeOK

(* A worker that goes on with its job, and one that is through with it.    *)
LEMMA AfterGo ==
  ASSUME TypeOK, NEW w \in Workers, run[w] \in Dispatching,
         NEW pc \in {"read", "publish", "write", "done", "throw"}, Go(w, pc)
  PROVE  /\ run'[w] \in Dispatching /\ run'[w].id = run[w].id /\ run'[w].pc = pc
         /\ \A v \in Workers \ {w} : run'[v] = run[v]
         /\ run' \in [Workers -> {Idle} \cup Polling \cup Dispatching]
  <1>1. run' = [run EXCEPT ![w] = [run[w] EXCEPT !.pc = pc]]
    BY DEF Go, TypeOK
  <1>2. /\ [run[w] EXCEPT !.pc = pc] \in Dispatching
        /\ [run[w] EXCEPT !.pc = pc].id = run[w].id /\ [run[w] EXCEPT !.pc = pc].pc = pc
    BY DEF Dispatching
  <1>3. QED
    BY <1>1, <1>2, OtherWorkers DEF TypeOK

LEMMA AfterRest ==
  ASSUME TypeOK, NEW w \in Workers, Rest(w)
  PROVE  /\ run'[w] = Idle /\ run'[w].pc = "idle"
         /\ \A v \in Workers \ {w} : run'[v] = run[v]
         /\ run' \in [Workers -> {Idle} \cup Polling \cup Dispatching]
  BY OtherWorkers DEF Rest, Idle, TypeOK

LEMMA IdleRunsNothing == Idle \notin Dispatching /\ Idle \notin Polling /\ Idle.pc = "idle"
  BY DEF Idle, Dispatching, Polling

---------------------------------------------------------------------------
(* The job records a step may write.                                       *)
LEMMA JobFields ==
  ASSUME TypeOK, NEW i \in OutboxIds
  PROVE  /\ job[i].state \in {"none", "waiting", "active", "completed", "failed"}
         /\ job[i].worker \in Workers \cup {Nobody}
         /\ job[i].made \in Nat /\ job[i].made <= Attempts /\ job[i].stalled \in BOOLEAN
         /\ NoJob \in Job /\ NoJob.state = "none" /\ NoJob.worker = Nobody
         /\ NoJob.made = 0 /\ NoJob.stalled = FALSE
         /\ row[i] \in {"none", "PENDING", "PUBLISHED", "FAILED"}
         /\ published[i] \in Nat /\ hit[i] \in Nat /\ Attempts \in Nat \ {0}
  BY OutboxConstants DEF TypeOK, Job, NoJob

LEMMA SetFields ==
  ASSUME TypeOK, NEW i \in OutboxIds, NEW s \in {"waiting", "completed", "failed"}
  PROVE  Set(i, s) \in Job /\ Set(i, s).made = job[i].made
  <1>1. job[i] \in Job
    BY DEF TypeOK
  <1>2. QED
    BY <1>1 DEF Set, Job

LEMMA JobType ==
  ASSUME TypeOK, NEW i \in OutboxIds, NEW q \in Job, job' = [job EXCEPT ![i] = q]
  PROVE  /\ job' \in [OutboxIds -> Job] /\ job'[i] = q
         /\ \A x \in OutboxIds \ {i} : job'[x] = job[x]
  BY DEF TypeOK

LEMMA AddType ==
  ASSUME TypeOK, NEW i \in OutboxIds, Add(i)
  PROVE  /\ job' \in [OutboxIds -> Job]
         /\ \A x \in OutboxIds \ {i} : job'[x] = job[x]
         /\ job'[i] = job[i] \/ (job[i] = NoJob /\ job'[i] = [NoJob EXCEPT !.state = "waiting"])
  <1>1. CASE job[i] = NoJob
    <2>1. job' = [job EXCEPT ![i] = [NoJob EXCEPT !.state = "waiting"]]
      BY <1>1 DEF Add, TypeOK
    <2>2. [NoJob EXCEPT !.state = "waiting"] \in Job
      BY JobFields DEF Job, NoJob
    <2>3. QED
      BY <1>1, <2>1, <2>2, JobType
  <1>2. CASE job[i] # NoJob
    BY <1>2 DEF Add, TypeOK
  <1>3. QED
    BY <1>1, <1>2

---------------------------------------------------------------------------
LEMMA OutboxInitType == Init => TypeOK
  <1>1. NoJob \in Job
    BY OutboxConstants DEF NoJob, Job
  <1>2. QED
    BY <1>1, OutboxConstants DEF Init, TypeOK

LEMMA OutboxTypeStep ==
  ASSUME OutboxInv, [Next]_vars
  PROVE  TypeOK'
  <1>0. TypeOK
    BY DEF OutboxInv
  <1>1. CASE UNCHANGED vars
    BY <1>0, <1>1 DEF TypeOK, vars
  <1>2. ASSUME NEW i \in OutboxIds,
               Commit(i) \/ LoseFastPath(i) \/ Age(i) \/ OnFailed(i) \/ MissFailed(i) \/ Replay(i)
        PROVE  TypeOK'
    BY <1>0, <1>2, OutboxConstants
       DEF Commit, LoseFastPath, Age, OnFailed, MissFailed, Replay, Fault, Hits, SameFaults, TypeOK
  <1>3. ASSUME NEW i \in OutboxIds, ScheduleDispatch(i) PROVE TypeOK'
    <2>1. job' \in [OutboxIds -> Job]
      BY <1>0, <1>3, AddType DEF ScheduleDispatch
    <2>2. QED
      BY <1>0, <1>3, <2>1 DEF ScheduleDispatch, SameFaults, TypeOK
  <1>4. ASSUME NEW i \in OutboxIds, Stall(i) \/ LoseHold(i) PROVE TypeOK'
    <2>1. [Set(i, IF job[i].stalled THEN "failed" ELSE "waiting") EXCEPT !.stalled = TRUE] \in Job
      BY <1>0 DEF Set, TypeOK, Job
    <2>2. job' \in [OutboxIds -> Job]
      BY <1>0, <1>4, <2>1, JobType DEF Stall, LoseHold, GiveBack
    <2>3. QED
      BY <1>0, <1>4, <2>2, OutboxConstants
         DEF Stall, LoseHold, GiveBack, Fault, Hits, SameFaults, TypeOK
  <1>5. ASSUME NEW i \in OutboxIds, RemoveCompleted(i) PROVE TypeOK'
    BY <1>0, <1>5, JobFields, JobType DEF RemoveCompleted, SameFaults, TypeOK
  <1>6. ASSUME NEW w \in Workers, NEW i \in OutboxIds, Take(w, i) PROVE TypeOK'
    <2>1. job' = [job EXCEPT ![i] = [job[i] EXCEPT !.state = "active", !.worker = w]]
      BY <1>0, <1>6 DEF Take, TypeOK
    <2>2. [job[i] EXCEPT !.state = "active", !.worker = w] \in Job
      BY <1>0 DEF TypeOK, Job
    <2>3. job' \in [OutboxIds -> Job]
      BY <1>0, <2>1, <2>2, JobType
    <2>4. [pc |-> "read", id |-> i] \in Dispatching
      BY DEF Dispatching
    <2>5. QED
      BY <1>0, <1>6, <2>3, <2>4 DEF Take, SameFaults, TypeOK
  <1>7. ASSUME NEW w \in Workers, Poll(w) PROVE TypeOK'
    <2>1. CASE PollBegin(w)
      <3>1. PICK batch \in SUBSET Due : run' = [run EXCEPT ![w] = [pc |-> "poll", batch |-> batch]]
        BY <2>1 DEF PollBegin
      <3>2. [pc |-> "poll", batch |-> batch] \in Polling
        BY <1>0 DEF Due, Polling, TypeOK
      <3>3. QED
        BY <1>0, <2>1, <3>1, <3>2 DEF PollBegin, SameFaults, TypeOK
    <2>2. CASE PollAdd(w)
      <3>1. run[w] \in Polling
        BY <1>0, <2>2, RunShape DEF PollAdd
      <3>2. PICK i \in run[w].batch :
              /\ Add(i)
              /\ run' = [run EXCEPT ![w] = IF run[w].batch \ {i} = {} THEN Idle
                                           ELSE [run[w] EXCEPT !.batch = run[w].batch \ {i}]]
        BY <1>0, <2>2 DEF PollAdd, TypeOK
      <3>3. i \in OutboxIds /\ [run[w] EXCEPT !.batch = run[w].batch \ {i}] \in Polling
        BY <3>1, <3>2 DEF Polling
      <3>4. job' \in [OutboxIds -> Job]
        BY <1>0, <3>2, <3>3, AddType
      <3>5. QED
        BY <1>0, <2>2, <3>2, <3>3, <3>4 DEF PollAdd, SameFaults, TypeOK
    <2>3. QED
      BY <1>7, <2>1, <2>2 DEF Poll
  <1>8. ASSUME NEW w \in Workers, ReadRow(w) \/ Publish(w) \/ MarkPublished(w) \/ DatabaseError(w)
        PROVE  TypeOK'
    <2>1. run[w] \in Dispatching /\ run[w].id \in OutboxIds
      BY <1>0, <1>8, RunShape
         DEF ReadRow, Publish, MarkPublished, DatabaseError, Doing, Dispatching
    <2>2. run' \in [Workers -> {Idle} \cup Polling \cup Dispatching]
      BY <1>0, <1>8, <2>1, AfterGo DEF ReadRow, Publish, MarkPublished, DatabaseError
    <2>3. QED
      BY <1>0, <1>8, <2>1, <2>2, OutboxConstants
         DEF ReadRow, Publish, MarkPublished, DatabaseError, Fault, Hits, SameFaults, TypeOK
  <1>9. ASSUME NEW w \in Workers, Complete(w) \/ Throw(w) PROVE TypeOK'
    <2> DEFINE i == run[w].id
    <2>1. i \in OutboxIds
      BY <1>0, <1>9, RunShape DEF Complete, Throw, Doing, Dispatching
    <2>2. run' \in [Workers -> {Idle} \cup Polling \cup Dispatching]
      BY <1>0, <1>9, AfterRest DEF Complete, Throw
    <2>3. CASE Complete(w)
      <3>1. Set(i, "completed") \in Job
        BY <1>0, <2>1, SetFields
      <3>2. job' \in [OutboxIds -> Job]
        BY <1>0, <2>1, <2>3, <3>1 DEF Complete, TypeOK
      <3>3. QED
        BY <1>0, <2>2, <2>3, <3>2 DEF Complete, SameFaults, TypeOK
    <2>4. CASE Throw(w)
      <3>1. ASSUME Holds(w, i), NEW s \in {"failed", "waiting"}
            PROVE  [Set(i, s) EXCEPT !.made = Set(i, s).made + 1] \in Job
        <4>1. job[i].state # "failed" => job[i].made < Attempts
          BY <2>1 DEF OutboxInv, Sound, JobSound
        <4>2. job[i].state = "active"
          <5>1. JobSound(i) /\ job[i].worker \in Workers
            BY <2>1, <3>1 DEF OutboxInv, Sound, Holds
          <5>2. QED
            BY <5>1 DEF JobSound
        <4>3. job[i].made + 1 \in 0..Attempts
          <5>1. job[i].made \in Nat /\ Attempts \in Nat
            BY <1>0, <2>1, JobFields
          <5>2. job[i].made < Attempts
            BY <4>1, <4>2
          <5>3. QED
            BY <5>1, <5>2
        <4>4. Set(i, s).made = job[i].made /\ Set(i, s) \in Job
          BY <1>0, <2>1, <3>1, SetFields
        <4>5. QED
          BY <4>3, <4>4 DEF Job
      <3>2. job' \in [OutboxIds -> Job]
        BY <1>0, <2>1, <2>4, <3>1 DEF Throw, TypeOK
      <3>3. QED
        BY <1>0, <2>1, <2>2, <2>4, <3>2 DEF Throw, SameFaults, TypeOK
    <2>5. QED
      BY <1>9, <2>3, <2>4
  <1>10. ASSUME NEW w \in Workers, WorkerDies(w) PROVE TypeOK'
    <2>1. run[w].pc # "poll" => run[w].id \in OutboxIds
      BY <1>0, <1>10, RunShape DEF WorkerDies, Doing, Dispatching, Idle
    <2>2. run' \in [Workers -> {Idle} \cup Polling \cup Dispatching]
      BY <1>0, <1>10, AfterRest DEF WorkerDies
    <2>3. hit' \in [OutboxIds -> Nat]
      BY <1>0, <1>10, <2>1 DEF WorkerDies, Hits, TypeOK
    <2>4. QED
      BY <1>0, <1>10, <2>2, <2>3, OutboxConstants DEF WorkerDies, Fault, TypeOK
  <1>11. QED
    BY <1>1, <1>2, <1>3, <1>4, <1>5, <1>6, <1>7, <1>8, <1>9, <1>10 DEF Next, Dispatch, Failure

---------------------------------------------------------------------------
(* A step that leaves an event's row, job, counts and workers alone keeps  *)
(* what is known of it.                                                    *)
LEMMA SoundFrame ==
  ASSUME NEW i \in OutboxIds, Sound(i),
         row'[i] = row[i], job'[i] = job[i], hit'[i] = hit[i], published'[i] = published[i],
         i \in notices' => i \in notices,
         (i \in fastPath' \/ i \in aged') => row[i] # "none",
         \A w \in Workers : run'[w] = run[w] \/ (~Running(w, i) /\ ~Running(w, i)'),
         \A w \in Workers : (Doing(w, "poll")' /\ i \in run'[w].batch) => row[i] # "none"
  PROVE  Sound(i)'
  <1>0. Known(i) /\ InHand(i) /\ JobSound(i) /\ Counted(i)
    BY DEF Sound
  <1>1. \A w \in Workers : /\ Running(w, i)' <=> Running(w, i)
                           /\ Holds(w, i)' <=> Holds(w, i)
                           /\ Running(w, i) => run'[w].pc = run[w].pc
    BY DEF Running, Holds
  <1>2. Known(i)'
    BY <1>0, <1>1 DEF Known
  <1>3. InHand(i)'
    BY <1>0, <1>1 DEF InHand, Doing, Final
  <1>4. \A w \in Workers, pc \in {"publish", "write", "throw"} : Holding(w, i, pc)' <=> Holding(w, i, pc)
    BY <1>1 DEF Holding, Doing
  <1>5. JobSound(i)'
    BY <1>0, <1>1, <1>4 DEF JobSound
  <1>6. Loose(i)' = Loose(i) /\ Served(i)' = Served(i)
    BY <1>1, <1>4 DEF Loose, Served, Final
  <1>7. Counted(i)'
    BY <1>0, <1>6 DEF Counted
  <1>8. QED
    BY <1>2, <1>3, <1>5, <1>7 DEF Sound

(* How the number of loose workers can change.                             *)
LEMMA LooseCount ==
  ASSUME TypeOK, TypeOK', NEW i \in OutboxIds
  PROVE  /\ Cardinality(Loose(i)) \in Nat /\ Cardinality(Loose(i))' \in Nat
         /\ Loose(i)' \subseteq Loose(i) => Cardinality(Loose(i))' <= Cardinality(Loose(i))
         /\ \A w : Loose(i)' \subseteq Loose(i) \cup {w}
                     => Cardinality(Loose(i))' <= Cardinality(Loose(i)) + 1
         /\ \A w \in Loose(i) : /\ Cardinality(Loose(i)) > 0
                                /\ Loose(i)' \subseteq Loose(i) \ {w}
                                     => Cardinality(Loose(i))' <= Cardinality(Loose(i)) - 1
  <1>1. IsFiniteSet(Loose(i)) /\ IsFiniteSet(Loose(i)')
    <2>1. Loose(i) \in SUBSET Workers /\ Loose(i)' \in SUBSET Workers
      BY DEF Loose
    <2>2. QED
      BY <2>1, OutboxConstants, FS_Subset
  <1>2. Cardinality(Loose(i)) \in Nat /\ Cardinality(Loose(i)') \in Nat
    BY <1>1, FS_CardinalityType
  <1>3. Loose(i)' \subseteq Loose(i) => Cardinality(Loose(i)') <= Cardinality(Loose(i))
    BY <1>1, FS_Subset
  <1>4. ASSUME NEW w, Loose(i)' \subseteq Loose(i) \cup {w}
        PROVE  Cardinality(Loose(i)') <= Cardinality(Loose(i)) + 1
    <2>1. /\ IsFiniteSet(Loose(i) \cup {w})
          /\ Cardinality(Loose(i) \cup {w}) <= Cardinality(Loose(i)) + 1
          /\ Cardinality(Loose(i) \cup {w}) \in Nat
      <3> DEFINE S == Loose(i)
      <3>1. IsFiniteSet(S) /\ Cardinality(S) \in Nat
        BY <1>1, <1>2
      <3> HIDE DEF S
      <3>2. /\ IsFiniteSet(S \cup {w})
            /\ Cardinality(S \cup {w}) = IF w \in S THEN Cardinality(S) ELSE Cardinality(S) + 1
        BY <3>1, FS_AddElement
      <3>3. QED
        BY <3>1, <3>2 DEF S
    <2>2. Cardinality(Loose(i)') <= Cardinality(Loose(i) \cup {w})
      BY <1>4, <2>1, FS_Subset
    <2>3. QED
      BY <1>2, <2>1, <2>2
  <1>5. ASSUME NEW w \in Loose(i)
        PROVE  /\ Cardinality(Loose(i)) > 0
               /\ Loose(i)' \subseteq Loose(i) \ {w}
                    => Cardinality(Loose(i)') <= Cardinality(Loose(i)) - 1
    <2>1. Cardinality(Loose(i)) # 0
      BY <1>1, FS_EmptySet
    <2>2. IsFiniteSet(Loose(i) \ {w}) /\ Cardinality(Loose(i) \ {w}) = Cardinality(Loose(i)) - 1
      BY <1>1, FS_RemoveElement
    <2>3. Loose(i)' \subseteq Loose(i) \ {w} => Cardinality(Loose(i)') <= Cardinality(Loose(i) \ {w})
      BY <2>2, FS_Subset
    <2>4. QED
      BY <1>2, <2>1, <2>2, <2>3
  <1>6. QED
    BY <1>2, <1>3, <1>4, <1>5

---------------------------------------------------------------------------
(* Steps of the publisher, the poller and the clock: no worker's hold on a *)
(* job changes, and no count.                                              *)
LEMMA SoundQueueing ==
  ASSUME OutboxInv, NEW i \in OutboxIds, TypeOK',
         hit' = hit, published' = published, notices' = notices,
         \A x \in OutboxIds \ {i} : row'[x] = row[x] /\ job'[x] = job[x],
         \/ row'[i] = row[i]
         \/ row[i] = "none" /\ row'[i] = "PENDING",
         \/ job'[i] = job[i]
         \/ job[i] = NoJob /\ job'[i] = [NoJob EXCEPT !.state = "waiting"] /\ row[i] # "none"
         \/ job[i].state = "completed" /\ job'[i] = NoJob,
         \A x \in OutboxIds : (x \in fastPath' \/ x \in aged') => row'[x] # "none",
         \A w \in Workers : run'[w] = run[w] \/ (run[w] \notin Dispatching /\ run'[w] \notin Dispatching),
         \A w \in Workers, x \in OutboxIds : (Doing(w, "poll")' /\ x \in run'[w].batch) => row[x] # "none"
  PROVE  OutboxInv'
  <1>1. TypeOK /\ \A x \in OutboxIds : Sound(x)
    BY DEF OutboxInv
  <1>2. \A w \in Workers, x \in OutboxIds :
           run'[w] = run[w] \/ (~Running(w, x) /\ ~Running(w, x)')
    BY DEF Running
  <1>3. ASSUME NEW x \in OutboxIds \ {i} PROVE Sound(x)'
    BY <1>1, <1>2, <1>3, SoundFrame
  <1>4. \A w \in Workers : /\ Running(w, i)' <=> Running(w, i)
                           /\ Running(w, i) => run'[w] = run[w]
    BY <1>2 DEF Running
  <1>5. Known(i) /\ InHand(i) /\ JobSound(i) /\ Counted(i)
    BY <1>1 DEF Sound
  <1>6. /\ job'[i].worker \in Workers <=> job[i].worker \in Workers
        /\ job'[i].worker \in Workers => job'[i] = job[i]
        /\ \A w \in Workers : Holds(w, i)' <=> Holds(w, i)
    BY <1>1, <1>5, JobFields, OutboxConstants DEF Holds, NoJob, JobSound
  <1>7. \A w \in Workers, pc \in {"publish", "write", "throw"} : Holding(w, i, pc)' <=> Holding(w, i, pc)
    BY <1>4, <1>6 DEF Holding, Doing
  <1>8. Loose(i)' = Loose(i)
    BY <1>4, <1>6 DEF Loose
  <1>9. Final(i)' <=> Final(i)
    BY DEF Final
  <1>10. Counted(i)'
    BY <1>5, <1>7, <1>8, <1>9 DEF Counted, Served
  <1>11. Known(i)'
    BY <1>1, <1>4, <1>5, JobFields DEF Known, NoJob
  <1>12. InHand(i)'
    BY <1>4, <1>5, <1>9 DEF InHand, Doing
  <1>13. JobSound(i)'
    BY <1>1, <1>4, <1>5, <1>6, <1>7, JobFields, OutboxConstants DEF JobSound, NoJob
  <1>14. QED
    BY <1>3, <1>10, <1>11, <1>12, <1>13 DEF OutboxInv, Sound

LEMMA AllKnown ==
  ASSUME OutboxInv
  PROVE  /\ TypeOK /\ \A x \in OutboxIds : Sound(x) /\ Known(x) /\ InHand(x) /\ JobSound(x) /\ Counted(x)
         /\ \A x \in OutboxIds : (x \in fastPath \/ x \in aged) => row[x] # "none"
         /\ \A w \in Workers, x \in OutboxIds : (Doing(w, "poll") /\ x \in run[w].batch) => row[x] # "none"
  BY DEF OutboxInv, Sound, Known

LEMMA SoundPublisher ==
  ASSUME OutboxInv, TypeOK',
         \/ \E i \in OutboxIds : Commit(i) \/ ScheduleDispatch(i) \/ LoseFastPath(i) \/ Age(i)
                                 \/ RemoveCompleted(i)
         \/ \E w \in Workers : Poll(w)
  PROVE  OutboxInv'
  <1>0. TypeOK
    BY AllKnown
  <1>1. /\ \A x \in OutboxIds : (x \in fastPath \/ x \in aged) => row[x] # "none"
        /\ \A w \in Workers, x \in OutboxIds : (Doing(w, "poll") /\ x \in run[w].batch) => row[x] # "none"
    BY AllKnown
  <1>2. ASSUME NEW i \in OutboxIds, Commit(i) PROVE OutboxInv'
    BY <1>0, <1>1, <1>2, SoundQueueing DEF Commit, SameFaults, TypeOK, Doing
  <1>3. ASSUME NEW i \in OutboxIds, ScheduleDispatch(i) PROVE OutboxInv'
    BY <1>0, <1>1, <1>3, AddType, SoundQueueing DEF ScheduleDispatch, SameFaults, Doing
  <1>4. ASSUME NEW i \in OutboxIds, LoseFastPath(i) \/ Age(i) PROVE OutboxInv'
    BY <1>0, <1>1, <1>4, SoundQueueing DEF LoseFastPath, Age, SameFaults, Doing
  <1>5. ASSUME NEW i \in OutboxIds, RemoveCompleted(i) PROVE OutboxInv'
    BY <1>0, <1>1, <1>5, JobFields, JobType, SoundQueueing DEF RemoveCompleted, SameFaults, Doing
  <1>6. ASSUME NEW w \in Workers, PollBegin(w) PROVE OutboxInv'
    <2>1. PICK batch \in SUBSET Due :
            batch # {} /\ run' = [run EXCEPT ![w] = [pc |-> "poll", batch |-> batch]]
      BY <1>6 DEF PollBegin
    <2>2. PICK i \in OutboxIds : TRUE
      BY <1>0, <2>1 DEF Due, TypeOK
    <2>3. /\ run'[w] = [pc |-> "poll", batch |-> batch] /\ run[w] = Idle
          /\ \A v \in Workers \ {w} : run'[v] = run[v]
      BY <1>0, <1>6, <2>1, OtherWorkers DEF PollBegin
    <2>4. [pc |-> "poll", batch |-> batch] \notin Dispatching
      BY DEF Dispatching
    <2>5. \A x \in batch : row[x] # "none"
      BY <2>1 DEF Due
    <2>6. QED
      BY <1>0, <1>1, <1>6, <2>2, <2>3, <2>4, <2>5, IdleRunsNothing, SoundQueueing
         DEF PollBegin, SameFaults, Doing
  <1>7. ASSUME NEW w \in Workers, PollAdd(w) PROVE OutboxInv'
    <2>1. run[w] \in Polling /\ Doing(w, "poll")
      BY <1>0, <1>7, RunShape DEF PollAdd
    <2>2. PICK i \in run[w].batch :
            /\ Add(i)
            /\ run' = [run EXCEPT ![w] = IF run[w].batch \ {i} = {} THEN Idle
                                         ELSE [run[w] EXCEPT !.batch = run[w].batch \ {i}]]
      BY <1>0, <1>7 DEF PollAdd, TypeOK
    <2>3. i \in OutboxIds /\ row[i] # "none"
      BY <1>1, <2>1, <2>2 DEF Polling
    <2>4. /\ run'[w] = Idle \/ (run'[w] \in Polling /\ run'[w].batch \subseteq run[w].batch)
          /\ \A v \in Workers \ {w} : run'[v] = run[v]
      BY <1>0, <2>1, <2>2, OtherWorkers DEF Polling
    <2>5. \A q \in Polling : q \notin Dispatching
      BY DEF Polling, Dispatching
    <2>6. \A v \in Workers, x \in OutboxIds : (Doing(v, "poll")' /\ x \in run'[v].batch) => row[x] # "none"
      BY <1>1, <2>1, <2>4, IdleRunsNothing DEF Doing
    <2>7. \A v \in Workers : run'[v] = run[v] \/ (run[v] \notin Dispatching /\ run'[v] \notin Dispatching)
      BY <2>1, <2>4, <2>5, IdleRunsNothing
    <2>8. QED
      BY <1>0, <1>1, <1>7, <2>2, <2>3, <2>6, <2>7, AddType, SoundQueueing DEF PollAdd, SameFaults
  <1>8. QED
    BY <1>2, <1>3, <1>4, <1>5, <1>6, <1>7 DEF Poll

---------------------------------------------------------------------------
(* BullMQ takes a job from its worker: a worker that still runs becomes    *)
(* loose, which costs it a hit.                                            *)
LEMMA SoundGiveBack ==
  ASSUME OutboxInv, TypeOK', NEW i \in OutboxIds, Stall(i) \/ LoseHold(i)
  PROVE  OutboxInv'
  <1> DEFINE w == job[i].worker
  <1>0. TypeOK
    BY AllKnown
  <1>1. Known(i) /\ InHand(i) /\ JobSound(i) /\ Counted(i)
    BY AllKnown
  <1>2. job[i].state = "active" /\ w \in Workers
    BY <1>1 DEF Stall, LoseHold, JobSound
  <1>3. /\ job'[i].state = IF job[i].stalled THEN "failed" ELSE "waiting"
        /\ job'[i].worker = Nobody /\ job'[i].made = job[i].made /\ job'[i].stalled = TRUE
        /\ \A x \in OutboxIds \ {i} : job'[x] = job[x]
    <2>1. job' = [job EXCEPT ![i] = [Set(i, IF job[i].stalled THEN "failed" ELSE "waiting") EXCEPT !.stalled = TRUE]]
      BY DEF Stall, LoseHold, GiveBack
    <2>2. job[i] \in Job
      BY <1>0 DEF TypeOK
    <2>3. QED
      BY <1>0, <2>1, <2>2 DEF TypeOK, Set, Job
  <1>4. /\ row' = row /\ run' = run /\ published' = published
        /\ fastPath' = fastPath /\ aged' = aged
        /\ \A x \in OutboxIds \ {i} : hit'[x] = hit[x] /\ (x \in notices' => x \in notices)
        /\ i \in notices' => i \in notices \/ job[i].stalled
        /\ hit'[i] = IF Running(w, i) THEN hit[i] + 1 ELSE hit[i]
    BY <1>0 DEF Stall, LoseHold, GiveBack, SameFaults, Hits, TypeOK
  <1>5. ASSUME NEW x \in OutboxIds \ {i} PROVE Sound(x)'
    BY <1>3, <1>4, AllKnown, SoundFrame DEF Doing
  <1>6. \A v \in Workers : (Running(v, i)' <=> Running(v, i)) /\ ~Holds(v, i)'
    BY <1>3, <1>4, OutboxConstants DEF Running, Holds
  <1>7. \A v \in Workers, pc \in {"publish", "write", "throw"} : ~Holding(v, i, pc)'
    BY <1>6 DEF Holding
  <1>8. /\ hit[i] \in Nat /\ hit'[i] \in Nat /\ hit'[i] > 0 /\ job[i].made \in Nat
        /\ published[i] \in Nat /\ Attempts \in Nat \ {0}
    <2>1. /\ hit[i] \in Nat /\ job[i].made \in Nat /\ published[i] \in Nat /\ Attempts \in Nat \ {0}
      BY <1>0, JobFields
    <2>2. ~Running(w, i) => hit[i] > 0
      BY <1>1, <1>2 DEF JobSound
    <2>3. QED
      BY <1>4, <2>1, <2>2
  <1>9. Known(i)'
    BY <1>1, <1>2, <1>4, <1>6 DEF Known, Doing
  <1>10. InHand(i)'
    BY <1>1, <1>4, <1>6 DEF InHand, Doing, Final
  <1>11. JobSound(i)'
    BY <1>0, <1>1, <1>2, <1>3, <1>4, <1>7, <1>8, OutboxConstants DEF JobSound
  <1>12. Counted(i)'
    <2>1. CASE ~Running(w, i)
      <3>1. \A v \in Workers : Running(v, i) => ~Holds(v, i)
        BY <2>1 DEF Holds
      <3>2. Loose(i)' \subseteq Loose(i)
        BY <1>4, <1>6, <3>1 DEF Loose
      <3>3. Served(i) => Served(i)'
        BY <1>4, <1>7, <3>1 DEF Served, Holding, Final
      <3>4. QED
        BY <1>0, <1>1, <1>4, <1>8, <2>1, <3>2, <3>3, LooseCount DEF Counted
    <2>2. CASE Running(w, i) /\ Holding(w, i, "write")
      <3>1. Loose(i)' \subseteq Loose(i)
        BY <1>4, <1>6, <2>2 DEF Loose, Holding, Holds, Doing
      <3>2. QED
        BY <1>0, <1>1, <1>4, <1>8, <2>2, <3>1, LooseCount DEF Counted
    <2>3. CASE Running(w, i) /\ ~Holding(w, i, "write")
      <3>1. Loose(i)' \subseteq Loose(i) \cup {w}
        BY <1>4, <1>6 DEF Loose, Holds
      <3>2. Served(i) => Final(i)
        BY <2>3 DEF Served, Holding, Holds
      <3>3. Final(i) => Served(i)'
        BY <1>4, <1>7 DEF Served, Final
      <3>4. QED
        <4>1. /\ Cardinality(Loose(i))' <= Cardinality(Loose(i)) + 1
              /\ Cardinality(Loose(i)) \in Nat /\ Cardinality(Loose(i))' \in Nat
          BY <1>0, <3>1, LooseCount
        <4>2. hit'[i] = hit[i] + 1
          BY <1>4, <2>3
        <4>3. QED
          BY <1>1, <1>4, <1>8, <3>2, <3>3, <4>1, <4>2 DEF Counted
    <2>4. QED
      BY <2>1, <2>2, <2>3
  <1>13. QED
    BY <1>5, <1>9, <1>10, <1>11, <1>12 DEF OutboxInv, Sound

---------------------------------------------------------------------------
(* The dead-letter listener and the replay: one row or one count changes.  *)
LEMMA SoundListener ==
  ASSUME OutboxInv, TypeOK', NEW i \in OutboxIds, OnFailed(i) \/ MissFailed(i) \/ Replay(i)
  PROVE  OutboxInv'
  <1>0. TypeOK
    BY AllKnown
  <1>1. Known(i) /\ InHand(i) /\ JobSound(i) /\ Counted(i)
    BY AllKnown
  <1>2. /\ job' = job /\ run' = run /\ fastPath' = fastPath /\ aged' = aged
        /\ \A x \in OutboxIds \ {i} : row'[x] = row[x] /\ published'[x] = published[x] /\ hit'[x] = hit[x]
        /\ notices' \subseteq notices
        /\ row[i] # "none" /\ row'[i] # "none"
        /\ row'[i] = row[i] \/ (row'[i] = "FAILED" /\ job[i].state = "failed")
        /\ \/ published'[i] = published[i] /\ hit'[i] = hit[i]
           \/ published'[i] = published[i] + 1 /\ hit'[i] = hit[i] + 1 /\ i \in Registered
    BY <1>0, <1>1 DEF OnFailed, MissFailed, Replay, Hits, SameFaults, TypeOK, Known, JobSound
  <1>3. ASSUME NEW x \in OutboxIds \ {i} PROVE Sound(x)'
    BY <1>2, AllKnown, SoundFrame DEF Doing
  <1>4. \A v \in Workers : /\ Running(v, i)' <=> Running(v, i)
                           /\ Holds(v, i)' <=> Holds(v, i)
    BY <1>2 DEF Running, Holds
  <1>5. \A v \in Workers, pc \in {"publish", "write", "throw"} : Holding(v, i, pc)' <=> Holding(v, i, pc)
    BY <1>2, <1>4 DEF Holding, Doing
  <1>6. hit[i] \in Nat /\ published[i] \in Nat /\ job[i].made \in Nat /\ Attempts \in Nat
    BY <1>0, JobFields
  <1>7. Known(i)'
    BY <1>1, <1>2, <1>4 DEF Known, Doing
  <1>8. InHand(i)'
    BY <1>1, <1>2, <1>4, <1>6 DEF InHand, Doing, Final
  <1>9. JobSound(i)'
    <2>1. hit'[i] >= hit[i] /\ published'[i] >= published[i]
      BY <1>2, <1>6
    <2>2. hit'[i] \in Nat /\ published'[i] \in Nat
      BY <1>2, <1>6
    <2>3. i \in Registered =>
             /\ job[i].made <= hit'[i]
             /\ \A w \in Workers : Holding(w, i, "throw") => job[i].made < hit'[i]
             /\ job[i].state = "failed" => job[i].stalled \/ hit'[i] >= Attempts
      BY <1>1, <1>6, <2>1, <2>2 DEF JobSound
    <2>4. QED
      BY <1>1, <1>2, <1>4, <1>5, <1>6, <2>1, <2>2, <2>3 DEF JobSound
  <1>10. Counted(i)'
    <2>1. Loose(i)' = Loose(i) /\ Cardinality(Loose(i)) \in Nat
      <3>1. Loose(i)' = Loose(i)
        BY <1>2, <1>4 DEF Loose
      <3>2. QED
        BY <1>0, <3>1, LooseCount
    <2>2. job[i].state = "failed" => \A v \in Workers : ~Holding(v, i, "publish")
      BY <1>1, OutboxConstants DEF JobSound, Holding, Holds
    <2>3. Served(i) => Served(i)'
      BY <1>2, <1>5, <2>2 DEF Served, Final
    <2>4. QED
      BY <1>1, <1>2, <1>6, <2>1, <2>3 DEF Counted
  <1>11. QED
    BY <1>3, <1>7, <1>8, <1>9, <1>10 DEF OutboxInv, Sound

---------------------------------------------------------------------------
(* A step of one worker about its event: what it cannot disturb.           *)
LEMMA WorkerFrame ==
  ASSUME OutboxInv, TypeOK', NEW w \in Workers, NEW i \in OutboxIds, Running(w, i),
         \A v \in Workers \ {w} : run'[v] = run[v],
         run'[w] = Idle \/ (run'[w] \in Dispatching /\ run'[w].id = i),
         fastPath' = fastPath, aged' = aged, \A x \in notices' : x \in notices \/ x = i,
         row'[i] = row[i] \/ row'[i] = "PUBLISHED",
         \A x \in OutboxIds \ {i} : /\ row'[x] = row[x] /\ job'[x] = job[x]
                                    /\ published'[x] = published[x] /\ hit'[x] = hit[x]
  PROVE  /\ \A x \in OutboxIds \ {i} : Sound(x)'
         /\ row[i] # "none" /\ Known(i)'
         /\ \A v \in Workers \ {w} : Running(v, i)' <=> Running(v, i)
         /\ Running(w, i)' <=> run'[w] # Idle
         /\ run[w] \in Dispatching /\ run[w].id = i
  <1>0. TypeOK
    BY AllKnown
  <1>1. run[w] \in Dispatching /\ run[w].id = i
    BY DEF Running
  <1>2. row[i] # "none" /\ row'[i] # "none"
    BY AllKnown DEF Known
  <1>3. \A x \in OutboxIds, v \in Workers : Doing(v, "poll")' /\ x \in run'[v].batch => row[x] # "none"
    <2>1. ~Doing(w, "poll")'
      BY IdleRunsNothing DEF Dispatching, Doing
    <2>2. QED
      BY <2>1, AllKnown DEF Doing
  <1>4. ASSUME NEW x \in OutboxIds \ {i} PROVE Sound(x)'
    <2>1. \A v \in Workers : run'[v] = run[v] \/ (~Running(v, x) /\ ~Running(v, x)')
      BY <1>1, IdleRunsNothing DEF Running
    <2>2. QED
      BY <1>3, <2>1, AllKnown, SoundFrame
  <1>5. Known(i)'
    BY <1>2, <1>3 DEF Known
  <1>6. QED
    BY <1>1, <1>2, <1>4, <1>5, IdleRunsNothing DEF Running

(* A worker that goes on with its job, whose record stays as it is.        *)
LEMMA GoFrame ==
  ASSUME OutboxInv, TypeOK', NEW w \in Workers, NEW i \in OutboxIds, Running(w, i),
         NEW pc \in {"publish", "write", "done", "throw"}, Go(w, pc),
         fastPath' = fastPath, aged' = aged, notices' = notices, job' = job,
         row'[i] = row[i] \/ row'[i] = "PUBLISHED",
         \A x \in OutboxIds \ {i} : /\ row'[x] = row[x]
                                    /\ published'[x] = published[x] /\ hit'[x] = hit[x]
  PROVE  /\ \A x \in OutboxIds \ {i} : Sound(x)'
         /\ row[i] # "none" /\ Known(i)'
         /\ \A v \in Workers : (Running(v, i)' <=> Running(v, i)) /\ (Holds(v, i)' <=> Holds(v, i))
         /\ \A v \in Workers \ {w} : run'[v] = run[v]
         /\ \A v \in Workers \ {w}, p \in {"publish", "write", "throw"} :
              Holding(v, i, p)' <=> Holding(v, i, p)
         /\ \A v \in Workers \ {w} : Holds(w, i) => ~Holds(v, i)
         /\ run'[w].pc = pc
  <1>1. TypeOK /\ run[w] \in Dispatching /\ run[w].id = i
    BY AllKnown DEF Running
  <1>2. /\ run'[w] \in Dispatching /\ run'[w].id = i /\ run'[w].pc = pc
        /\ \A v \in Workers \ {w} : run'[v] = run[v]
    BY <1>1, AfterGo
  <1>3. /\ \A x \in OutboxIds \ {i} : Sound(x)'
        /\ row[i] # "none" /\ Known(i)'
        /\ \A v \in Workers \ {w} : Running(v, i)' <=> Running(v, i)
    BY <1>2, WorkerFrame
  <1>4. \A v \in Workers : Holds(v, i)' <=> Holds(v, i)
    BY DEF Holds
  <1>5. \A v \in Workers \ {w}, p \in {"publish", "write", "throw"} :
           Holding(v, i, p)' <=> Holding(v, i, p)
    BY <1>2, <1>3, <1>4 DEF Holding, Doing
  <1>6. Running(w, i)'
    BY <1>2 DEF Running
  <1>7. \A v \in Workers \ {w} : Holds(w, i) => ~Holds(v, i)
    BY DEF Holds
  <1>8. QED
    BY <1>2, <1>3, <1>4, <1>5, <1>6, <1>7

LEMMA SoundRead ==
  ASSUME OutboxInv, TypeOK', NEW w \in Workers, NEW i \in OutboxIds, Running(w, i),
         ReadRow(w) \/ DatabaseError(w)
  PROVE  OutboxInv'
  <1>0. TypeOK
    BY AllKnown
  <1>1. run[w].id = i
    BY DEF Running
  <1>2. PICK pc \in {"publish", "done", "throw"} :
          /\ Go(w, pc)
          /\ pc = "done" => row[i] # "PENDING"
          /\ pc = "publish" => row[i] = "PENDING"
          /\ pc = "throw" <=> hit'[i] = hit[i] + 1
          /\ pc # "throw" => hit'[i] = hit[i] /\ Doing(w, "read")
          /\ run[w].pc \in {"read", "write"}
    BY <1>0, <1>1, JobFields DEF ReadRow, DatabaseError, Hits, SameFaults, Doing, TypeOK
  <1>3. /\ fastPath' = fastPath /\ aged' = aged /\ notices' = notices /\ job' = job
        /\ row' = row /\ published' = published
        /\ \A x \in OutboxIds \ {i} : hit'[x] = hit[x]
    BY <1>0, <1>1 DEF ReadRow, DatabaseError, Hits, SameFaults, TypeOK
  <1>4. /\ \A x \in OutboxIds \ {i} : Sound(x)'
        /\ row[i] # "none" /\ Known(i)'
        /\ \A v \in Workers : (Running(v, i)' <=> Running(v, i)) /\ (Holds(v, i)' <=> Holds(v, i))
        /\ \A v \in Workers \ {w} : run'[v] = run[v]
        /\ \A v \in Workers \ {w}, p \in {"publish", "write", "throw"} :
             Holding(v, i, p)' <=> Holding(v, i, p)
        /\ \A v \in Workers \ {w} : Holds(w, i) => ~Holds(v, i)
        /\ run'[w].pc = pc
    BY <1>1, <1>2, <1>3, GoFrame
  <1>5. InHand(i) /\ JobSound(i) /\ Counted(i)
    BY <1>1, AllKnown
  <1>6. /\ hit[i] \in Nat /\ published[i] \in Nat /\ job[i].made \in Nat /\ Attempts \in Nat
        /\ row[i] \in {"none", "PENDING", "PUBLISHED", "FAILED"}
    BY <1>0, <1>1, JobFields
  <1>7. InHand(i)'
    BY <1>2, <1>3, <1>4, <1>5, <1>6 DEF InHand, Doing, Final
  <1>8. JobSound(i)'
    <2>1. hit'[i] >= hit[i] /\ hit'[i] \in Nat
      BY <1>2, <1>6
    <2>2. i \in Registered =>
             /\ job[i].made <= hit'[i]
             /\ \A v \in Workers : Holding(v, i, "throw")' => job[i].made < hit'[i]
             /\ job[i].state = "failed" => job[i].stalled \/ hit'[i] >= Attempts
      <3>1. ASSUME i \in Registered, NEW v \in Workers, Holding(v, i, "throw")'
            PROVE  job[i].made < hit'[i]
        <4>1. CASE v = w
          <5>1. pc = "throw"
            BY <1>4, <3>1, <4>1 DEF Holding, Doing
          <5>2. QED
            BY <1>2, <1>5, <1>6, <3>1, <5>1 DEF JobSound
        <4>2. CASE v # w
          BY <1>4, <1>5, <1>6, <2>1, <3>1, <4>2 DEF JobSound
        <4>3. QED
          BY <4>1, <4>2
      <3>2. QED
        BY <1>5, <1>6, <2>1, <3>1 DEF JobSound
    <2>3. ASSUME job[i].state = "active", ~Running(job[i].worker, i)' PROVE hit'[i] > 0
      <3>1. job[i].worker \in Workers
        BY <1>5, <2>3 DEF JobSound
      <3>2. ~Running(job[i].worker, i)
        BY <1>3, <1>4, <2>3, <3>1
      <3>3. hit[i] > 0
        BY <1>5, <2>3, <3>2 DEF JobSound
      <3>4. QED
        BY <1>6, <2>1, <3>3
    <2>4. QED
      BY <1>3, <1>5, <1>6, <2>1, <2>2, <2>3 DEF JobSound
  <1>9. Counted(i)'
    <2>1. Loose(i)' \subseteq Loose(i)
      <3>1. ASSUME NEW v \in Loose(i)' PROVE v \in Loose(i)
        BY <1>2, <1>4, <3>1 DEF Loose, Doing
      <3>2. QED
        BY <3>1
    <2>2. /\ Cardinality(Loose(i))' <= Cardinality(Loose(i))
          /\ Cardinality(Loose(i)) \in Nat /\ Cardinality(Loose(i))' \in Nat
      BY <1>0, <1>1, <2>1, LooseCount
    <2>3. CASE pc = "throw"
      <3>1. hit'[i] = hit[i] + 1
        BY <1>2, <2>3
      <3>2. QED
        BY <1>3, <1>5, <1>6, <2>2, <3>1 DEF Counted
    <2>4. CASE pc # "throw"
      <3>1. hit'[i] = hit[i]
        BY <1>2, <2>4
      <3>2. Served(i) => Served(i)'
        <4>1. ASSUME NEW v \in Workers, Holding(v, i, "write") PROVE Served(i)'
          <5>1. v # w
            BY <1>2, <2>4, <4>1 DEF Holding, Doing
          <5>2. QED
            BY <1>4, <4>1, <5>1 DEF Served
        <4>2. ASSUME Final(i), \A v \in Workers : ~Holding(v, i, "publish") PROVE Served(i)'
          <5>1. pc # "publish"
            BY <1>2, <4>2 DEF Final
          <5>2. \A v \in Workers : ~Holding(v, i, "publish")'
            BY <1>4, <4>2, <5>1 DEF Holding, Doing
          <5>3. QED
            BY <1>3, <4>2, <5>2 DEF Served, Final
        <4>3. QED
          BY <4>1, <4>2 DEF Served
      <3>3. QED
        BY <1>3, <1>5, <1>6, <2>2, <3>1, <3>2 DEF Counted
    <2>5. QED
      BY <2>3, <2>4
  <1>10. QED
    BY <1>4, <1>7, <1>8, <1>9 DEF OutboxInv, Sound

LEMMA SoundPublish ==
  ASSUME OutboxInv, TypeOK', NEW w \in Workers, NEW i \in OutboxIds, Running(w, i), Publish(w)
  PROVE  OutboxInv'
  <1>0. TypeOK
    BY AllKnown
  <1>1. run[w].id = i
    BY DEF Running
  <1>2. PICK pc \in {"write", "throw"} :
          /\ Go(w, pc)
          /\ pc = "write" <=> i \in Registered
          /\ published'[i] = IF i \in Registered THEN published[i] + 1 ELSE published[i]
    BY <1>0, <1>1 DEF Publish, TypeOK
  <1>3. /\ fastPath' = fastPath /\ aged' = aged /\ notices' = notices /\ job' = job
        /\ row' = row /\ hit' = hit
        /\ \A x \in OutboxIds \ {i} : published'[x] = published[x]
        /\ run[w].pc = "publish"
    BY <1>0, <1>1 DEF Publish, SameFaults, TypeOK, Doing
  <1>4. /\ \A x \in OutboxIds \ {i} : Sound(x)'
        /\ row[i] # "none" /\ Known(i)'
        /\ \A v \in Workers : (Running(v, i)' <=> Running(v, i)) /\ (Holds(v, i)' <=> Holds(v, i))
        /\ \A v \in Workers \ {w} : run'[v] = run[v]
        /\ \A v \in Workers \ {w}, p \in {"publish", "write", "throw"} :
             Holding(v, i, p)' <=> Holding(v, i, p)
        /\ \A v \in Workers \ {w} : Holds(w, i) => ~Holds(v, i)
        /\ run'[w].pc = pc
    BY <1>1, <1>2, <1>3, GoFrame
  <1>5. InHand(i) /\ JobSound(i) /\ Counted(i)
    BY AllKnown
  <1>6. /\ hit[i] \in Nat /\ published[i] \in Nat /\ job[i].made \in Nat /\ Attempts \in Nat
        /\ row[i] \in {"none", "PENDING", "PUBLISHED", "FAILED"}
    BY <1>0, JobFields
  <1>7. InHand(i)'
    BY <1>2, <1>3, <1>4, <1>5, <1>6 DEF InHand, Doing, Final
  <1>8. JobSound(i)'
    <2>1. published'[i] >= published[i] /\ published'[i] \in Nat
      BY <1>2, <1>6
    <2>2. i \in Registered => \A v \in Workers : Holding(v, i, "throw")' => Holding(v, i, "throw")
      BY <1>2, <1>4 DEF Holding, Doing
    <2>3. ASSUME job[i].state = "active", ~Running(job[i].worker, i)' PROVE hit[i] > 0
      <3>1. job[i].worker \in Workers
        BY <1>5, <2>3 DEF JobSound
      <3>2. ~Running(job[i].worker, i)
        BY <1>3, <1>4, <2>3, <3>1
      <3>3. QED
        BY <1>5, <2>3, <3>2 DEF JobSound
    <2>4. QED
      BY <1>3, <1>5, <1>6, <2>1, <2>2, <2>3 DEF JobSound
  <1>9. Counted(i)'
    <2>1. CASE i \notin Registered
      BY <1>2, <1>5, <2>1 DEF Counted
    <2>2. CASE i \in Registered /\ Holds(w, i)
      <3>1. Served(i)'
        BY <1>2, <1>4, <2>2 DEF Served, Holding, Doing
      <3>2. ~Served(i)
        BY <1>3, <1>4, <2>2 DEF Served, Holding, Doing
      <3>3. Loose(i)' \subseteq Loose(i)
        BY <1>4, <2>2 DEF Loose
      <3>4. /\ Cardinality(Loose(i))' <= Cardinality(Loose(i))
            /\ Cardinality(Loose(i)) \in Nat /\ Cardinality(Loose(i))' \in Nat
        BY <1>0, <3>3, LooseCount
      <3>5. QED
        BY <1>2, <1>3, <1>5, <1>6, <2>2, <3>1, <3>2, <3>4 DEF Counted
    <2>3. CASE i \in Registered /\ ~Holds(w, i)
      <3>1. Served(i) => Served(i)'
        BY <1>3, <1>4, <2>3 DEF Served, Holding, Final
      <3>2. w \in Loose(i) /\ Loose(i)' \subseteq Loose(i) \ {w}
        BY <1>2, <1>3, <1>4, <2>3 DEF Loose
      <3>3. /\ Cardinality(Loose(i))' <= Cardinality(Loose(i)) - 1
            /\ Cardinality(Loose(i)) \in Nat /\ Cardinality(Loose(i))' \in Nat
        BY <1>0, <3>2, LooseCount
      <3>4. QED
        BY <1>2, <1>3, <1>5, <1>6, <2>3, <3>1, <3>3 DEF Counted
    <2>4. QED
      BY <2>1, <2>2, <2>3
  <1>10. QED
    BY <1>4, <1>7, <1>8, <1>9 DEF OutboxInv, Sound

LEMMA SoundMark ==
  ASSUME OutboxInv, TypeOK', NEW w \in Workers, NEW i \in OutboxIds, Running(w, i), MarkPublished(w)
  PROVE  OutboxInv'
  <1>0. TypeOK
    BY AllKnown
  <1>1. run[w].id = i
    BY DEF Running
  <1>3. /\ fastPath' = fastPath /\ aged' = aged /\ notices' = notices /\ job' = job
        /\ published' = published /\ hit' = hit
        /\ row'[i] = "PUBLISHED" /\ \A x \in OutboxIds \ {i} : row'[x] = row[x]
        /\ run[w].pc = "write" /\ Go(w, "done")
    BY <1>0, <1>1 DEF MarkPublished, SameFaults, TypeOK, Doing
  <1>4. /\ \A x \in OutboxIds \ {i} : Sound(x)'
        /\ row[i] # "none" /\ Known(i)'
        /\ \A v \in Workers : (Running(v, i)' <=> Running(v, i)) /\ (Holds(v, i)' <=> Holds(v, i))
        /\ \A v \in Workers \ {w} : run'[v] = run[v]
        /\ \A v \in Workers \ {w}, p \in {"publish", "write", "throw"} :
             Holding(v, i, p)' <=> Holding(v, i, p)
        /\ \A v \in Workers \ {w} : Holds(w, i) => ~Holds(v, i)
        /\ run'[w].pc = "done"
    BY <1>1, <1>3, GoFrame
  <1>5. InHand(i) /\ JobSound(i) /\ Counted(i)
    BY AllKnown
  <1>6. hit[i] \in Nat /\ published[i] \in Nat /\ job[i].made \in Nat /\ Attempts \in Nat
    BY <1>0, JobFields
  <1>7. InHand(i)'
    BY <1>3, <1>4, <1>5, <1>6 DEF InHand, Doing, Final
  <1>8. JobSound(i)'
    <2>1. published[i] > 0
      BY <1>3, <1>5 DEF InHand, Doing
    <2>2. \A v \in Workers : Holding(v, i, "throw")' => Holding(v, i, "throw")
      BY <1>4 DEF Holding, Doing
    <2>3. ASSUME job[i].state = "active", ~Running(job[i].worker, i)' PROVE hit[i] > 0
      <3>1. job[i].worker \in Workers
        BY <1>5, <2>3 DEF JobSound
      <3>2. ~Running(job[i].worker, i)
        BY <1>3, <1>4, <2>3, <3>1
      <3>3. QED
        BY <1>5, <2>3, <3>2 DEF JobSound
    <2>4. QED
      BY <1>3, <1>5, <1>6, <2>1, <2>2, <2>3 DEF JobSound
  <1>9. Counted(i)'
    <2>1. Loose(i)' \subseteq Loose(i)
      <3>1. ASSUME NEW v \in Loose(i)' PROVE v \in Loose(i)
        BY <1>4, <3>1 DEF Loose
      <3>2. QED
        BY <3>1
    <2>2. /\ Cardinality(Loose(i))' <= Cardinality(Loose(i))
          /\ Cardinality(Loose(i)) \in Nat /\ Cardinality(Loose(i))' \in Nat
      BY <1>0, <2>1, LooseCount
    <2>3. ~Served(i)' => ~Served(i)
      <3>1. SUFFICES ASSUME ~Served(i)' PROVE ~Served(i)
        OBVIOUS
      <3>2. PICK v \in Workers : Holding(v, i, "publish")'
        BY <1>3, <3>1 DEF Served, Final
      <3>3. v # w /\ Holding(v, i, "publish")
        BY <1>4, <3>2 DEF Holding, Doing
      <3>4. \A u \in Workers : ~Holding(u, i, "write")
        BY <3>3 DEF Holding, Holds, Doing
      <3>5. QED
        BY <3>3, <3>4 DEF Served
    <2>4. QED
      BY <1>3, <1>5, <1>6, <2>2, <2>3 DEF Counted
  <1>10. QED
    BY <1>4, <1>7, <1>8, <1>9 DEF OutboxInv, Sound

---------------------------------------------------------------------------
LEMMA SoundTake ==
  ASSUME OutboxInv, TypeOK', NEW w \in Workers, NEW i \in OutboxIds, Take(w, i)
  PROVE  OutboxInv'
  <1>0. TypeOK
    BY AllKnown
  <1>1. /\ run[w] = Idle /\ job[i].state = "waiting"
        /\ row' = row /\ fastPath' = fastPath /\ aged' = aged /\ notices' = notices
        /\ published' = published /\ hit' = hit
    BY DEF Take, SameFaults
  <1>2. /\ run'[w] = [pc |-> "read", id |-> i]
        /\ \A v \in Workers \ {w} : run'[v] = run[v]
    BY <1>0, OtherWorkers DEF Take
  <1>3. /\ job'[i].state = "active" /\ job'[i].worker = w
        /\ job'[i].made = job[i].made /\ job'[i].stalled = job[i].stalled
        /\ \A x \in OutboxIds \ {i} : job'[x] = job[x]
    <2>1. job' = [job EXCEPT ![i] = [job[i] EXCEPT !.state = "active", !.worker = w]]
      BY <1>0 DEF Take, TypeOK
    <2>2. job[i] \in Job
      BY <1>0 DEF TypeOK
    <2>3. QED
      BY <1>0, <2>1, <2>2 DEF TypeOK, Job
  <1>4. Known(i) /\ InHand(i) /\ JobSound(i) /\ Counted(i)
    BY AllKnown
  <1>5. ASSUME NEW x \in OutboxIds \ {i} PROVE Sound(x)'
    <2>1. \A v \in Workers : run'[v] = run[v] \/ (~Running(v, x) /\ ~Running(v, x)')
      BY <1>1, <1>2, IdleRunsNothing DEF Running
    <2>2. \A v \in Workers : Doing(v, "poll")' /\ x \in run'[v].batch => row[x] # "none"
      BY <1>2, AllKnown DEF Doing
    <2>3. QED
      BY <1>1, <1>3, <2>1, <2>2, AllKnown, SoundFrame
  <1>6. /\ Running(w, i)' /\ ~Running(w, i)
        /\ \A v \in Workers \ {w} : Running(v, i)' <=> Running(v, i)
        /\ \A v \in Workers \ {w} : ~Holds(v, i)'
        /\ \A v \in Workers : ~Holds(v, i)
    <2>1. [pc |-> "read", id |-> i] \in Dispatching
      BY DEF Dispatching
    <2>2. job[i].worker \notin Workers
      BY <1>1, <1>4 DEF JobSound
    <2>3. QED
      BY <1>1, <1>2, <1>3, <2>1, <2>2, IdleRunsNothing DEF Running, Holds
  <1>7. \A v \in Workers, p \in {"publish", "write", "throw"} : ~Holding(v, i, p)' /\ ~Holding(v, i, p)
    BY <1>2, <1>6 DEF Holding, Doing
  <1>8. Known(i)'
    <2>1. row[i] # "none"
      BY <1>1, <1>4 DEF Known
    <2>2. QED
      BY <1>1, <2>1 DEF Known
  <1>9. InHand(i)'
    BY <1>1, <1>2, <1>4, <1>6 DEF InHand, Doing, Final
  <1>10. JobSound(i)'
    BY <1>1, <1>3, <1>4, <1>6, <1>7 DEF JobSound
  <1>11. Counted(i)'
    <2>1. Loose(i)' = Loose(i)
      BY <1>2, <1>3, <1>6 DEF Loose, Holds
    <2>2. Served(i)' <=> Served(i)
      BY <1>1, <1>7 DEF Served, Final
    <2>3. QED
      BY <1>1, <1>4, <2>1, <2>2 DEF Counted
  <1>12. QED
    BY <1>5, <1>8, <1>9, <1>10, <1>11 DEF OutboxInv, Sound

(* A worker that leaves its event: what holds of the others.               *)
LEMMA RestFrame ==
  ASSUME OutboxInv, TypeOK', NEW w \in Workers, NEW i \in OutboxIds, Running(w, i), Rest(w),
         row' = row, fastPath' = fastPath, aged' = aged, published' = published,
         \A x \in notices' : x \in notices \/ x = i,
         \A x \in OutboxIds \ {i} : job'[x] = job[x] /\ hit'[x] = hit[x]
  PROVE  /\ \A x \in OutboxIds \ {i} : Sound(x)'
         /\ Known(i)' /\ InHand(i)'
         /\ ~Running(w, i)' /\ run'[w] = Idle
         /\ \A v \in Workers \ {w} : (Running(v, i)' <=> Running(v, i)) /\ run'[v] = run[v]
  <1>0. TypeOK
    BY AllKnown
  <1>1. run'[w] = Idle /\ \A v \in Workers \ {w} : run'[v] = run[v]
    BY <1>0, AfterRest
  <1>2. /\ \A x \in OutboxIds \ {i} : Sound(x)'
        /\ Known(i)' /\ ~Running(w, i)'
        /\ \A v \in Workers \ {w} : Running(v, i)' <=> Running(v, i)
    BY <1>1, WorkerFrame
  <1>3. InHand(i)'
    BY <1>1, <1>2, AllKnown DEF InHand, Doing, Final
  <1>4. QED
    BY <1>1, <1>2, <1>3

(* It leaves with the job taken off its hands ...                          *)
LEMMA SoundRelease ==
  ASSUME OutboxInv, TypeOK', NEW w \in Workers, NEW i \in OutboxIds, Running(w, i), Holds(w, i),
         Complete(w) \/ Throw(w)
  PROVE  OutboxInv'
  <1>0. TypeOK
    BY AllKnown
  <1>1. run[w].id = i
    BY DEF Running
  <1>2. Known(i) /\ InHand(i) /\ JobSound(i) /\ Counted(i)
    BY AllKnown
  <1>3. /\ row' = row /\ fastPath' = fastPath /\ aged' = aged /\ published' = published /\ hit' = hit
        /\ \A x \in notices' : x \in notices \/ x = i
        /\ i \in notices' => i \in notices \/ job'[i].state = "failed"
        /\ \A x \in OutboxIds \ {i} : job'[x] = job[x]
        /\ job'[i].worker = Nobody /\ job'[i].stalled = job[i].stalled
        /\ \/ Doing(w, "done") /\ job'[i].state = "completed" /\ job'[i].made = job[i].made
           \/ /\ Doing(w, "throw") /\ job'[i].made = job[i].made + 1
              /\ job'[i].state = IF job[i].made + 1 >= Attempts THEN "failed" ELSE "waiting"
    <2>1. CASE Complete(w)
      <3>1. job' = [job EXCEPT ![i] = Set(i, "completed")]
        BY <1>1, <2>1 DEF Complete
      <3>2. Set(i, "completed").state = "completed" /\ Set(i, "completed").worker = Nobody
            /\ Set(i, "completed").made = job[i].made /\ Set(i, "completed").stalled = job[i].stalled
        BY <1>0 DEF Set, TypeOK, Job
      <3>3. QED
        BY <1>0, <2>1, <3>1, <3>2 DEF Complete, SameFaults, TypeOK
    <2>2. CASE Throw(w)
      <3> DEFINE s == IF job[i].made + 1 >= Attempts THEN "failed" ELSE "waiting"
      <3>1. /\ job' = [job EXCEPT ![i] = [Set(i, s) EXCEPT !.made = Set(i, s).made + 1]]
            /\ notices' = IF job[i].made + 1 >= Attempts THEN notices \cup {i} ELSE notices
        BY <1>1, <2>2 DEF Throw
      <3>2. /\ Set(i, s).state = s /\ Set(i, s).worker = Nobody
            /\ Set(i, s).made = job[i].made /\ Set(i, s).stalled = job[i].stalled
            /\ Set(i, s) \in Job
        <4>1. s \in {"failed", "waiting"} /\ job[i] \in Job
          BY <1>0 DEF TypeOK
        <4> HIDE DEF s
        <4>2. QED
          BY <4>1 DEF Set, Job
      <3>3. job'[i] = [Set(i, s) EXCEPT !.made = job[i].made + 1]
        BY <1>0, <3>1, <3>2 DEF TypeOK
      <3> HIDE DEF s
      <3>4. /\ job'[i].state = s /\ job'[i].worker = Nobody
            /\ job'[i].made = job[i].made + 1 /\ job'[i].stalled = job[i].stalled
        BY <3>2, <3>3 DEF Job
      <3>5. QED
        BY <1>0, <2>2, <3>1, <3>4 DEF Throw, SameFaults, TypeOK, s
    <2>3. QED
      BY <2>1, <2>2
  <1>4. /\ \A x \in OutboxIds \ {i} : Sound(x)'
        /\ Known(i)' /\ InHand(i)'
        /\ ~Running(w, i)' /\ run'[w] = Idle
        /\ \A v \in Workers \ {w} : (Running(v, i)' <=> Running(v, i)) /\ run'[v] = run[v]
    BY <1>3, RestFrame DEF Complete, Throw
  <1>5. /\ hit[i] \in Nat /\ published[i] \in Nat /\ job[i].made \in Nat /\ Attempts \in Nat \ {0}
    BY <1>0, JobFields
  <1>6. \A v \in Workers : ~Holds(v, i)' /\ (v # w => ~Holds(v, i))
    BY <1>3, OutboxConstants DEF Holds
  <1>7. \A v \in Workers, p \in {"publish", "write", "throw"} :
           ~Holding(v, i, p)' /\ (p # "throw" => ~Holding(v, i, p))
    BY <1>3, <1>6 DEF Holding, Doing
  <1>8. JobSound(i)'
    <2>1. job[i].state = "active" /\ i \notin notices /\ row[i] # "FAILED"
      BY <1>2 DEF JobSound, Holds
    <2>2. job[i].made < Attempts
      BY <1>2, <2>1 DEF JobSound
    <2>3. ASSUME i \in Registered, Doing(w, "throw") PROVE job[i].made < hit[i]
      BY <1>2, <2>3 DEF JobSound, Holding
    <2>4. /\ job'[i].state # "active" /\ job'[i].worker \notin Workers
          /\ job'[i].state # "failed" => job'[i].made < Attempts
      BY <1>3, <1>5, <2>2, OutboxConstants
    <2>5. i \in Registered => job'[i].made <= hit[i] /\ (job'[i].state = "failed" => hit[i] >= Attempts)
      <3>1. CASE Doing(w, "done")
        BY <1>2, <1>3, <3>1 DEF JobSound, Doing
      <3>2. CASE Doing(w, "throw")
        BY <1>3, <1>5, <2>3, <3>2 DEF Doing
      <3>3. QED
        BY <1>3, <3>1, <3>2
    <2>6. QED
      BY <1>2, <1>3, <1>7, <2>1, <2>4, <2>5 DEF JobSound
  <1>9. Counted(i)'
    <2>1. Loose(i)' \subseteq Loose(i)
      BY <1>4, <1>6 DEF Loose
    <2>2. /\ Cardinality(Loose(i))' <= Cardinality(Loose(i))
          /\ Cardinality(Loose(i)) \in Nat /\ Cardinality(Loose(i))' \in Nat
      BY <1>0, <2>1, LooseCount
    <2>3. Served(i) => Served(i)'
      BY <1>3, <1>7 DEF Served, Final
    <2>4. QED
      BY <1>2, <1>3, <1>5, <2>2, <2>3 DEF Counted
  <1>10. QED
    BY <1>4, <1>8, <1>9 DEF OutboxInv, Sound

(* ... or after it lost the job, or dies.                                  *)
LEMMA SoundLeave ==
  ASSUME OutboxInv, TypeOK', NEW w \in Workers, NEW i \in OutboxIds, Running(w, i),
         ((Complete(w) \/ Throw(w)) /\ ~Holds(w, i)) \/ WorkerDies(w)
  PROVE  OutboxInv'
  <1>0. TypeOK
    BY AllKnown
  <1>1. run[w].id = i /\ ~Doing(w, "poll")
    BY <1>0, RunShape DEF Running, Polling, Dispatching
  <1>2. Known(i) /\ InHand(i) /\ JobSound(i) /\ Counted(i)
    BY AllKnown
  <1>3. /\ row' = row /\ fastPath' = fastPath /\ aged' = aged /\ published' = published
        /\ notices' = notices /\ job' = job
        /\ \A x \in OutboxIds \ {i} : hit'[x] = hit[x]
        /\ \/ hit'[i] = hit[i] + 1
           \/ hit'[i] = hit[i] /\ ~Holds(w, i) /\ ~Doing(w, "publish") /\ ~Doing(w, "write")
    BY <1>0, <1>1 DEF Complete, Throw, WorkerDies, SameFaults, Hits, TypeOK, Doing
  <1>4. /\ \A x \in OutboxIds \ {i} : Sound(x)'
        /\ Known(i)' /\ InHand(i)'
        /\ ~Running(w, i)' /\ run'[w] = Idle
        /\ \A v \in Workers \ {w} : (Running(v, i)' <=> Running(v, i)) /\ run'[v] = run[v]
    BY <1>3, RestFrame DEF Complete, Throw, WorkerDies
  <1>5. hit[i] \in Nat /\ published[i] \in Nat /\ job[i].made \in Nat /\ Attempts \in Nat
    BY <1>0, JobFields
  <1>6. \A v \in Workers : Holds(v, i)' <=> Holds(v, i)
    BY <1>3 DEF Holds
  <1>7. \A v \in Workers, p \in {"publish", "write", "throw"} :
           /\ Holding(v, i, p)' <=> (v # w /\ Holding(v, i, p))
           /\ hit'[i] = hit[i] => (Holding(v, i, p)' <=> Holding(v, i, p))
    BY <1>3, <1>4, <1>5, <1>6 DEF Holding, Doing
  <1>8. hit'[i] \in Nat /\ hit'[i] >= hit[i]
    BY <1>3, <1>5
  <1>9. JobSound(i)'
    <2>1. ASSUME job[i].state = "active", ~Running(job[i].worker, i)' PROVE hit'[i] > 0
      <3>1. job[i].worker \in Workers
        BY <1>2, <2>1 DEF JobSound
      <3>2. CASE ~Running(job[i].worker, i)
        BY <1>2, <1>5, <1>8, <2>1, <3>2 DEF JobSound
      <3>3. CASE Running(job[i].worker, i)
        <4>1. job[i].worker = w
          BY <1>3, <1>4, <2>1, <3>1, <3>3
        <4>2. QED
          BY <1>3, <1>5, <4>1 DEF Holds
      <3>4. QED
        BY <3>2, <3>3
    <2>2. i \in Registered =>
             /\ job[i].made <= hit'[i]
             /\ \A v \in Workers : Holding(v, i, "throw")' => job[i].made < hit'[i]
             /\ job[i].state = "failed" => job[i].stalled \/ hit'[i] >= Attempts
      BY <1>2, <1>5, <1>7, <1>8 DEF JobSound
    <2>3. QED
      BY <1>2, <1>3, <1>5, <1>8, <2>1, <2>2 DEF JobSound
  <1>10. Counted(i)'
    <2>1. Loose(i)' \subseteq Loose(i)
      BY <1>4, <1>6 DEF Loose
    <2>2. /\ Cardinality(Loose(i))' <= Cardinality(Loose(i))
          /\ Cardinality(Loose(i)) \in Nat /\ Cardinality(Loose(i))' \in Nat
      BY <1>0, <2>1, LooseCount
    <2>3. CASE hit'[i] = hit[i] + 1
      BY <1>2, <1>3, <1>5, <2>2, <2>3 DEF Counted
    <2>4. CASE hit'[i] = hit[i]
      <3>1. Served(i) => Served(i)'
        BY <1>3, <1>7, <2>4 DEF Served, Final
      <3>2. QED
        BY <1>2, <1>3, <1>5, <2>2, <2>4, <3>1 DEF Counted
    <2>5. QED
      BY <1>3, <2>3, <2>4
  <1>11. QED
    BY <1>4, <1>9, <1>10 DEF OutboxInv, Sound

LEMMA SoundPollDies ==
  ASSUME OutboxInv, TypeOK', NEW w \in Workers, WorkerDies(w), Doing(w, "poll")
  PROVE  OutboxInv'
  <1>0. TypeOK
    BY AllKnown
  <1>1. /\ run'[w] = Idle /\ run[w] \notin Dispatching
        /\ \A v \in Workers \ {w} : run'[v] = run[v]
    BY <1>0, AfterRest, RunShape DEF WorkerDies, Polling, Dispatching
  <1>2. /\ row' = row /\ fastPath' = fastPath /\ aged' = aged /\ published' = published
        /\ notices' = notices /\ job' = job /\ hit' = hit
    BY DEF WorkerDies, Doing
  <1>3. ASSUME NEW x \in OutboxIds PROVE Sound(x)'
    <2>1. \A v \in Workers : run'[v] = run[v] \/ (~Running(v, x) /\ ~Running(v, x)')
      BY <1>1, IdleRunsNothing DEF Running
    <2>2. \A v \in Workers : Doing(v, "poll")' /\ x \in run'[v].batch => row[x] # "none"
      BY <1>1, IdleRunsNothing, AllKnown DEF Doing
    <2>3. QED
      BY <1>2, <2>1, <2>2, AllKnown, SoundFrame
  <1>4. QED
    BY <1>3 DEF OutboxInv

---------------------------------------------------------------------------
(* Every step a worker takes about its event has one.                      *)
LEMMA RunsOne ==
  ASSUME TypeOK, NEW w \in Workers,
         \/ Dispatch(w) \/ DatabaseError(w)
         \/ WorkerDies(w) /\ ~Doing(w, "poll")
  PROVE  run[w].id \in OutboxIds /\ Running(w, run[w].id)
  <1>1. run[w] \in Dispatching
    BY RunShape DEF Dispatch, ReadRow, Publish, MarkPublished, Complete, Throw, DatabaseError,
                    WorkerDies, Doing
  <1>2. QED
    BY <1>1 DEF Running, Dispatching

LEMMA OutboxStep ==
  ASSUME OutboxInv, [Next]_vars
  PROVE  OutboxInv'
  <1>0. TypeOK' /\ TypeOK
    BY OutboxTypeStep, AllKnown
  <1>1. CASE UNCHANGED vars
    <2>1. \A x \in OutboxIds : Sound(x)'
      BY <1>1, AllKnown, SoundFrame DEF vars, Doing
    <2>2. QED
      BY <1>0, <2>1 DEF OutboxInv
  <1>2. ASSUME NEW w \in Workers, Dispatch(w) \/ DatabaseError(w) \/ (WorkerDies(w) /\ ~Doing(w, "poll"))
        PROVE  OutboxInv'
    <2>1. PICK i \in OutboxIds : Running(w, i)
      BY <1>0, <1>2, RunsOne
    <2>2. QED
      BY <1>0, <1>2, <2>1, SoundRead, SoundPublish, SoundMark, SoundRelease, SoundLeave DEF Dispatch
  <1>3. QED
    BY <1>0, <1>1, <1>2, SoundPollDies, SoundTake, SoundPublisher, SoundGiveBack, SoundListener
       DEF Next, Failure

LEMMA OutboxInvariant == Spec => []OutboxInv
  <1>1. Init => OutboxInv
    <2> SUFFICES ASSUME Init PROVE OutboxInv
      OBVIOUS
    <2>1. TypeOK
      BY OutboxInitType
    <2>2. ASSUME NEW i \in OutboxIds PROVE Sound(i)
      <3>1. /\ row[i] = "none" /\ published[i] = 0 /\ hit[i] = 0 /\ job[i] = NoJob
            /\ \A w \in Workers : run[w] = Idle /\ ~Running(w, i) /\ ~Doing(w, "poll")
            /\ notices = {} /\ fastPath = {} /\ aged = {}
        BY IdleRunsNothing DEF Init, Running, Doing
      <3>2. Loose(i) = {} /\ Cardinality({}) = 0
        BY <3>1, FS_EmptySet DEF Loose
      <3>3. \A w \in Workers, pc \in {"publish", "write", "throw"} : ~Holding(w, i, pc)
        BY <3>1 DEF Holding
      <3>4. Known(i) /\ InHand(i)
        BY <3>1 DEF Known, InHand, NoJob
      <3>5. JobSound(i)
        BY <3>1, <3>3, OutboxConstants DEF JobSound, NoJob
      <3>6. Counted(i)
        BY <3>1, <3>2 DEF Counted
      <3>7. QED
        BY <3>4, <3>5, <3>6 DEF Sound
    <2>3. QED
      BY <2>1, <2>2 DEF OutboxInv
  <1>2. QED
    BY <1>1, OutboxStep, PTL DEF Spec

---------------------------------------------------------------------------
(* Every variable of the outbox keeps its type: a job's attempts never     *)
(* exceed their limit, a worker's batch never holds a row that is not one. *)
THEOREM OutboxTypeCorrect == Spec => []TypeOK
  <1>1. OutboxInv => TypeOK
    BY DEF OutboxInv
  <1>2. QED
    BY <1>1, OutboxInvariant, PTL

(* The rows, the event bus and the queue never tell different stories: no  *)
(* row is PUBLISHED before its event was, no event is published again      *)
(* without a fault or a replay of its own, and no row is FAILED whose job  *)
(* was not given up for cause.                                             *)
THEOREM RowsAlwaysTruthful == Spec => []RowsTruthful
  <1>1. OutboxInv => RowsTruthful
    <2> SUFFICES ASSUME OutboxInv PROVE RowsTruthful
      OBVIOUS
    <2>1. ASSUME NEW i \in OutboxIds
          PROVE  (row[i] = "PUBLISHED" => published[i] > 0) /\ published[i] <= 1 + hit[i]
      <3>1. TypeOK /\ JobSound(i) /\ Counted(i)
        BY AllKnown
      <3>2. Cardinality(Loose(i)) \in Nat
        <4>1. Loose(i) \in SUBSET Workers
          BY DEF Loose
        <4>2. QED
          BY <4>1, OutboxConstants, FS_Subset, FS_CardinalityType
      <3>3. published[i] \in Nat /\ hit[i] \in Nat
        BY <3>1, JobFields
      <3>4. QED
        BY <3>1, <3>2, <3>3 DEF JobSound, Counted
    <2>2. DeadLettersAreDead
      BY AllKnown, OutboxConstants DEF DeadLettersAreDead, JobSound
    <2>3. QED
      BY <2>1, <2>2 DEF RowsTruthful, PublishedOncePerFault
  <1>2. QED
    BY <1>1, OutboxInvariant, PTL

---------------------------------------------------------------------------
(* A publication is one that is owed: the first, or one for each hit.      *)
LEMMA PublishOwed ==
  ASSUME OutboxInv, NEW w \in Workers, NEW i \in OutboxIds, Running(w, i), Doing(w, "publish"),
         i \in Registered
  PROVE  published[i] <= hit[i]
  <1>1. TypeOK /\ Counted(i) /\ published[i] \in Nat /\ hit[i] \in Nat
    BY AllKnown, JobFields
  <1>2. IsFiniteSet(Loose(i)) /\ Cardinality(Loose(i)) \in Nat
    <2>1. Loose(i) \in SUBSET Workers
      BY DEF Loose
    <2>2. QED
      BY <2>1, OutboxConstants, FS_Subset, FS_CardinalityType
  <1>3. CASE Holds(w, i)
    <2>1. ~Served(i)
      BY <1>3 DEF Served, Holding, Holds, Doing
    <2>2. QED
      BY <1>1, <1>2, <2>1 DEF Counted
  <1>4. CASE ~Holds(w, i)
    <2>1. w \in Loose(i)
      BY <1>4 DEF Loose, Doing
    <2>2. Cardinality(Loose(i)) # 0
      BY <1>2, <2>1, FS_EmptySet
    <2>3. QED
      BY <1>1, <1>2, <2>2 DEF Counted
  <1>5. QED
    BY <1>3, <1>4

(* A job that was given up belongs to a hopeless event.                    *)
LEMMA GivenUpHopeless ==
  ASSUME OutboxInv, NEW i \in OutboxIds, i \in notices
  PROVE  row[i] # "none" /\ Promise!Hopeless(i)
  <1>1. /\ TypeOK /\ Known(i) /\ JobSound(i)
        /\ hit[i] \in Nat /\ Attempts \in Nat \ {0}
    BY AllKnown, JobFields
  <1>2. row[i] # "none" /\ job[i].state = "failed"
    BY <1>1 DEF Known, JobSound
  <1>3. i \in Registered => hit[i] > 0
    <2>1. job[i].stalled => hit[i] > 0
      BY <1>1 DEF JobSound
    <2>2. i \in Registered => job[i].stalled \/ hit[i] >= Attempts
      BY <1>1, <1>2 DEF JobSound
    <2>3. QED
      BY <1>1, <2>1, <2>2
  <1>4. QED
    BY <1>2, <1>3 DEF Promise!Hopeless

LEMMA PromiseStep ==
  ASSUME OutboxInv, [Next]_vars
  PROVE  [Promise!Next]_(Promise!vars)
  <1>0. TypeOK
    BY AllKnown
  <1>1. CASE UNCHANGED vars
    BY <1>1 DEF vars, Promise!vars
  <1>2. ASSUME NEW i \in OutboxIds, Commit(i) PROVE Promise!Commit(i)
    BY <1>2 DEF Commit, SameFaults, Promise!Commit, Promise!Committed
  <1>3. ASSUME NEW i \in OutboxIds, Replay(i) PROVE Promise!Replay(i)
    BY <1>3 DEF Replay, Hits, Promise!Replay, Promise!Committed
  <1>4. ASSUME NEW i \in OutboxIds, OnFailed(i) PROVE Promise!GiveUp(i)
    BY <1>4, GivenUpHopeless DEF OnFailed, SameFaults, Promise!GiveUp, Promise!Committed
  <1>5. ASSUME NEW i \in OutboxIds, MissFailed(i) PROVE Promise!Ignore(i)
    BY <1>5, GivenUpHopeless DEF MissFailed, Promise!Ignore, Promise!Committed
  <1>6. ASSUME NEW i \in OutboxIds, LoseHold(i) PROVE Promise!Disturb(i)
    <2>1. row[i] # "none"
      BY <1>6, AllKnown DEF LoseHold, Known
    <2>2. QED
      BY <1>6, <2>1 DEF LoseHold, GiveBack, Hits, Promise!Disturb, Promise!Committed
  <1>7. ASSUME NEW w \in Workers, DatabaseError(w) \/ (WorkerDies(w) /\ ~Doing(w, "poll"))
        PROVE  Promise!Disturb(run[w].id)
    <2>1. run[w].id \in OutboxIds /\ row[run[w].id] # "none"
      BY <1>0, <1>7, RunsOne, AllKnown DEF Known
    <2>2. QED
      BY <1>7, <2>1 DEF DatabaseError, WorkerDies, Hits, Doing, Promise!Disturb, Promise!Committed
  <1>8. ASSUME NEW w \in Workers, Publish(w), run[w].id \in Registered
        PROVE  Promise!Deliver(run[w].id)
    <2>1. run[w].id \in OutboxIds /\ Running(w, run[w].id) /\ Doing(w, "publish")
      BY <1>0, <1>8, RunsOne DEF Dispatch, Publish
    <2>2. row[run[w].id] # "none" /\ published[run[w].id] <= hit[run[w].id]
      BY <1>8, <2>1, AllKnown, PublishOwed DEF Known
    <2>3. QED
      BY <1>8, <2>2 DEF Publish, SameFaults, Promise!Deliver, Promise!Committed
  <1>9. ASSUME NEW w \in Workers, MarkPublished(w) PROVE Promise!Settle(run[w].id)
    <2>1. run[w].id \in OutboxIds /\ Running(w, run[w].id) /\ Doing(w, "write")
      BY <1>0, <1>9, RunsOne DEF Dispatch, MarkPublished
    <2>2. published[run[w].id] > 0
      BY <2>1, AllKnown DEF InHand
    <2>3. QED
      BY <1>9, <2>2 DEF MarkPublished, SameFaults, Promise!Settle
  <1>10. ASSUME NEW i \in OutboxIds,
                ScheduleDispatch(i) \/ LoseFastPath(i) \/ Age(i) \/ Stall(i) \/ RemoveCompleted(i)
         PROVE  UNCHANGED Promise!vars
    BY <1>10 DEF ScheduleDispatch, LoseFastPath, Age, Stall, GiveBack, RemoveCompleted, SameFaults,
                 Promise!vars
  <1>11. ASSUME NEW w \in Workers,
                \/ ReadRow(w) \/ Complete(w) \/ Throw(w) \/ Poll(w)
                \/ \E i \in OutboxIds : Take(w, i)
                \/ Publish(w) /\ run[w].id \notin Registered
                \/ WorkerDies(w) /\ Doing(w, "poll")
         PROVE  UNCHANGED Promise!vars
    BY <1>11 DEF ReadRow, Complete, Throw, Poll, PollBegin, PollAdd, Take, Publish, WorkerDies,
                 SameFaults, Doing, Promise!vars
  <1>12. \A w \in Workers : (Dispatch(w) \/ DatabaseError(w) \/ (WorkerDies(w) /\ ~Doing(w, "poll")))
                              => run[w].id \in OutboxIds
    BY <1>0, RunsOne
  <1>13. QED
    BY <1>1, <1>2, <1>3, <1>4, <1>5, <1>6, <1>7, <1>8, <1>9, <1>10, <1>11, <1>12
       DEF Next, Dispatch, Failure, Promise!Next

(* Rows, jobs, polls, workers and listeners implement delivery at least    *)
(* once: each of their steps is one that AtLeastOnce allows, or none.      *)
THEOREM ImplementsAtLeastOnce == Spec => Promise!Spec
  <1>1. Init => Promise!Init
    BY DEF Init, Promise!Init
  <1>2. QED
    BY <1>1, PromiseStep, OutboxInvariant, PTL DEF Spec, Promise!Spec
=============================================================================
