--------------------------- MODULE Notifications ----------------------------
(***************************************************************************)
(* Notifications to one user: preferences, the deliveries of a notice, one *)
(* per channel, and the BullMQ jobs that carry them out                    *)
(* (src/notifications).                                                    *)
(*                                                                         *)
(* notify writes the notice, then for each channel the delivery and its    *)
(* job: nothing ties them together.  BullMQ is external: a job that throws *)
(* is tried again until its attempts are used up; one whose worker is lost *)
(* or slow is given to another.  Templates and texts are left out, and the *)
(* user stays.                                                             *)
(***************************************************************************)
EXTENDS Integers, FiniteSets

CONSTANTS
  Notices,
  Channels,      \* EMAIL, PUSH, IN_APP
  Workers,
  Attempts,      \* attempts of DEFAULT_JOB_OPTIONS
  MaxFaults      \* bound on deaths, database errors and jobs taken away

ASSUME NotificationConstants ==
  /\ Channels \subseteq {"EMAIL", "PUSH", "IN_APP"} /\ "nobody" \notin Workers
  /\ Attempts \in Nat \ {0} /\ MaxFaults \in Nat

VARIABLES
  preferences,   \* whether the user has a row, and the enabled channels
  notify,        \* the handler that makes each notice
  delivery,      \* notification_deliveries.status by notice and channel
  job,           \* the job of a delivery: state, attempts made, its worker
  worker,        \* what each worker is doing
  tries,         \* history: attempts of a delivery that got as far as sending
  sent,          \* history: how often it went out
  faulty,        \* history: deliveries met by a fault, and notices cut short
  mishaps        \* history: number of faults

handler == <<preferences, notify>>
traces  == <<tries, sent, faulty, mishaps>>
notificationVars == <<handler, delivery, job, worker, traces>>

Deliveries == Notices \X Channels
Resting    == [state |-> "none", made |-> 0, by |-> "nobody"]
Free       == [pc |-> "free"]

Preferences == [row: BOOLEAN, on: SUBSET Channels]
Statuses    == {"none", "PENDING", "SKIPPED", "SENT", "FAILED"}
Job         == [state: {"none", "waiting", "active", "completed", "failed"},
                made: 0..Attempts, by: Workers \cup {"nobody"}]

NotificationTypeOK ==
  /\ preferences \in Preferences
  /\ notify \in [Notices -> [pc: {"idle", "prefs", "done"}]
                  \cup [pc: {"create", "next"}, on: SUBSET Channels, left: SUBSET Channels]
                  \cup [pc: {"enqueue"}, on: SUBSET Channels, left: SUBSET Channels, channel: Channels]]
  /\ delivery \in [Deliveries -> Statuses]
  /\ job \in [Deliveries -> Job]
  /\ worker \in [Workers -> {Free} \cup [pc: {"read", "dispatch", "sent", "fail", "throw", "complete"}, of: Deliveries]]
  /\ tries \in [Deliveries -> Nat] /\ sent \in [Deliveries -> Nat]
  /\ \A d \in Deliveries : sent[d] <= tries[d]
  /\ faulty \subseteq Deliveries \cup Notices /\ mishaps \in 0..MaxFaults

NotificationInit ==
  /\ preferences = [row |-> FALSE, on |-> Channels] /\ notify = [n \in Notices |-> [pc |-> "idle"]]
  /\ delivery = [d \in Deliveries |-> "none"] /\ job = [d \in Deliveries |-> Resting]
  /\ worker = [w \in Workers |-> Free]
  /\ tries = [d \in Deliveries |-> 0] /\ sent = [d \in Deliveries |-> 0]
  /\ faulty = {} /\ mishaps = 0

Mishap(x) == mishaps < MaxFaults /\ mishaps' = mishaps + 1 /\ faulty' = faulty \cup {x}      \* bound

---------------------------------------------------------------------------
(* PreferencesService.getOrCreate and update                               *)
SetPreferences(cs) ==
  /\ preferences' = [row |-> TRUE, on |-> cs]
  /\ UNCHANGED <<notify, delivery, job, worker, traces>>

Step(n, h) == notify' = [notify EXCEPT ![n] = h]

(* NotificationsService.notify                                             *)
NotifyBegin(n, cs) ==
  /\ notify[n].pc = "idle" /\ cs # {}
  /\ Step(n, IF ~preferences.row THEN [pc |-> "prefs"]
             ELSE [pc |-> "create", on |-> preferences.on, left |-> cs])
  /\ UNCHANGED <<preferences, delivery, job, worker, traces>>

\* The defaults switch every channel on; a row made meanwhile makes it throw.
CreatePreferences(n, cs) ==
  /\ notify[n].pc = "prefs" /\ cs # {}
  /\ IF ~preferences.row
     THEN preferences' = [preferences EXCEPT !.row = TRUE] /\ Step(n, [pc |-> "create", on |-> Channels, left |-> cs])
     ELSE UNCHANGED preferences /\ Step(n, [pc |-> "done"])
  /\ UNCHANGED <<delivery, job, worker, traces>>

CreateNotice(n) ==
  /\ notify[n].pc = "create"
  /\ Step(n, [notify[n] EXCEPT !.pc = "next"])
  /\ UNCHANGED <<preferences, delivery, job, worker, traces>>

\* Mutant: a channel that is off is delivered too.
CreateUnasked(n, c) ==
  /\ notify[n].pc = "next" /\ c \in notify[n].left
  /\ delivery' = [delivery EXCEPT ![<<n, c>>] = IF c \in notify[n].on THEN "PENDING" ELSE "SKIPPED"]
  /\ Step(n, [pc |-> "enqueue", on |-> notify[n].on, left |-> notify[n].left \ {c}, channel |-> c])
  /\ UNCHANGED <<preferences, job, worker, traces>>

CreateDelivery(n, c) ==
  LET rest == notify[n].left \ {c} IN
  /\ notify[n].pc = "next" /\ c \in notify[n].left
  /\ IF c \in notify[n].on
     THEN /\ delivery' = [delivery EXCEPT ![<<n, c>>] = "PENDING"]
          /\ Step(n, [pc |-> "enqueue", on |-> notify[n].on, left |-> rest, channel |-> c])
     ELSE /\ delivery' = [delivery EXCEPT ![<<n, c>>] = "SKIPPED"]
          /\ Step(n, [notify[n] EXCEPT !.left = rest])
  /\ UNCHANGED <<preferences, job, worker, traces>>

Enqueue(n) ==
  /\ notify[n].pc = "enqueue"
  /\ job' = [job EXCEPT ![<<n, notify[n].channel>>] = [Resting EXCEPT !.state = "waiting"]]
  /\ Step(n, [pc |-> "next", on |-> notify[n].on, left |-> notify[n].left])
  /\ UNCHANGED <<preferences, delivery, worker, traces>>

NotifyEnd(n) ==
  /\ notify[n].pc = "next" /\ notify[n].left = {}
  /\ Step(n, [pc |-> "done"])
  /\ UNCHANGED <<preferences, delivery, job, worker, traces>>

\* The process dies, or the database or Redis refuses the call.
NotifyCut(n) ==
  /\ notify[n].pc \in {"prefs", "create", "next", "enqueue"} /\ Mishap(n)
  /\ Step(n, [pc |-> "done"])
  /\ UNCHANGED <<preferences, delivery, job, worker, tries, sent>>

---------------------------------------------------------------------------
(* NotificationsProcessor.process, on worker w                             *)
Doing(w, pc) == worker[w].pc = pc
Now(w, pc)   == worker' = [worker EXCEPT ![w].pc = pc]
Leave(w)     == worker' = [worker EXCEPT ![w] = Free]
Of(w)        == worker[w].of

Take(w, d) ==
  /\ Doing(w, "free") /\ job[d].state = "waiting"
  /\ job' = [job EXCEPT ![d].state = "active", ![d].by = w]
  /\ worker' = [worker EXCEPT ![w] = [pc |-> "read", of |-> d]]
  /\ UNCHANGED <<handler, delivery, traces>>

ReadDelivery(w) ==
  /\ Doing(w, "read")
  /\ Now(w, IF delivery[Of(w)] = "PENDING" THEN "dispatch" ELSE "complete")
  /\ UNCHANGED <<handler, delivery, job, traces>>

(* dispatch: mail and push may throw; the sockets of a room never do.      *)
Dispatch(w) ==
  /\ Doing(w, "dispatch")
  /\ tries' = [tries EXCEPT ![Of(w)] = @ + 1]
  /\ \/ Now(w, "sent") /\ sent' = [sent EXCEPT ![Of(w)] = @ + 1]
     \/ Now(w, "fail") /\ UNCHANGED sent /\ Of(w)[2] # "IN_APP"
  /\ UNCHANGED <<handler, delivery, job, faulty, mishaps>>

MarkSent(w) ==
  /\ Doing(w, "sent")
  /\ \/ delivery' = [delivery EXCEPT ![Of(w)] = "SENT"] /\ Now(w, "complete") /\ UNCHANGED <<faulty, mishaps>>
     \/ Mishap(Of(w)) /\ Now(w, "fail") /\ UNCHANGED delivery
  /\ UNCHANGED <<handler, job, tries, sent>>

MarkFailed(w) ==
  /\ Doing(w, "fail")
  /\ \/ delivery' = [delivery EXCEPT ![Of(w)] = "FAILED"] /\ UNCHANGED <<faulty, mishaps>>
     \/ Mishap(Of(w)) /\ UNCHANGED delivery
  /\ Now(w, "throw")
  /\ UNCHANGED <<handler, job, tries, sent>>

\* Only the worker that still holds the job moves it on.
Throw(w) ==
  LET made == job[Of(w)].made + 1 IN
  /\ Doing(w, "throw")
  /\ job' = IF job[Of(w)].by # w THEN job
            ELSE [job EXCEPT ![Of(w)] = [state |-> IF made < Attempts THEN "waiting" ELSE "failed",
                                         made |-> made, by |-> "nobody"]]
  /\ Leave(w)
  /\ UNCHANGED <<handler, delivery, traces>>

Complete(w) ==
  /\ Doing(w, "complete")
  /\ job' = IF job[Of(w)].by # w THEN job ELSE [job EXCEPT ![Of(w)].state = "completed", ![Of(w)].by = "nobody"]
  /\ Leave(w)
  /\ UNCHANGED <<handler, delivery, traces>>

\* A job whose lock was not renewed goes back; its worker may be dead or slow.
Stalled(w) ==
  /\ ~Doing(w, "free") /\ job[Of(w)].by = w /\ Mishap(Of(w))
  /\ job' = [job EXCEPT ![Of(w)].state = "waiting", ![Of(w)].by = "nobody"]
  /\ worker' \in {worker, [worker EXCEPT ![w] = Free]}
  /\ UNCHANGED <<handler, delivery, tries, sent>>

NotificationNext ==
  \/ \E cs \in SUBSET Channels : SetPreferences(cs)
  \/ \E n \in Notices :
       \/ CreateNotice(n) \/ Enqueue(n) \/ NotifyEnd(n) \/ NotifyCut(n)
       \/ \E cs \in SUBSET Channels : NotifyBegin(n, cs) \/ CreatePreferences(n, cs)
       \/ \E c \in Channels : CreateDelivery(n, c)
  \/ \E w \in Workers :
       \/ ReadDelivery(w) \/ Dispatch(w) \/ MarkSent(w) \/ MarkFailed(w) \/ Throw(w) \/ Complete(w) \/ Stalled(w)
       \/ \E d \in Deliveries : Take(w, d)
NotificationSpec == NotificationInit /\ [][NotificationNext]_notificationVars

---------------------------------------------------------------------------
(* A delivery that met no fault is attempted at most once, though its job  *)
(* has several attempts: the first failure is final.  It is SENT exactly   *)
(* when it went out and FAILED exactly when it did not; it went out only   *)
(* if it was asked for; and it stays PENDING only while its job is ahead   *)
(* or the notice was cut short.                                            *)
DeliveriesTruthful ==
  \A d \in Deliveries :
    LET quiet == \A w \in Workers : ~Doing(w, "free") => Of(w) # d IN
    /\ delivery[d] = "SENT" => sent[d] > 0
    /\ delivery[d] \in {"none", "SKIPPED"} => tries[d] = 0 /\ job[d].state = "none"
    /\ d \notin faulty =>
         /\ tries[d] <= 1
         /\ delivery[d] = "FAILED" => sent[d] = 0
         /\ quiet /\ tries[d] = 1 => delivery[d] = IF sent[d] = 1 THEN "SENT" ELSE "FAILED"
         /\ delivery[d] = "PENDING" => job[d].state \in {"waiting", "active"} \/ notify[d[1]].pc = "enqueue" \/ d[1] \in faulty

(* The comment on DEFAULT_JOB_OPTIONS says that transient failures are     *)
(* retried before the job lands in the failed set: a delivery is given up  *)
(* as FAILED only after all its attempts.                                  *)
RetriedBeforeFailed ==
  \A d \in Deliveries : job[d].state \in {"completed", "failed"} /\ delivery[d] = "FAILED" => tries[d] = Attempts
=============================================================================
