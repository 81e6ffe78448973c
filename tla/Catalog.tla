------------------------------- MODULE Catalog -------------------------------
(***************************************************************************)
(* A brand with its followers, its drop from draft to archive with the     *)
(* delayed job that publishes it, and the single row of platform settings  *)
(* (src/brands/services, src/drops/services, src/admin/services).          *)
(*                                                                         *)
(* A call is one request at the await it has reached; the worker is the    *)
(* processor of the drops queue.  Titles, pages, products of the drop,     *)
(* categories and the verified mark are left out: no step waits for them.  *)
(***************************************************************************)
EXTENDS Integers, FiniteSets

CONSTANTS Fans,       \* users who follow the brand or leave it
          Calls,      \* requests under way at a time
          Horizon,    \* bound: the last moment of the clock
          MaxRows,    \* bound: rows of followers ever created
          Attempts    \* DEFAULT_JOB_OPTIONS.attempts

ASSUME CatalogConstants ==
  IsFiniteSet(Fans) /\ IsFiniteSet(Calls) /\ Horizon \in Nat /\ MaxRows \in Nat /\ Attempts \in Nat \ {0}

VARIABLES
  brandActive,  \* Brand.isActive
  follower,     \* fan -> the id of the row BrandFollower, 0 for none
  rowsMade,     \* ids given out
  followersCount,
  drop,         \* the row: status, publishAt, archivedAt set or not; history: who published it and when
  job,          \* the job publish-drop-<id>: state, due time, failed attempts
  clock,
  settings,     \* rows of PlatformSettings
  call,         \* slot -> the request, or NoCall
  crossed,    \* history: rows written by a handler that had read them otherwise
  cut           \* history: a schedule call died between its row and its job

catalogVars == <<brandActive, follower, rowsMade, followersCount, drop, job, clock, settings, call, crossed, cut>>

NoCall == [op |-> "rest", pc |-> "rest", saw |-> "none", id |-> 0, who |-> "none"]

Statuses == {"DRAFT", "SCHEDULED", "PUBLISHED", "ARCHIVED"}
Ahead == {"delayed", "reading", "publishing"}   \* the states of a job that may still publish

Drop == [status : Statuses, publishAt : 0..Horizon, by : {"none", "call", "job"}, at : 0..Horizon, archived : BOOLEAN]
Job  == [state : {"none", "done", "failed"} \cup Ahead, due : 0..Horizon, failures : 0..Attempts]

CatalogTypeOK ==
  /\ brandActive \in BOOLEAN
  /\ follower \in [Fans -> 0..MaxRows] /\ rowsMade \in 0..MaxRows
  /\ followersCount \in 0..Cardinality(Fans)
  /\ drop \in Drop
  /\ job \in Job
  /\ clock \in 0..Horizon
  /\ settings \in 0..Cardinality(Calls)
  /\ call \in [Calls -> [op : {"rest", "schedule", "publish", "archive", "follow", "unfollow", "settings"},
                         pc : {"rest", "brand", "write", "job", "remove", "add", "row"},
                         saw : {"none"} \cup Statuses, id : 0..(MaxRows + Horizon), who : {"none"} \cup Fans]]
  /\ crossed \subseteq {"drop", "settings"} /\ cut \in BOOLEAN

CatalogInit ==
  /\ brandActive = TRUE
  /\ follower = [f \in Fans |-> 0] /\ rowsMade = 0 /\ followersCount = 0
  /\ drop = [status |-> "DRAFT", publishAt |-> 0, by |-> "none", at |-> 0, archived |-> FALSE]
  /\ job = [state |-> "none", due |-> 0, failures |-> 0]
  /\ clock = 0 /\ settings = 0
  /\ call = [c \in Calls |-> NoCall]
  /\ crossed = {} /\ cut = FALSE

dropVars     == <<drop, job, clock>>
followerVars == <<follower, rowsMade, followersCount>>
histories    == <<crossed, cut>>

---------------------------------------------------------------------------
Doing(c, ops, pc) == call[c].op \in ops /\ call[c].pc = pc
Proceed(c, pc)    == call' = [call EXCEPT ![c].pc = pc]
EndCall(c)      == call' = [call EXCEPT ![c] = NoCall]

\* findEntityOrThrow: the drop, or the brand, is read first.
BeginCall(c, op, saw, id, who) ==
  /\ call[c] = NoCall
  /\ call' = [call EXCEPT ![c] = [op |-> op, pc |-> "brand", saw |-> saw, id |-> id, who |-> who]]
  /\ UNCHANGED <<brandActive, dropVars, followerVars, settings, histories>>

\* The brand is there and active, and the status read allows the change.
Allowed(c) ==
  /\ brandActive
  /\ CASE call[c].op = "schedule" -> call[c].saw = "DRAFT" /\ call[c].id > clock
       [] call[c].op = "publish"  -> call[c].saw \in {"DRAFT", "SCHEDULED"}
       [] call[c].op = "archive"  -> call[c].saw # "ARCHIVED"
       [] OTHER                   -> TRUE

CheckBrand(c, ops, next) ==
  /\ Doing(c, ops, "brand")
  /\ IF Allowed(c) THEN Proceed(c, next) ELSE EndCall(c)
  /\ UNCHANGED <<brandActive, dropVars, followerVars, settings, histories>>

NoteContest(what, so) == crossed' = IF so THEN crossed \cup {what} ELSE crossed

Published(by) == [drop EXCEPT !.status = "PUBLISHED", !.by = by, !.at = clock]

Written(c) ==
  /\ NoteContest("drop", drop.status # call[c].saw)
  /\ UNCHANGED <<brandActive, job, clock, followerVars, settings, cut>>

WriteScheduled(c) ==
  /\ Doing(c, {"schedule"}, "write") /\ Proceed(c, "job")
  /\ drop' = [drop EXCEPT !.status = "SCHEDULED", !.publishAt = call[c].id]
  /\ Written(c)

WritePublished(c) ==
  /\ Doing(c, {"publish"}, "write") /\ EndCall(c)
  /\ drop' = Published("call")
  /\ Written(c)

WriteArchived(c) ==
  /\ Doing(c, {"archive"}, "write") /\ EndCall(c)
  /\ drop' = [drop EXCEPT !.status = "ARCHIVED", !.archived = TRUE]
  /\ Written(c)

GetJob(c) ==
  /\ Doing(c, {"schedule"}, "job")
  /\ Proceed(c, IF job.state = "none" THEN "add" ELSE "remove")
  /\ UNCHANGED <<brandActive, dropVars, followerVars, settings, histories>>

\* A job that is being run is locked: its removal throws.
RemoveJob(c) ==
  /\ Doing(c, {"schedule"}, "remove")
  /\ \/ job.state \in {"reading", "publishing"} /\ EndCall(c) /\ UNCHANGED job
     \/ job.state \notin {"reading", "publishing"} /\ Proceed(c, "add") /\ job' = [job EXCEPT !.state = "none"]
  /\ UNCHANGED <<brandActive, drop, clock, followerVars, settings, histories>>

\* The queue ignores a job whose id it has.
AddJob(c) ==
  /\ Doing(c, {"schedule"}, "add") /\ EndCall(c)
  /\ job' = IF job.state = "none" THEN [state |-> "delayed", due |-> call[c].id, failures |-> 0] ELSE job
  /\ UNCHANGED <<brandActive, drop, clock, followerVars, settings, histories>>

TakeJob ==
  /\ job.state = "delayed" /\ clock >= job.due
  /\ job' = [job EXCEPT !.state = "reading"]
  /\ UNCHANGED <<brandActive, drop, clock, followerVars, settings, call, histories>>

ReadScheduled ==
  /\ job.state = "reading"
  /\ job' = [job EXCEPT !.state = IF drop.status = "SCHEDULED" THEN "publishing" ELSE "done"]
  /\ UNCHANGED <<brandActive, drop, clock, followerVars, settings, call, histories>>

PublishScheduled ==
  /\ job.state = "publishing"
  /\ drop' = Published("job")
  /\ job' = [job EXCEPT !.state = "done"]
  /\ NoteContest("drop", drop.status # "SCHEDULED")
  /\ UNCHANGED <<brandActive, clock, followerVars, settings, call, cut>>

\* An attempt throws, or its worker dies; the queue tries again at once.
FailJob ==
  /\ job.state \in {"reading", "publishing"}
  /\ job' = [job EXCEPT !.failures = @ + 1, !.state = IF job.failures + 1 = Attempts THEN "failed" ELSE "delayed"]
  /\ UNCHANGED <<brandActive, drop, clock, followerVars, settings, call, histories>>

Tick ==
  /\ clock < Horizon
  /\ clock' = clock + 1
  /\ UNCHANGED <<brandActive, drop, job, followerVars, settings, call, histories>>

---------------------------------------------------------------------------
ReadRow(c) ==
  /\ Doing(c, {"follow", "unfollow"}, "row")
  /\ LET id == follower[call[c].who] IN
       IF (id = 0) = (call[c].op = "follow")
       THEN call' = [call EXCEPT ![c].pc = "write", ![c].id = id] ELSE EndCall(c)
  /\ UNCHANGED <<brandActive, dropVars, followerVars, settings, histories>>

\* The unique key refuses a second row, and with it the transaction.
Follow(c) ==
  /\ Doing(c, {"follow"}, "write") /\ EndCall(c)
  /\ IF follower[call[c].who] = 0 /\ rowsMade < MaxRows   \* bound
     THEN /\ rowsMade' = rowsMade + 1 /\ followersCount' = followersCount + 1
          /\ follower' = [follower EXCEPT ![call[c].who] = rowsMade']
     ELSE UNCHANGED followerVars
  /\ UNCHANGED <<brandActive, dropVars, settings, histories>>

\* The row that was read is deleted by its id; without it the transaction fails.
Unfollow(c) ==
  /\ Doing(c, {"unfollow"}, "write") /\ EndCall(c)
  /\ IF follower[call[c].who] = call[c].id
     THEN follower' = [follower EXCEPT ![call[c].who] = 0] /\ followersCount' = followersCount - 1
     ELSE UNCHANGED <<follower, followersCount>>
  /\ UNCHANGED <<brandActive, dropVars, rowsMade, settings, histories>>

\* remove, and the administrator's activate and deactivate.
SetBrandActive(on) ==
  /\ brandActive' = on
  /\ UNCHANGED <<dropVars, followerVars, settings, call, histories>>

\* getOrCreate: no row was found; with one there is nothing to create.
ReadSettings(c) ==
  /\ call[c] = NoCall /\ settings = 0
  /\ call' = [call EXCEPT ![c] = [NoCall EXCEPT !.op = "settings", !.pc = "write"]]
  /\ UNCHANGED <<brandActive, dropVars, followerVars, settings, histories>>

CreateSettings(c) ==
  /\ Doing(c, {"settings"}, "write") /\ EndCall(c)
  /\ settings' = settings + 1
  /\ NoteContest("settings", settings > 0)
  /\ UNCHANGED <<brandActive, dropVars, followerVars, cut>>

\* A statement fails or the process dies.
CutCall(c) ==
  /\ call[c] # NoCall /\ EndCall(c)
  /\ cut' = (cut \/ \E pc \in {"job", "remove", "add"} : Doing(c, {"schedule"}, pc))
  /\ UNCHANGED <<brandActive, dropVars, followerVars, settings, crossed>>

DropNext ==
  \/ \E c \in Calls :
       \/ \E at \in 1..Horizon : BeginCall(c, "schedule", drop.status, at, "none")
       \/ \E op \in {"publish", "archive"} : BeginCall(c, op, drop.status, 0, "none")
       \/ CheckBrand(c, {"schedule", "publish", "archive"}, "write")
       \/ WriteScheduled(c) \/ WritePublished(c) \/ WriteArchived(c) \/ GetJob(c) \/ RemoveJob(c) \/ AddJob(c) \/ CutCall(c)
  \/ TakeJob \/ ReadScheduled \/ PublishScheduled \/ FailJob \/ Tick
  \/ \E on \in BOOLEAN : SetBrandActive(on)

FollowersNext ==
  \/ \E c \in Calls :
       \/ \E op \in {"follow", "unfollow"}, f \in Fans : BeginCall(c, op, "none", 0, f)
       \/ CheckBrand(c, {"follow", "unfollow"}, "row")
       \/ ReadRow(c) \/ Follow(c) \/ Unfollow(c) \/ CutCall(c)
  \/ \E on \in BOOLEAN : SetBrandActive(on)

SettingsNext == \E c \in Calls : ReadSettings(c) \/ CreateSettings(c) \/ CutCall(c)

CatalogNext == DropNext \/ FollowersNext \/ SettingsNext
CatalogSpec == CatalogInit /\ [][CatalogNext]_catalogVars

---------------------------------------------------------------------------
(* A scheduled drop has a job ahead of it, or a call about to add one,     *)
(* unless that call died, two handlers wrote over each other, or all its   *)
(* attempts failed.                                                        *)
ScheduledHasJob ==
  drop.status = "SCHEDULED" =>
    \/ job.state \in Ahead \cup {"failed"}
    \/ \E c \in Calls, pc \in {"job", "remove", "add"} : Doing(c, {"schedule"}, pc)
    \/ cut \/ "drop" \in crossed

(* The job publishes no drop before the time its owner chose last, unless  *)
(* two calls scheduled it together.                                        *)
NotBeforeItsTime == drop.by = "job" => drop.at >= drop.publishAt \/ "drop" \in crossed

(* What was archived stays archived, unless a handler or the job had read  *)
(* the drop before.                                                        *)
ArchivedStays == drop.archived => drop.status = "ARCHIVED" \/ "drop" \in crossed

(* The number shown is the number of followers, whatever calls overlap.    *)
FollowersCounted == followersCount = Cardinality({f \in Fans : follower[f] # 0})

(* There is one row of settings, unless two calls found none.              *)
OneSettingsRow == settings <= 1 \/ "settings" \in crossed

(* Drops, followers and settings stay consistent but for those races.     *)
CatalogSound == ScheduledHasJob /\ NotBeforeItsTime /\ ArchivedStays /\ FollowersCounted /\ OneSettingsRow
=============================================================================
