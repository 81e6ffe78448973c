-------------------------------- MODULE Search -------------------------------
(***************************************************************************)
(* The search index and the watermark that keeps it up to date             *)
(* (src/search/reindex.service.ts, docs/adr/0003).  Products, brands and   *)
(* drops are synchronised alike, each with a cursor of its own; this is    *)
(* one of the three.                                                       *)
(*                                                                         *)
(* A row is stamped by the client when its statement is sent and seen by   *)
(* others when it commits.  A document is the version of its row.  The     *)
(* queries of src/search/search.service.ts only read.                      *)
(***************************************************************************)
EXTENDS Integers

CONSTANTS Rows,        \* rows of the table
          Syncs,       \* synchronisations under way at a time
          MaxVersion,  \* bound: versions of a row
          MaxTime      \* bound: the last moment of the clock

ASSUME SearchConstants == MaxVersion \in Nat \ {0} /\ MaxTime \in Nat \ {0}

VARIABLES
  row,       \* row -> its committed version and updatedAt
  writing,   \* row -> the stamp of an update under way, 0 for none
  document,  \* row -> the version in the index, 0 for none
  cursor,    \* SearchSyncState.lastSyncedAt; 0 is the epoch
  sync,      \* slot -> the synchronisation
  time,
  lastRead,  \* history: the latest beginning of a synchronisation that has read the rows
  late,      \* history: an update committed after the rows were read by one that began after its stamp
  backwards  \* history: a document was replaced by an older version

searchVars == <<row, writing, document, cursor, sync, time, lastRead, late, backwards>>

Nothing == [r \in Rows |-> 0]
NoSync == [pc |-> "none", since |-> 0, started |-> 0, found |-> Nothing]

SearchTypeOK ==
  /\ row \in [Rows -> [version : 1..MaxVersion, updatedAt : 1..MaxTime]]
  /\ writing \in [Rows -> 0..MaxTime]
  /\ document \in [Rows -> 0..MaxVersion]
  /\ cursor \in 0..MaxTime /\ time \in 1..MaxTime
  /\ sync \in [Syncs -> [pc : {"none", "start", "read", "push"}, since : 0..MaxTime, started : 0..MaxTime,
                         found : [Rows -> 0..MaxVersion]]]
  /\ lastRead \in 0..MaxTime /\ late \in BOOLEAN /\ backwards \in BOOLEAN

SearchInit ==
  /\ row = [r \in Rows |-> [version |-> 1, updatedAt |-> 1]] /\ writing = Nothing
  /\ document = Nothing /\ cursor = 0 /\ time = 1
  /\ sync = [s \in Syncs |-> NoSync]
  /\ lastRead = 0 /\ late = FALSE /\ backwards = FALSE

---------------------------------------------------------------------------
Elapse ==
  /\ time < MaxTime
  /\ time' = time + 1
  /\ UNCHANGED <<row, writing, document, cursor, sync, lastRead, late, backwards>>

BeginUpdate(r) ==
  /\ writing[r] = 0 /\ row[r].version < MaxVersion   \* bound
  /\ writing' = [writing EXCEPT ![r] = time]
  /\ UNCHANGED <<row, document, cursor, sync, time, lastRead, late, backwards>>

Commit(r) ==
  /\ writing[r] # 0
  /\ row' = [row EXCEPT ![r] = [version |-> @.version + 1, updatedAt |-> writing[r]]]
  /\ writing' = [writing EXCEPT ![r] = 0]
  /\ late' = (late \/ writing[r] < lastRead)
  /\ UNCHANGED <<document, cursor, sync, time, lastRead, backwards>>

\* The repeated job reads its cursor; reindexAll begins at the epoch.
BeginSync(s, since) ==
  /\ sync[s] = NoSync /\ since \in {0, cursor}
  /\ sync' = [sync EXCEPT ![s] = [NoSync EXCEPT !.pc = "start", !.since = since]]
  /\ UNCHANGED <<row, writing, document, cursor, time, lastRead, late, backwards>>

StampSync(s) ==
  /\ sync[s].pc = "start"
  /\ sync' = [sync EXCEPT ![s].pc = "read", ![s].started = time]
  /\ UNCHANGED <<row, writing, document, cursor, time, lastRead, late, backwards>>

NoteRead(s) == lastRead' = IF sync[s].started > lastRead THEN sync[s].started ELSE lastRead

Since(s) == {r \in Rows : row[r].updatedAt >= sync[s].since}

\* Mutant: the rows stamped at the very moment of the cursor are skipped.
FindAfter(s) ==
  /\ sync[s].pc = "read"
  /\ sync' = [sync EXCEPT ![s].pc = "push",
                          ![s].found = [r \in Rows |-> IF row[r].updatedAt > sync[s].since THEN row[r].version ELSE 0]]
  /\ NoteRead(s)
  /\ UNCHANGED <<row, writing, document, cursor, time, late, backwards>>

FindMany(s) ==
  /\ sync[s].pc = "read"
  /\ sync' = [sync EXCEPT ![s].pc = "push", ![s].found = [r \in Rows |-> IF r \in Since(s) THEN row[r].version ELSE 0]]
  /\ NoteRead(s)
  /\ UNCHANGED <<row, writing, document, cursor, time, late, backwards>>

Upsert(s, r) ==
  /\ sync[s].pc = "push" /\ sync[s].found[r] # 0
  /\ document' = [document EXCEPT ![r] = sync[s].found[r]]
  /\ backwards' = (backwards \/ document[r] > sync[s].found[r])
  /\ sync' = [sync EXCEPT ![s].found[r] = 0]
  /\ UNCHANGED <<row, writing, cursor, time, lastRead, late>>

SetCursor(s) ==
  /\ sync[s].pc = "push" /\ sync[s].found = Nothing
  /\ cursor' = sync[s].started
  /\ sync' = [sync EXCEPT ![s] = NoSync]
  /\ UNCHANGED <<row, writing, document, time, lastRead, late, backwards>>

\* A statement or the search server fails, or the process dies: the next
\* synchronisation starts from the cursor again.
AbortSync(s) ==
  /\ sync[s] # NoSync
  /\ sync' = [sync EXCEPT ![s] = NoSync]
  /\ UNCHANGED <<row, writing, document, cursor, time, lastRead, late, backwards>>

SearchNext ==
  \/ Elapse
  \/ \E r \in Rows : BeginUpdate(r) \/ Commit(r)
  \/ \E s \in Syncs : \/ \E since \in {0, cursor} : BeginSync(s, since)
                      \/ StampSync(s) \/ FindMany(s) \/ SetCursor(s) \/ AbortSync(s)
                      \/ \E r \in Rows : Upsert(s, r)

SearchSpec == SearchInit /\ [][SearchNext]_searchVars

---------------------------------------------------------------------------
(* A row whose last version is not in the index will be found by the next  *)
(* synchronisation, or one under way has it: "a row updated mid-sync is    *)
(* picked up on the next pass, not skipped" (docs/adr/0003).  The          *)
(* exceptions are a commit that was late and an older version written over *)
(* a newer one by overlapping synchronisations.                            *)
IndexCatchesUp ==
  \A r \in Rows : \/ document[r] = row[r].version
                  \/ row[r].updatedAt >= cursor
                  \/ \E s \in Syncs : sync[s].pc = "push" /\ sync[s].found[r] = row[r].version
                  \/ late \/ backwards
=============================================================================
