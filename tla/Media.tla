-------------------------------- MODULE Media --------------------------------
(***************************************************************************)
(* Uploaded files and the rows that name them: the picture of a brand or a *)
(* user (logo, cover, avatar: src/brands/services/brand-assets.service.ts, *)
(* src/users/services/profile.service.ts), where a new file replaces the   *)
(* old one, and the media of a drop or a product, one row for each file    *)
(* (src/drops/services/drop-media.service.ts,                              *)
(* src/products/services/product-media.service.ts).                        *)
(*                                                                         *)
(* File names are random, so every file is a new one.  Sizes, types and    *)
(* positions are left out; who may call is in Access and Catalog.          *)
(***************************************************************************)
EXTENDS Integers

CONSTANTS Uploads,    \* requests under way at a time
          MaxFiles    \* bound: files ever saved

ASSUME MediaConstants == MaxFiles \in Nat

VARIABLES
  picture,    \* the row's url: a file, or 0
  gallery,    \* the files of the media rows
  files,      \* the files on disk
  filesMade,  \* files ever saved
  upload,     \* slot -> the request: what it read and what it saved
  broken,     \* history: a call died after it deleted a file that its row names
  untidy      \* history: a call died after saving, a deletion failed, or a row changed since it was read

mediaVars == <<picture, gallery, files, filesMade, upload, broken, untidy>>

NoUpload == [op |-> "none", pc |-> "none", saw |-> 0, new |-> 0]

MediaTypeOK ==
  /\ picture \in 0..filesMade /\ filesMade \in 0..MaxFiles
  /\ gallery \subseteq 1..filesMade /\ files \subseteq 1..filesMade
  /\ upload \in [Uploads -> [op : {"none", "set", "clear", "add", "remove"},
                             pc : {"none", "save", "delete", "write"}, saw : 0..MaxFiles, new : 0..MaxFiles]]
  /\ broken \in BOOLEAN /\ untidy \in BOOLEAN

MediaInit ==
  /\ picture = 0 /\ gallery = {} /\ files = {} /\ filesMade = 0
  /\ upload = [u \in Uploads |-> NoUpload]
  /\ broken = FALSE /\ untidy = FALSE

---------------------------------------------------------------------------
EndUpload(u)          == upload' = [upload EXCEPT ![u] = NoUpload]
Uploading(u, ops, pc) == upload[u].op \in ops /\ upload[u].pc = pc

BeginUpload(u, op, pc, f) == upload' = [upload EXCEPT ![u] = [op |-> op, pc |-> pc, saw |-> f, new |-> 0]]

\* The row is read; an uploading call has its file in memory.
ReadPicture(u, op) ==
  /\ upload[u] = NoUpload
  /\ BeginUpload(u, op, IF op = "set" THEN "save" ELSE "delete", picture)
  /\ UNCHANGED <<picture, gallery, files, filesMade, broken, untidy>>

\* add: the drop or product is there.
ReadOwner(u) ==
  /\ upload[u] = NoUpload /\ BeginUpload(u, "add", "save", 0)
  /\ UNCHANGED <<picture, gallery, files, filesMade, broken, untidy>>

\* remove: the media row is there.
ReadMedia(u, f) ==
  /\ upload[u] = NoUpload /\ f \in gallery /\ BeginUpload(u, "remove", "delete", f)
  /\ UNCHANGED <<picture, gallery, files, filesMade, broken, untidy>>

SaveFile(u) ==
  /\ Uploading(u, {"set", "add"}, "save")
  /\ filesMade < MaxFiles   \* bound
  /\ filesMade' = filesMade + 1
  /\ files' = files \cup {filesMade'}
  /\ upload' = [upload EXCEPT ![u].new = filesMade', ![u].pc = IF upload[u].op = "set" THEN "delete" ELSE "write"]
  /\ UNCHANGED <<picture, gallery, broken, untidy>>

\* The file named by the row that was read; whatever unlink answers is ignored.
DeleteFile(u) ==
  /\ Uploading(u, {"set", "clear", "remove"}, "delete")
  /\ upload' = [upload EXCEPT ![u].pc = "write"]
  /\ \/ files' = files \ {upload[u].saw} /\ UNCHANGED untidy
     \/ upload[u].saw \in files /\ UNCHANGED files /\ untidy' = TRUE
  /\ UNCHANGED <<picture, gallery, filesMade, broken>>

\* Mutant: the row keeps the url of the deleted file.
WritePictureOnce(u) ==
  /\ Uploading(u, {"set", "clear"}, "write") /\ EndUpload(u)
  /\ picture' = IF picture = 0 THEN upload[u].new ELSE picture
  /\ UNCHANGED <<gallery, files, filesMade, broken, untidy>>

\* The new url, or null when the picture is removed.
WritePicture(u) ==
  /\ Uploading(u, {"set", "clear"}, "write") /\ EndUpload(u)
  /\ picture' = upload[u].new
  /\ untidy' = (untidy \/ picture \notin {0, upload[u].saw})
  /\ UNCHANGED <<gallery, files, filesMade, broken>>

CreateMedia(u) ==
  /\ Uploading(u, {"add"}, "write") /\ EndUpload(u)
  /\ gallery' = gallery \cup {upload[u].new}
  /\ UNCHANGED <<picture, files, filesMade, broken, untidy>>

\* The call throws when the row is gone.
DeleteMedia(u) ==
  /\ Uploading(u, {"remove"}, "write") /\ EndUpload(u)
  /\ gallery' = gallery \ {upload[u].saw}
  /\ UNCHANGED <<picture, files, filesMade, broken, untidy>>

\* The process dies or a statement throws.
DropUpload(u) ==
  /\ upload[u] # NoUpload /\ EndUpload(u)
  /\ broken' = (broken \/ (upload[u].pc = "write" /\ upload[u].saw # 0))
  /\ untidy' = (untidy \/ upload[u].new # 0)
  /\ UNCHANGED <<picture, gallery, files, filesMade>>

MediaNext ==
  \E u \in Uploads :
    \/ \E op \in {"set", "clear"} : ReadPicture(u, op)
    \/ \E f \in 1..MaxFiles : ReadMedia(u, f)
    \/ ReadOwner(u) \/ SaveFile(u) \/ DeleteFile(u)
    \/ WritePicture(u) \/ CreateMedia(u) \/ DeleteMedia(u) \/ DropUpload(u)

MediaSpec == MediaInit /\ [][MediaNext]_mediaVars

---------------------------------------------------------------------------
(* However calls overlap, a row names a file that is there, or a call that *)
(* deleted the file is about to change the row; unless such a call died.   *)
RowsHaveFiles ==
  \A f \in gallery \cup ({picture} \ {0}) :
    f \in files \/ broken \/ \E u \in Uploads : upload[u].pc = "write" /\ upload[u].saw = f

(* No file is left that no row names and no call that saved it will name,  *)
(* unless a call died, a deletion failed or a picture had changed since it *)
(* was read.                                                               *)
FilesHaveRows ==
  \A f \in files : f \in gallery \cup {picture} \/ untidy \/ \E u \in Uploads : upload[u].new = f

(* Rows and files belong together, in both directions.                    *)
FilesMatchRows == RowsHaveFiles /\ FilesHaveRows
=============================================================================
