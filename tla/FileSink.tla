------------------------------- MODULE FileSink -------------------------------
(***************************************************************************)
(* The file sinks (src/runtime/src/dag/mod.rs) and how they publish        *)
(* (src/common/src/file_transport.rs and the transports): write_csv        *)
(* streams into a staging file and hands it over at the end, write_json    *)
(* and write_parquet keep all batches and write the bytes at the end. The  *)
(* process may crash between any two steps.                                *)
(***************************************************************************)
EXTENDS Naturals

CONSTANT MaxParts      \* batches of the run

ASSUME FileSinkAssumption == MaxParts \in Nat

\* "local" is on the file system of the staging file, "local_other" on another one,
\* "stream" a server that writes into the open file (SFTP, FTP, SMB), and "object" a
\* store that takes the object as a whole (S3, Azure, GCS, SharePoint).
Formats == {"csv", "json", "parquet"}
Targets == {"local", "local_other", "stream", "object"}

\* What a file holds: nothing at all, an older file, the first batches only, or all.
Contents == {"none", "old", "partial", "whole"}

VARIABLES
  format, target,
  file_pc,       \* "start", "receive", "publish", "copy", "clean", "done", "failed", "crashed"
  parts,         \* batches received
  staging,       \* what the staging file holds
  dest,          \* what the file at the path holds
  upstream       \* an error came in instead of a batch

fileVars == <<format, target, file_pc, parts, staging, dest, upstream>>

FileSinkInit ==
  /\ format \in Formats
  /\ target \in Targets
  /\ file_pc = "start"
  /\ parts = 0
  /\ staging = "none"
  /\ dest \in {"none", "old"}
  /\ upstream = FALSE

Staged == format = "csv"

Go(pc) == file_pc' = pc

\* The transport is made, and for write_csv the staging file.
Start ==
  /\ file_pc = "start"
  /\ \/ Go("receive") /\ staging' = IF Staged THEN "partial" ELSE "none"
     \/ Go("failed") /\ UNCHANGED staging
  /\ UNCHANGED <<format, target, parts, dest, upstream>>

TakeBatch ==
  /\ file_pc = "receive"
  /\ parts < MaxParts
  /\ parts' = parts + 1
  /\ UNCHANGED <<format, target, file_pc, staging, dest, upstream>>

\* An error from upstream, or one of writing the staging file, which is removed.
TakeFails ==
  /\ file_pc = "receive"
  /\ Go("failed")
  /\ staging' = "none"
  /\ upstream' \in BOOLEAN
  /\ Staged \/ upstream'
  /\ UNCHANGED <<format, target, parts, dest>>

\* The channel is closed: the rest of the buffer goes to the staging file, or the
\* batches become bytes.
EndOfInput ==
  /\ file_pc = "receive"
  /\ Go("publish")
  /\ staging' = IF Staged THEN "whole" ELSE "none"
  /\ UNCHANGED <<format, target, parts, dest, upstream>>

(***************************************************************************)
(* Publishing                                                              *)
(***************************************************************************)
Renames == Staged /\ target = "local"

\* Mutant: the staging file is copied where it could be renamed.
RenameCopies ==
  /\ file_pc = "publish" /\ Renames
  /\ dest' = "partial"
  /\ Go("copy")
  /\ UNCHANGED <<format, target, parts, staging, upstream>>

Rename ==
  /\ file_pc = "publish" /\ Renames
  /\ dest' = staging
  /\ staging' = "none"
  /\ Go("done")
  /\ UNCHANGED <<format, target, parts, upstream>>

PutObject ==
  /\ file_pc = "publish" /\ target = "object"
  /\ dest' = "whole"
  /\ Go(IF Staged THEN "clean" ELSE "done")
  /\ UNCHANGED <<format, target, parts, staging, upstream>>

\* The file at the path is created or truncated, then written.
Truncate ==
  /\ file_pc = "publish" /\ ~Renames /\ target # "object"
  /\ dest' = "partial"
  /\ Go("copy")
  /\ UNCHANGED <<format, target, parts, staging, upstream>>

Write ==
  /\ file_pc = "copy"
  /\ dest' = "whole"
  /\ Go(IF Staged THEN "clean" ELSE "done")
  /\ UNCHANGED <<format, target, parts, staging, upstream>>

\* Removing the staging file may fail, which only the local transport reports.
RemoveStaging ==
  /\ file_pc = "clean"
  /\ \/ staging' = "none" /\ Go("done")
     \/ Go(IF target = "local_other" THEN "failed" ELSE "done") /\ UNCHANGED staging
  /\ UNCHANGED <<format, target, parts, dest, upstream>>

PublishFails ==
  /\ file_pc \in {"publish", "copy"}
  /\ Go("failed")
  /\ UNCHANGED <<format, target, parts, staging, dest, upstream>>

Crash ==
  /\ file_pc \notin {"done", "failed", "crashed"}
  /\ Go("crashed")
  /\ UNCHANGED <<format, target, parts, staging, dest, upstream>>

FileSinkNext ==
  \/ Start \/ TakeBatch \/ TakeFails \/ EndOfInput \/ Rename \/ PutObject \/ Truncate
  \/ Write \/ RemoveStaging \/ PublishFails \/ Crash

FileSinkSpec == FileSinkInit /\ [][FileSinkNext]_fileVars

(***************************************************************************)
(* Properties                                                              *)
(***************************************************************************)
\* A step that reports success has put the whole file at the path, and leaves no
\* staging file unless it could not be removed.
SuccessIsWhole == file_pc = "done" => dest = "whole"

\* Readers of the path see the old file or the whole new one, at any time and after
\* a crash, where the file is renamed into place or put as an object.
OldOrWhole == Renames \/ target = "object" => dest # "partial"

\* Rows that never came are no reason to touch the file that is there: an error from
\* upstream leaves it and no staging file.
FailedInputKeepsOld == upstream => dest \in {"none", "old"} /\ staging = "none"

\* The path holds the old file or the whole new one, and success means the new one,
\* whatever fails on the way.
FileIsOldOrWhole == SuccessIsWhole /\ OldOrWhole /\ FailedInputKeepsOld
=============================================================================
