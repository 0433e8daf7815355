---------------------------- MODULE DurableFiles ----------------------------
(* How Core puts a new file on disk: the database backup (createBackupAt,     *)
(* core/persistence/backup.go), the diagnostics export (WriteNewPrivateFile,   *)
(* internal/securefs/securefs.go), the replacement of a workspace file         *)
(* (atomicWrite, tools/filesystem/filesystem.go) and the fallback admin token  *)
(* (LoadOrCreateAdminToken, internal/auth/token.go).                           *)
(* The operating system is external: what is written reaches the disk when it  *)
(* is synced, or at any time before; a power failure keeps for each file some  *)
(* of what was not synced, and for each directory change all or nothing of it. *)
EXTENDS Naturals, Sequences

FileKind == {"backup", "export", "workspace", "token"}

VARIABLES
    kind,    \* which of the four is being written
    step,    \* the number of steps done
    status,  \* idle, working, acknowledged, failed, dead
    entry,   \* the name of the new file: none, temporary, final
    entryOnDisk,
    data,    \* its content: none, partial, whole
    dataOnDisk,
    verified \* quick_check has read this content and found it sound

fileVars == <<kind, step, status, entry, entryOnDisk, data, dataOnDisk, verified>>

FileInit ==
    /\ kind \in FileKind
    /\ step = 0
    /\ status = "idle"
    /\ entry = "none" /\ entryOnDisk = "none"
    /\ data = "none" /\ dataOnDisk = "none"
    /\ verified = FALSE

(***************************************************************************)
(* The steps of the four writers                                           *)
(***************************************************************************)
\* The backup published before it is synced.
BackupStepsUnsynced == <<"createTemporary", "write", "verify", "rename", "sync", "syncDir">>

\* VACUUM INTO a hidden name, quick_check, sync, rename, sync the directory.
BackupSteps == <<"createTemporary", "write", "verify", "sync", "rename", "syncDir">>

\* O_EXCL under the final name, write, sync, sync the directory.
ExportSteps == <<"createFinal", "write", "sync", "syncDir">>

\* A nonce-named neighbour, write, sync, rename, sync the directory.
WorkspaceSteps == <<"createTemporary", "write", "sync", "rename", "trySyncDir">>

\* O_EXCL under the final name, and write.
TokenSteps == <<"createFinal", "write">>

Steps ==
    CASE kind = "backup" -> BackupSteps
      [] kind = "export" -> ExportSteps
      [] kind = "workspace" -> WorkspaceSteps
      [] kind = "token" -> TokenSteps

(***************************************************************************)
(* What a step does, and how it fails                                      *)
(***************************************************************************)
Done == step = Len(Steps)

stepDone ==
    /\ status \in {"idle", "working"} /\ ~Done
    /\ LET s == Steps[step + 1]
       IN /\ entry' = CASE s = "createTemporary" -> "temporary"
                        [] s \in {"createFinal", "rename"} -> "final"
                        [] OTHER -> entry
          /\ data' = CASE s \in {"createTemporary", "createFinal"} -> "partial"
                       [] s = "write" -> "whole"
                       [] OTHER -> data
          /\ dataOnDisk' = IF s = "sync" THEN data ELSE dataOnDisk
          /\ entryOnDisk' = IF s = "syncDir" THEN entry ELSE entryOnDisk
          /\ verified' = (verified \/ s = "verify")
    /\ step' = step + 1
    /\ status' = "working"
    /\ UNCHANGED kind

\* The writer reports success.
acknowledge ==
    /\ status = "working" /\ Done
    /\ status' = "acknowledged"
    /\ UNCHANGED <<kind, step, entry, entryOnDisk, data, dataOnDisk, verified>>

\* What the deferred clean-up leaves: the backup removes its temporary name,
\* the export its file, the tool its neighbour; the token file stays.
AfterFailure ==
    CASE kind = "export" -> "none"
      [] kind = "token" -> entry
      [] OTHER -> IF entry = "temporary" THEN "none" ELSE entry

\* A step returns an error, the context is cancelled, or quick_check finds
\* the copy unsound; a failed sync of the workspace directory is ignored.
stepFails ==
    /\ status = "working" /\ ~Done
    /\ Steps[step + 1] # "trySyncDir"
    /\ status' = "failed"
    /\ entry' = AfterFailure
    /\ UNCHANGED <<kind, step, entryOnDisk, data, dataOnDisk, verified>>

\* The system writes something back by itself.
writeBack ==
    /\ \/ dataOnDisk' \in {data, "partial"} /\ data # "none" /\ UNCHANGED entryOnDisk
       \/ entryOnDisk' = entry /\ UNCHANGED dataOnDisk
    /\ dataOnDisk = "whole" => dataOnDisk' = "whole"
    /\ UNCHANGED <<kind, step, status, entry, data, verified>>

\* The process dies: nothing cleans up, the system keeps its cache.
processDies ==
    /\ status = "working"
    /\ status' = "dead"
    /\ UNCHANGED <<kind, step, entry, entryOnDisk, data, dataOnDisk, verified>>

\* The machine loses power: what is on disk is all there is.
powerFails ==
    /\ status # "idle"
    /\ status' = IF status = "acknowledged" THEN status ELSE "dead"
    /\ entry' = entryOnDisk
    /\ data' = dataOnDisk
    /\ UNCHANGED <<kind, step, entryOnDisk, dataOnDisk, verified>>

FileNext ==
    \/ stepDone
    \/ acknowledge
    \/ stepFails
    \/ writeBack
    \/ processDies
    \/ powerFails

FileSpec == FileInit /\ [][FileNext]_fileVars

(***************************************************************************)
(* Claims                                                                  *)
(***************************************************************************)
\* Whatever fails and whenever, a name that ends in .db holds a whole backup
\* that quick_check found sound, and a workspace file is the old content or
\* all of the new: the temporary file was synced before it was renamed.
PublishedIsWhole ==
    (kind \in {"backup", "workspace"} /\ entry = "final") =>
       /\ data = "whole"
       /\ kind = "backup" => verified

\* A backup and an export that were reported survive a power failure.
ReportedFileSurvives ==
    (kind \in {"backup", "export"} /\ status = "acknowledged") =>
       entry = "final" /\ data = "whole"

\* A file Core published is whole, and one it reported is still there.
FilesAreDurable == PublishedIsWhole /\ ReportedFileSurvives
=============================================================================
