------------------------------- MODULE Backups -------------------------------
(***************************************************************************)
(* The backup directory (services/backup_service.py), written by the API   *)
(* under system_op_lock (api/routes/system_routes.py) and by the command   *)
(* line, a process of its own (cli/backup_command.py).                     *)
(***************************************************************************)
EXTENDS WallClock

CONSTANTS
  Writers,  \* "api", "cli"
  Keep,     \* backup_keep_count, positive
  MaxFiles  \* bound: files at the start of a backup

Nobody == "nobody"

ASSUME BackupBounds == Keep \in Nat \ {0} /\ MaxFiles \in Nat /\ Nobody \notin Writers

VARIABLES
  files,   \* the directory in the order of names: [what, by, suspect]; by while in use
  writer,  \* per writer: at idle, copying, verifying or rotating; suspect is its file's name's
  alone,   \* history: no two writers at once so far
  hadGood  \* history: a backup once passed its check

backupVars == <<files, writer, alone, hadGood>>

BackupInit ==
  /\ files = <<>>
  /\ writer = [w \in Writers |-> [at |-> "idle", suspect |-> FALSE]]
  /\ alone = TRUE /\ hadGood = FALSE

Goes(w, at) == writer' = [writer EXCEPT ![w].at = at]

IsThere(w) == \E i \in DOMAIN files : files[i].by = w

IsEmptied(w) == \E i \in DOMAIN files : files[i].by = w /\ files[i].what = "empty"

\* The directory with w's file, if it is there, turned into what and left to by.
With(dir, w, what, by) ==
  [i \in DOMAIN dir |-> IF dir[i].by = w THEN [dir[i] EXCEPT !.what = what, !.by = by] ELSE dir[i]]

\* create_backup: the file is there, and named, before it is complete.
StartsCopy(w) ==
  /\ writer[w].at = "idle" /\ Len(files) < MaxFiles
  /\ writer' = [writer EXCEPT ![w] = [at |-> "copying", suspect |-> suspect]]
  /\ files' = Inserted(files, [what |-> "partial", by |-> w, suspect |-> suspect])
  /\ alone' = (alone /\ \A o \in Writers : writer[o].at = "idle")
  /\ UNCHANGED hadGood

CopyEnds(w) ==
  /\ writer[w].at = "copying"
  /\ files' = With(files, w, "good", w)
  /\ Goes(w, "verifying")
  /\ UNCHANGED <<alone, hadGood>>

\* The disk is full, or the writer is killed: what was copied stays, under its name.
CopyFails(w) ==
  /\ writer[w].at = "copying"
  /\ files' = With(files, w, "broken", Nobody)
  /\ Goes(w, "idle")
  /\ UNCHANGED <<alone, hadGood>>

\* A name that a rotation deleted comes before all that it kept.
MadeAgain(w) ==
  LET earlier == {i \in DOMAIN files : files[i].suspect /\ ~writer[w].suspect}
  IN Picked(files, earlier)
       \o <<[what |-> "empty", by |-> w, suspect |-> writer[w].suspect]>>
       \o Picked(files, DOMAIN files \ earlier)

\* verify_backup.  Connecting to a file that another rotation deleted makes it again,
\* empty, and an empty database passes.
Verifies(w) ==
  /\ writer[w].at = "verifying"
  /\ files' = IF IsThere(w) THEN files ELSE MadeAgain(w)
  /\ hadGood' = (hadGood \/ IsThere(w))
  /\ Goes(w, "rotating")
  /\ UNCHANGED alone

\* The copy was complete but torn: verify_backup raises and the file stays.
FindsItTorn(w) ==
  /\ writer[w].at = "verifying"
  /\ files' = With(files, w, "broken", Nobody)
  /\ Goes(w, "idle")
  /\ UNCHANGED <<alone, hadGood>>

FirstByName(dir) == SubSeq(dir, 1, Keep)

Newest(dir) == SubSeq(dir, Len(dir) - Keep + 1, Len(dir))

\* rotate_backups, and stat and the audit row, which fail when the file is gone.
Rotates(w) ==
  /\ writer[w].at = "rotating"
  /\ LET kept == IF Len(files) > Keep THEN Newest(files) ELSE files
     IN files' = With(kept, w, IF IsEmptied(w) THEN "empty" ELSE "good", Nobody)
  /\ Goes(w, "idle")
  /\ UNCHANGED <<alone, hadGood>>

BackupNext == \E w \in Writers :
  StartsCopy(w) \/ CopyEnds(w) \/ CopyFails(w) \/ Verifies(w) \/ FindsItTorn(w) \/ Rotates(w)
=============================================================================
