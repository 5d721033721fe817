------------------------------ MODULE Operations -----------------------------
(***************************************************************************)
(* What runs beside the cameras on the board's doubtful clock: alerts and  *)
(* their jobs, the retention purge, the records of a bay, the backups.     *)
(* The alert key is a bay's or the disk's, the backups share only the      *)
(* clock with the rest, the plates not even that, and the process runs its *)
(* jobs whatever they do, so a behaviour is of one part.                   *)
(***************************************************************************)
EXTENDS BayRecords, Backups, Plates, Lifespan

VARIABLES
  part,     \* "bay", "disk", "backups", "plates" or "process"
  purging,  \* the window of a purge between its two deletes; 0: none
  quiet     \* history: from now on nothing happens to bay, disk or clock

vars == <<clockVars, alertVars, bayVars, backupVars, plateVars, processVars, part, purging, quiet>>

Init ==
  /\ ClockInit /\ AlertInit /\ BayInit /\ BackupInit /\ PlateInit /\ ProcessInit
  /\ part \in {"bay", "disk", "backups", "plates", "process"}
  /\ purging = 0 /\ quiet = FALSE

BayChanges(state) ==
  /\ part = "bay" /\ ~quiet
  /\ Persists(state) \/ LosesChange(state)
  /\ UNCHANGED <<clockVars, alertVars, backupVars, plateVars, processVars, part, purging, quiet>>

LoopRestarts ==
  /\ part = "bay" /\ ~quiet
  /\ LoopIsBuilt
  /\ UNCHANGED <<clockVars, alertVars, backupVars, plateVars, processVars, part, purging, quiet>>

DiskChanges ==
  /\ part = "disk" /\ ~quiet
  /\ DiskFills
  /\ UNCHANGED <<clockVars, bayVars, backupVars, plateVars, processVars, part, purging, quiet>>

JobRaises ==
  /\ \/ part = "bay" /\ OverstayJob
     \/ part = "disk" /\ DiskJob
  /\ UNCHANGED <<clockVars, bayVars, backupVars, plateVars, processVars, part, purging, quiet>>

GuardAcknowledges ==
  /\ \E i \in DOMAIN alerts : Acknowledges(i)
  /\ UNCHANGED <<clockVars, bayVars, backupVars, plateVars, processVars, part, purging, quiet>>

\* purge: the history goes first, in commits of its own, then the acknowledged alerts.
PurgesHistory(window) ==
  /\ part \in {"bay", "disk"} /\ purging = 0
  /\ history' = HistoryKept(window)
  /\ purging' = window
  /\ UNCHANGED <<clockVars, alertVars, believed, bay, backupVars, plateVars, processVars, part,
                 quiet>>

PurgesAlerts ==
  /\ purging # 0
  /\ alerts' = AlertsKept(purging)
  /\ purging' = 0
  /\ UNCHANGED <<clockVars, disk, bayVars, backupVars, plateVars, processVars, part, quiet>>

\* The power goes: the purge is left half done, the loop and every backup with it.  The
\* clock may be lost.
PowerCut ==
  /\ part # "plates" /\ ~quiet
  /\ LosesClock
  /\ IF part = "bay" THEN LoopIsBuilt ELSE UNCHANGED bayVars
  /\ purging' = 0
  /\ files' = [i \in DOMAIN files |->
                 IF files[i].what = "partial"
                 THEN [files[i] EXCEPT !.what = "broken", !.by = Nobody]
                 ELSE [files[i] EXCEPT !.by = Nobody]]
  /\ writer' = [w \in Writers |-> [at |-> "idle", suspect |-> FALSE]]
  /\ UNCHANGED <<alertVars, alone, hadGood, plateVars, processVars, part, quiet>>

ClockSetRight ==
  /\ IsSetRight
  /\ UNCHANGED <<alertVars, bayVars, backupVars, plateVars, processVars, part, purging, quiet>>

Tick ==
  /\ part \in {"bay", "disk"}
  /\ BayOlder
  /\ alerts' = AlertsOlder
  /\ UNCHANGED <<clockVars, disk, backupVars, plateVars, processVars, part, purging, quiet>>

FallsQuiet ==
  /\ part \in {"bay", "disk"} /\ ~suspect /\ ~quiet
  /\ quiet' = TRUE
  /\ UNCHANGED <<clockVars, alertVars, bayVars, backupVars, plateVars, processVars, part, purging>>

WritesBackup ==
  /\ part = "backups"
  /\ BackupNext
  /\ UNCHANGED <<clockVars, alertVars, bayVars, plateVars, processVars, part, purging, quiet>>

ReadsPlates ==
  /\ part = "plates"
  /\ PlateNext
  /\ UNCHANGED <<clockVars, alertVars, bayVars, backupVars, processVars, part, purging, quiet>>

RunsProcess ==
  /\ part = "process"
  /\ ProcessNext
  /\ UNCHANGED <<clockVars, alertVars, bayVars, backupVars, plateVars, part, purging, quiet>>

Next ==
  \/ \E state \in Resolved : BayChanges(state)
  \/ LoopRestarts \/ DiskChanges \/ JobRaises \/ GuardAcknowledges
  \/ \E window \in Windows : PurgesHistory(window)
  \/ PurgesAlerts
  \/ PowerCut \/ ClockSetRight \/ Tick \/ FallsQuiet
  \/ WritesBackup \/ ReadsPlates \/ RunsProcess

Spec == Init /\ [][Next]_vars

\* The scheduler runs each job again and again, and time goes on (jobs/
\* interval_scheduler.py); a pool's thread ends what it runs, a loop comes to the end of
\* its tick, and the teardown goes on where it does not wait.
FairSpec ==
  /\ Spec
  /\ WF_vars(Tick) /\ WF_vars(JobRaises) /\ WF_vars(PurgesAlerts)
  /\ WF_vars(\E window \in Windows : PurgesHistory(window))
  /\ \A j \in Jobs : WF_vars(RunsProcess /\ JobIsDue(j))
  /\ \A c \in Loops : WF_vars(RunsProcess /\ Winds(c))
  /\ WF_vars(RunsProcess /\ \E changed \in BOOLEAN : DetectionEnds(changed))
  /\ WF_vars(RunsProcess /\ WorkEnds) /\ WF_vars(RunsProcess /\ TearsDown)

-----------------------------------------------------------------------------
(* Properties *)

\* alert_service.py, create_deduplicated: whatever is acknowledged, purged or raised,
\* and whatever happens to the clock, a key never has two open alerts.
OneOpenAlert ==
  \A i, j \in DOMAIN alerts : alerts[i].open /\ alerts[j].open => i = j

\* A bay that stays occupied, or a disk that stays full, has an open alert again and
\* again, however often it is acknowledged and its history purged: deduplication,
\* cooldown and a doubted history row may delay it, not silence it.
AlertComesBack ==
  []( quiet /\ (disk # 0 \/ bay.state = "OCCUPIED")
      => <>(\E i \in DOMAIN alerts : alerts[i].open))

\* overstay_alert_job.py, _alert_one: a duration from a suspect clock "cannot be trusted,
\* so do not alert on it".
NoAlertFromSuspectClock ==
  [][OverstayJob => ~bay.since.suspect]_vars

Opens(rows, i) ==
  /\ rows[i].state = "OCCUPIED"
  /\ \A j \in 1..(i - 1) : rows[j].state = "OCCUPIED" =>
       \E k \in (j + 1)..(i - 1) : rows[k].state = "FREE"

LeavesAt(rows, i) ==
  LET later == {k \in (i + 1)..Len(rows) : rows[k].state = "FREE"}
  IN IF later = {} THEN 0 ELSE CHOOSE k \in later : \A l \in later : k <= l

Stay(rows, i) ==
  LET last == IF LeavesAt(rows, i) = 0 THEN Len(rows) ELSE LeavesAt(rows, i)
  IN [start |-> i, end |-> LeavesAt(rows, i),
      gap |-> \E k \in i..last : rows[k].state = "UNKNOWN",
      suspect |-> \E k \in i..last : rows[k].suspect]

\* session_derivation_service.py: whatever rows are missing, doubled or out of order, in
\* every window asked for, the sessions are the stays that the window's rows tell of -
\* from an arrival to the first departure after it, each once, marked when any of its
\* rows is doubtful.
SessionsAreStays ==
  \A first \in 1..Len(history) : \A last \in first..Len(history) :
    LET rows == RangeOf(history, first, last)
    IN /\ ToSet(DeriveSessions(rows)) = {Stay(rows, i) : i \in {n \in DOMAIN rows : Opens(rows, n)}}
       /\ Len(DeriveSessions(rows)) = Cardinality({n \in DOMAIN rows : Opens(rows, n)})

\* backup_service.py, create_backup_and_audit: once a backup has passed its check, one
\* that is whole stays in the directory, through any number of failed copies - as long
\* as the clock holds and writers do not meet.
GoodBackupRemains ==
  hadGood /\ alone /\ cuts = 0 => \E i \in DOMAIN files : files[i].what = "good"

\* plate_search_service.py, plate_capture.py: when a plate was read since the bay last
\* changed, the search answers with a read of the car the bay was found occupied by, never
\* with one of a car before it, however long the read took.
FreshReadIsOfTheCar ==
  Answers /\ (\E i \in DOMAIN reads : reads[i].fresh) => reads[Answer].of = found

AfterLoops == {"closed", "joining", "noDetector", "disposed"}

\* lifespan.py, "stop producing work before tearing down the things that work depends
\* on": a shutdown comes to its end whatever the pools are busy with; no detection is in
\* flight when the contexts are closed; and when the engine is disposed of, every change
\* a tracker knows has been written, save those of loops that were cancelled while they
\* drained.  Until then each job runs again and again.
StopIsOrderly ==
  /\ phase # "serving" ~> phase = "disposed"
  /\ [](phase \in AfterLoops => \A c \in Loops : detection[c] = "none")
  /\ [](phase = "disposed" => unwritten \subseteq cutShort)
  /\ \A j \in Jobs : []<>(job[j] = "asked" \/ phase # "serving" \/ part # "process")
=============================================================================
