------------------------------- MODULE Alerts --------------------------------
(***************************************************************************)
(* The alerts of one key, a bay or the disk (services/alert_service.py,    *)
(* alert_rules.py, jobs/disk_space_alert_job.py), and what the retention   *)
(* purge leaves of them (services/retention_service.py).  The jobs and     *)
(* persist_state_changes share the database's one thread; acknowledgements *)
(* come in their own.                                                      *)
(***************************************************************************)
EXTENDS WallClock

CONSTANTS
  Cooldown,  \* alert_cooldown_s
  Windows,   \* older_than_months, or retention_months
  MaxAlerts  \* bound: rows of the key

ASSUME AlertBounds ==
  /\ Cooldown \in 1..Oldest
  /\ Windows \subseteq 1..(Oldest - 1) /\ Windows # {}
  /\ MaxAlerts \in Nat \ {0}

VARIABLES
  alerts,  \* the rows in the order of created_at: [age, suspect, open]
  disk     \* disk_severity: 0 when there is room, 1 WARNING, 2 CRITICAL

alertVars == <<alerts, disk>>

AlertInit == alerts = <<>> /\ disk = 0

NeverOpen(alert) == FALSE

StillOpen(alert) == alert.open

CooldownElapsed(alert) == Age(alert) >= Cooldown

\* create_deduplicated asks about the latest row alone.
MayRaise ==
  alerts # <<>> => ~StillOpen(Last(alerts)) /\ CooldownElapsed(Last(alerts))

CreateDeduplicated ==
  /\ Len(alerts) < MaxAlerts
  /\ MayRaise
  /\ alerts' = Inserted(alerts, [age |-> 0, suspect |-> suspect, open |-> TRUE])
  /\ UNCHANGED disk

DiskFills == /\ disk' \in 0..2 \ {disk}
             /\ UNCHANGED alerts

DiskJob == disk # 0 /\ CreateDeduplicated

\* acknowledge.  Two at once end the same but for the name on the row.
Acknowledges(i) ==
  /\ alerts[i].open
  /\ alerts' = [alerts EXCEPT ![i].open = FALSE]
  /\ UNCHANGED disk

IsPurgeable(alert, window) == ~alert.open /\ Age(alert) > window

AlertsKept(window) == Picked(alerts, {i \in DOMAIN alerts : ~IsPurgeable(alerts[i], window)})

AlertsOlder == [i \in DOMAIN alerts |-> Older(alerts[i])]
=============================================================================
