--------------------------- MODULE SensorSettings ----------------------------
(***************************************************************************)
(* The sensor settings of a camera node (services/camera_control_service.py*)
(* and workers/camera_supervisor.py): what an administrator asked for is   *)
(* kept in the camera's row, because the node forgets it with its power.   *)
(*                                                                         *)
(* The node serves one request at a time and answers each at once or never.*)
(***************************************************************************)
EXTENDS Naturals, FiniteSets

CONSTANTS
  Names,   \* SETTING_RANGES: settings
  Values,  \* values in range
  Default, \* what a node starts with
  Unset,   \* no value is remembered
  Updates  \* requests of administrators that may run side by side

ASSUME SettingsBounds == Default \in Values /\ Unset \notin Values

VARIABLES
  remembered, \* sensor_settings_json of the row
  sensor,     \* what the node is set to
  worker,     \* the camera's task: [at, config], config what it has yet to restore
  update,     \* per request: [at, base, changes, todo]
  clean       \* history: since the settings were last restored, none was refused or
              \* lost, the node kept its power, and no two of those who set them met

settingsVars == <<remembered, sensor, worker, update, clean>>

Settings == [Names -> Values \cup {Unset}]
NoSettings == [n \in Names |-> Unset]
Given(s) == {n \in Names : s[n] # Unset}

Idle == [at |-> "idle", base |-> NoSettings, changes |-> NoSettings, todo |-> {}]

\* The row and the node of a camera that has just been added.
SettingsInit ==
  /\ remembered = NoSettings
  /\ sensor = [n \in Names |-> Default]
  /\ worker = [at |-> "starting", config |-> NoSettings]
  /\ update = [u \in Updates |-> Idle]
  /\ clean = FALSE

NoUpdate == \A u \in Updates : update[u].at = "idle"

-----------------------------------------------------------------------------
(* The worker: _supervise_one and _restore_sensor_settings. *)

\* load_camera_config; nothing remembered means nothing to restore.
BuildsContext ==
  /\ worker.at = "starting"
  /\ worker' = [at |-> IF Given(remembered) = {} THEN "looping" ELSE "restoring",
                config |-> remembered]
  /\ clean' = NoUpdate
  /\ UNCHANGED <<remembered, sensor, update>>

\* reapply_remembered and apply_to: one request for each, in the order of the row.
Set(n, value) == [sensor EXCEPT ![n] = value]

Restores(n) ==
  /\ worker.at = "restoring" /\ n \in Given(worker.config)
  /\ sensor' = Set(n, worker.config[n])
  /\ worker' = [worker EXCEPT !.config[n] = Unset]
  /\ UNCHANGED <<remembered, update, clean>>

\* 400 or 503: noted, and the others go on.
RestoreIsRefused(n) ==
  /\ worker.at = "restoring" /\ n \in Given(worker.config)
  /\ worker' = [worker EXCEPT !.config[n] = Unset]
  /\ clean' = FALSE
  /\ UNCHANGED <<remembered, sensor, update>>

\* No answer: the rest are not tried, and the camera loop starts all the same.
RestoreIsLost(n) ==
  /\ worker.at = "restoring" /\ n \in Given(worker.config)
  /\ worker' = [worker EXCEPT !.at = "looping", !.config = NoSettings]
  /\ sensor' \in {sensor, Set(n, worker.config[n])}
  /\ clean' = FALSE
  /\ UNCHANGED <<remembered, update>>

RestoreEnds ==
  /\ worker.at = "restoring" /\ Given(worker.config) = {}
  /\ worker' = [worker EXCEPT !.at = "looping"]
  /\ UNCHANGED <<remembered, sensor, update, clean>>

\* A reload asked for: _rebuild reads the row again, and restores nothing.
AfterReload == [at |-> "looping", config |-> NoSettings]

AsksForReload ==
  /\ worker.at = "looping"
  /\ worker' = [worker EXCEPT !.at = "reloading"]
  /\ UNCHANGED <<remembered, sensor, update, clean>>

Reloads ==
  /\ worker.at = "reloading"
  /\ worker' = AfterReload
  /\ UNCHANGED <<remembered, sensor, update, clean>>

\* The loop crashed, the camera was enabled again, or the process restarted.
Restarts ==
  /\ worker' = [worker EXCEPT !.at = "starting", !.config = NoSettings]
  /\ UNCHANGED <<remembered, sensor, update, clean>>

-----------------------------------------------------------------------------
(* An update: the row is read with the request, the node is set, the row is written. *)

Asks(u, changes) ==
  /\ update[u].at = "idle" /\ Given(changes) # {}
  /\ update' = [update EXCEPT ![u] =
       [at |-> "applying", base |-> remembered, changes |-> changes, todo |-> Given(changes)]]
  /\ clean' = (clean /\ NoUpdate /\ worker.at \in {"looping", "reloading"})
  /\ UNCHANGED <<remembered, sensor, worker>>

Applies(u, n) ==
  /\ update[u].at = "applying" /\ n \in update[u].todo
  /\ update' = [update EXCEPT ![u].todo = @ \ {n}]
  /\ \/ sensor' = Set(n, update[u].changes[n]) /\ UNCHANGED clean
     \/ UNCHANGED sensor /\ clean' = FALSE
  /\ UNCHANGED <<remembered, worker>>

\* The first request without an answer ends it: nothing of it is remembered.
UpdateIsLost(u, n) ==
  /\ update[u].at = "applying" /\ n \in update[u].todo
  /\ update' = [update EXCEPT ![u] = Idle]
  /\ sensor' \in {sensor, Set(n, update[u].changes[n])}
  /\ clean' = FALSE
  /\ UNCHANGED <<remembered, worker>>

FirstWins(base, changes) == [n \in Names |-> IF base[n] = Unset THEN changes[n] ELSE base[n]]

\* The whole column is written, from the row as it was when the request began.
Merged(base, changes) == [n \in Names |-> IF changes[n] = Unset THEN base[n] ELSE changes[n]]

Commits(u) ==
  /\ update[u].at = "applying" /\ update[u].todo = {}
  /\ remembered' = Merged(update[u].base, update[u].changes)
  /\ update' = [update EXCEPT ![u] = Idle]
  /\ UNCHANGED <<sensor, worker, clean>>

-----------------------------------------------------------------------------

\* A power cut: the node starts again with its defaults.
NodeRestarts ==
  /\ sensor' = [n \in Names |-> Default]
  /\ clean' = FALSE
  /\ UNCHANGED <<remembered, worker, update>>

SettingsNext ==
  \/ BuildsContext \/ RestoreEnds \/ AsksForReload \/ Reloads
  \/ Restarts \/ NodeRestarts
  \/ \E n \in Names : Restores(n) \/ RestoreIsRefused(n) \/ RestoreIsLost(n)
  \/ \E u \in Updates :
       \/ \E changes \in Settings : Asks(u, changes)
       \/ \E n \in Names : Applies(u, n) \/ UpdateIsLost(u, n)
       \/ Commits(u)
=============================================================================
