----------------------------- MODULE CameraNode ------------------------------
(***************************************************************************)
(* A camera node and what the server does with it: taking its frames, its  *)
(* lamp ring, its sensor settings, its health.  These share the node and   *)
(* its worker but no state; a behaviour is one of theirs.                  *)
(***************************************************************************)
EXTENDS CameraSources, SlotRing, SensorSettings, CameraHealth

VARIABLE part

vars == <<sourceVars, ringVars, settingsVars, healthVars, part>>

Parts == {"source", "ring", "settings", "health"}

Init ==
  /\ part \in Parts
  /\ SourcesInit /\ (part # "source" => camera = "flaky" /\ kind = CHOOSE k \in Kinds : TRUE)
  /\ RingInit /\ (part # "ring" => ~fitted)
  /\ SettingsInit
  /\ HealthInit /\ (part # "health" => ~lastError)

SourceStep(action) ==
  part = "source" /\ action /\ UNCHANGED <<ringVars, settingsVars, healthVars, part>>
RingStep(action) ==
  part = "ring" /\ action /\ UNCHANGED <<sourceVars, settingsVars, healthVars, part>>
SettingsStep(action) ==
  part = "settings" /\ action /\ UNCHANGED <<sourceVars, ringVars, healthVars, part>>
HealthStep(action) ==
  part = "health" /\ action /\ UNCHANGED <<sourceVars, ringVars, settingsVars, part>>

Next ==
  \/ SourceStep(SourcesNext) \/ RingStep(RingNext)
  \/ SettingsStep(SettingsNext) \/ HealthStep(HealthNext)

Spec == Init /\ [][Next]_vars

\* Threads are scheduled, requests and waits end, the worker reads at every tick.  The node
\* serves requests when it is up, and comes up again; frames come.
Fairness ==
  /\ WF_vars(SourceStep(Rtsp(RtspReader)))
  /\ WF_vars(SourceStep(Rtsp(RtspTick)))
  /\ WF_vars(SourceStep(Rtsp(ReadNewest /\ UNCHANGED rtsp)))
  /\ WF_vars(SourceStep(Mjpeg(MjpegReader)))
  /\ WF_vars(SourceStep(Mjpeg(MjpegTick)))
  /\ WF_vars(SourceStep(Mjpeg(ReadNewest /\ UNCHANGED buffer)))
  /\ WF_vars(SourceStep(Snapshot(DeviceThread)))
  /\ WF_vars(SourceStep(Snapshot(Exchange)))
  /\ WF_vars(SourceStep(Snapshot(SnapshotTick)))
  /\ WF_vars(RingStep(NodeAnswers)) /\ WF_vars(RingStep(NodeReadsLate))
  /\ WF_vars(RingStep(NodeReturns)) /\ WF_vars(RingStep(StartsPush))
  /\ WF_vars(RingStep(PushIsAnswered)) /\ WF_vars(RingStep(PushFails))
  /\ WF_vars(RingStep(RingTick))
  /\ WF_vars(HealthStep(FrameArrives)) /\ WF_vars(HealthStep(HealthTick))

FairSpec == Spec /\ Fairness

-----------------------------------------------------------------------------
(* Properties *)

\* slot_led_service.py, slot-ring-led.cpp: whatever is lost, late or restarted, a bay
\* the worker no longer holds free stops being shown green: the worker changes it, or
\* the ring gives up what it was told.
GreenEnds == lies <= LongestLie

\* Once node, network and bays are quiet, the ring comes to show what the worker has
\* decided and keeps showing it, whatever it was told before: a test pattern, a request
\* that came late, or nothing since it started (SlotLedRing.push, ringApply).
RingCatchesUp ==
  []( /\ calm /\ filming /\ fitted
      /\ decided # Nothing /\ Cardinality(DOMAIN decided) <= MaxSlots
      => <>[](ring.chars = decided /\ ~IsStale))

\* What the ring shows is what the worker has decided, or it is soon dark: through lost and
\* late pushes, restarts of both sides and test patterns (slot_led_service.py).
RingTellsTheTruth == []GreenEnds /\ RingCatchesUp

\* Through restores, reloads and updates in any order, the node has what the row
\* remembers, as long as nothing was refused or lost, the node kept its power, and no
\* update met another or a restore (update, reapply_remembered).
SettingsHold ==
  clean /\ NoUpdate /\ worker.at = "looping" =>
    \A n \in Given(remembered) : sensor[n] = remembered[n]

\* A camera that is offline has an error in its row, and one whose frames arrive again
\* loses it: neither waits for anybody (touch_camera_health, _handle_failed_read).
HealthIsOnRecord ==
  []( /\ metrics.streak >= OfflineAfter => lastError
      /\ working => <>[](Online /\ ~lastError))
=============================================================================
