----------------------- MODULE CameraSupervisorProofs -----------------------
(***************************************************************************)
(* For any number of cameras and requests: a camera has at most one loop,  *)
(* every source that a context got is owned, and stop() leaves nothing     *)
(* behind.                                                                 *)
(***************************************************************************)
EXTENDS CameraSupervisor, FiniteSetTheorems, TLAPS

Entry == [task : {0} \cup Tasks, at : [Tasks -> At], current : BOOLEAN,
          context : {"none", "open", "closed"}, open : Nat, orphan : BOOLEAN]

\* A task that has yet to open its source finds no open one.
NotYetOpen == {"starting", "backoff"} \cup InThread

EntryFits(k) ==
  /\ k \in Entry
  /\ k.open = IF k.context = "open" THEN 1 ELSE 0
  /\ \A t \in Tasks : k.at[t] \in NotYetOpen => k.context # "open"

IsVictim(c, t) == watcher.at = "cancelling" /\ watcher.camera = c /\ watcher.task = t

\* A task that lives is in the table, or the watcher awaits its end.
TasksAreKnown ==
  \A c \in Cameras, t \in Tasks :
    cam[c].at[t] # "ended" => cam[c].task = t \/ IsVictim(c, t)

VictimIsOutOfTable ==
  watcher.at = "cancelling" =>
    /\ watcher.camera \in Cameras
    /\ watcher.task \in Tasks
    /\ cam[watcher.camera].task = 0

\* A camera that neither runs nor is being cancelled has no context.
NoStrayContext ==
  \A c \in Cameras :
    cam[c].task = 0 /\ ~(watcher.at = "cancelling" /\ watcher.camera = c) =>
      cam[c].context = "none"

StopInOrder ==
  /\ stop # "no" => watcher.at # "waiting"
  /\ stop \in {"waiting", "cancelled", "done"} => watcher.at = "ended"
  /\ stop = "done" => \A c \in Cameras : cam[c].task = 0

IInv ==
  /\ TypeOK
  /\ \A c \in Cameras : EntryFits(cam[c])
  /\ TasksAreKnown
  /\ VictimIsOutOfTable
  /\ NoStrayContext
  /\ StopInOrder

-----------------------------------------------------------------------------
(* What the operators do to one entry. *)

LEMMA DroppedFits ==
  ASSUME NEW k, EntryFits(k)
  PROVE  /\ EntryFits(Closed(k)) /\ Closed(k).context # "open"
         /\ Closed(k).task = k.task /\ Closed(k).at = k.at
         /\ EntryFits(Dropped(k)) /\ Dropped(k).context = "none"
         /\ Dropped(k).task = k.task /\ Dropped(k).at = k.at
<1>1. EntryFits(Closed(k)) /\ Closed(k).context # "open" /\ Closed(k).task = k.task
      /\ Closed(k).at = k.at
  <2>1. CASE k.context = "open"
    <3>1. k.open = 1 /\ Closed(k) = [k EXCEPT !.context = "closed", !.open = 0]
      BY <2>1 DEF EntryFits, Entry, Closed
    <3>2. Closed(k).context = "closed" /\ Closed(k).open = 0 /\ Closed(k).task = k.task
          /\ Closed(k).at = k.at
      BY <3>1 DEF EntryFits, Entry
    <3>3. Closed(k) \in Entry
      <4>1. [k EXCEPT !.context = "closed"] \in Entry
        BY DEF EntryFits, Entry
      <4>2. Closed(k) = [[k EXCEPT !.context = "closed"] EXCEPT !.open = 0]
        BY <3>1
      <4>3. ASSUME NEW l \in Entry PROVE [l EXCEPT !.open = 0] \in Entry
        BY DEF Entry
      <4> QED
        BY <4>1, <4>2, <4>3
    <3> QED
      BY <3>2, <3>3 DEF EntryFits
  <2>2. CASE k.context # "open"
    BY <2>2 DEF Closed
  <2> QED
    BY <2>1, <2>2
<1> QED
  BY <1>1 DEF EntryFits, Entry, Dropped

LEMMA CrashedFits ==
  ASSUME NEW k, NEW t \in Tasks, EntryFits(k)
  PROVE  /\ EntryFits(CrashedTo(k, t))
         /\ CrashedTo(k, t).context = "none"
         /\ CrashedTo(k, t).task = k.task
         /\ \A u \in Tasks : u # t => CrashedTo(k, t).at[u] = k.at[u]
  BY DroppedFits DEF EntryFits, Entry, CrashedTo, CrashDropped, At

LEMMA CancelFits ==
  ASSUME NEW k, NEW t \in Tasks, NEW opens \in BOOLEAN, EntryFits(k)
  PROVE  LET l == AfterCancel(k, t, opens)
         IN  /\ EntryFits(l)
             /\ l.task = k.task
             /\ l.context \in {"none", k.context}
             /\ k.at[t] = "ended" => l.at[t] = "ended"
             /\ \A u \in Tasks : u # t => l.at[u] = k.at[u]
<1>1. CASE k.at[t] = "crash_drain"
  BY <1>1, CrashedFits DEF AfterCancel
<1>2. CASE k.at[t] # "crash_drain"
  BY <1>2 DEF AfterCancel, EntryFits, Entry, At, Looping, InThread, NotYetOpen
<1> QED
  BY <1>1, <1>2

LEMMA SpawnedFits ==
  ASSUME NEW k, EntryFits(k), k.context = "none", \A t \in Tasks : k.at[t] = "ended"
  PROVE  /\ EntryFits(Spawned(k))
         /\ \A t \in Tasks : Spawned(k).at[t] # "ended" => Spawned(k).task = t
         /\ Spawned(k).task # 0
<1> DEFINE t == CHOOSE t \in Tasks : k.at[t] = "ended"
<1>1. t \in Tasks
  BY DEF Tasks
<1>2. Spawned(k) = [k EXCEPT !.task = t, !.at[t] = "starting"]
  BY DEF Spawned
<1> HIDE DEF t
<1>3. Spawned(k).at = [k.at EXCEPT ![t] = "starting"] /\ Spawned(k).task = t
      /\ Spawned(k).context = "none" /\ Spawned(k).open = k.open
  BY <1>1, <1>2 DEF EntryFits, Entry
<1>4. Spawned(k) \in Entry
  <2>1. [k.at EXCEPT ![t] = "starting"] \in [Tasks -> At]
    BY <1>1 DEF EntryFits, Entry, At
  <2> QED
    BY <1>1, <1>2, <1>3, <2>1 DEF EntryFits, Entry
<1> QED
  BY <1>1, <1>3, <1>4 DEF EntryFits, Entry, Tasks

LEMMA OutOfTableFits ==
  ASSUME NEW k, EntryFits(k)
  PROVE  LET l == [k EXCEPT !.task = 0]
         IN  EntryFits(l) /\ l.task = 0 /\ l.at = k.at /\ l.context = k.context
  BY DEF EntryFits, Entry

-----------------------------------------------------------------------------
LEMMA TasksAreAlone ==
  ASSUME IInv, NEW c \in Cameras, NEW t \in Tasks, NEW u \in Tasks,
         cam[c].at[t] # "ended", cam[c].at[u] # "ended"
  PROVE  t = u
  BY DEF IInv, TasksAreKnown, VictimIsOutOfTable, IsVictim, Tasks

LEMMA InitHolds == Init => IInv
<1> SUFFICES ASSUME Init PROVE IInv
  OBVIOUS
<1>1. EntryFits(NoCamera) /\ NoCamera.context = "none" /\ NoCamera.task = 0
      /\ \A t \in Tasks : NoCamera.at[t] = "ended"
  BY DEF NoCamera, EntryFits, Entry, At, NotYetOpen, InThread
<1>2. \A c \in Cameras : EntryFits(cam[c]) /\ cam[c].context = "none"
  BY <1>1, SpawnedFits DEF Init, Spawned, NoCamera
<1>3. TasksAreKnown
  BY <1>1, SpawnedFits DEF Init, TasksAreKnown
<1>4. cam \in [Cameras -> Entry]
  BY <1>1, SpawnedFits DEF Init, EntryFits
<1>5. TypeOK
  <2>1. edits \in 0..MaxEdits
    BY SupervisorBounds DEF Init
  <2>2. watcher \in [at : {"waiting", "cancelling", "ended"}, camera : {0} \cup Cameras,
                    task : {0} \cup Tasks, doomed : SUBSET Cameras]
    BY DEF Init, Idle
  <2> QED
    BY <1>4, <2>1, <2>2 DEF Init, TypeOK, Entry
<1>6. VictimIsOutOfTable /\ NoStrayContext /\ StopInOrder
  BY <1>2 DEF Init, VictimIsOutOfTable, NoStrayContext, StopInOrder, Idle
<1> QED
  BY <1>2, <1>3, <1>5, <1>6 DEF IInv

-----------------------------------------------------------------------------
(* Requests and signals leave the tasks alone. *)

LEMMA RequestKeeps ==
  ASSUME IInv, Request \/ SetEvent
  PROVE  IInv'
<1> USE DEF IInv, TypeOK
<1>1. CASE Create
  <2>1. TypeOK'
    BY <1>1, SupervisorBounds DEF Create, Commit
  <2> QED
    BY <1>1, <2>1 DEF Create, Commit, TasksAreKnown, VictimIsOutOfTable, NoStrayContext,
                      StopInOrder, IsVictim
<1>2. ASSUME NEW c \in Cameras, Retunes(c) \/ Update(c) PROVE IInv'
  <2> DEFINE k == [cam[c] EXCEPT !.current = FALSE]
  <2>1. EntryFits(k) /\ k.task = cam[c].task /\ k.at = cam[c].at /\ k.context = cam[c].context
    BY ZenonT(30) DEF EntryFits, Entry
  <2>2. cam' = [cam EXCEPT ![c] = k]
    BY <1>2 DEF Retunes, Update
  <2> HIDE DEF k
  <2>3. cam' \in [Cameras -> Entry] /\ \A d \in Cameras : EntryFits(cam'[d])
    BY <2>1, <2>2 DEF EntryFits, Entry
  <2>4. TypeOK'
    <3>1. CASE Retunes(c)
      <4>1. row' \in [Cameras -> {"absent", "disabled", "enabled"}]
        BY <3>1 DEF Retunes, Commit
      <4> QED
        BY <2>3, <3>1, <4>1, SupervisorBounds DEF Retunes, Commit, Entry
    <3>2. CASE Update(c)
      BY <2>3, <3>2, SupervisorBounds DEF Update, Commit, Entry
    <3> QED
      BY <1>2, <3>1, <3>2
  <2>5. \A d \in Cameras : /\ cam'[d].task = cam[d].task /\ cam'[d].at = cam[d].at
                           /\ cam'[d].context = cam[d].context
    BY <2>1, <2>2
  <2>6. UNCHANGED <<watcher, stop>>
    BY <1>2 DEF Retunes, Update, Commit
  <2>7. TasksAreKnown' /\ NoStrayContext' /\ StopInOrder'
    BY <2>5, <2>6 DEF TasksAreKnown, NoStrayContext, StopInOrder, IsVictim
  <2>8. VictimIsOutOfTable'
    BY <2>5, <2>6 DEF VictimIsOutOfTable
  <2> QED
    BY <2>3, <2>4, <2>7, <2>8
<1>3. ASSUME NEW c \in Cameras, Delete(c) PROVE IInv'
  <2>1. TypeOK'
    BY <1>3, SupervisorBounds DEF Delete, Commit
  <2> QED
    BY <1>3, <2>1 DEF Delete, Commit, TasksAreKnown, VictimIsOutOfTable, NoStrayContext,
                      StopInOrder, IsVictim
<1>4. CASE SetEvent
  <2>1. TypeOK'
    BY <1>4 DEF SetEvent
  <2> QED
    BY <1>4, <2>1 DEF SetEvent, TasksAreKnown, VictimIsOutOfTable, NoStrayContext,
                      StopInOrder, IsVictim
<1> QED
  BY <1>1, <1>2, <1>3, <1>4 DEF Request

-----------------------------------------------------------------------------
(* One step of one task. *)

LEMMA MovedFits ==
  ASSUME NEW k, NEW t \in Tasks, NEW a \in At, EntryFits(k),
         a \in NotYetOpen => k.context # "open"
  PROVE  LET l == [k EXCEPT !.at[t] = a]
         IN  /\ EntryFits(l) /\ l.task = k.task /\ l.context = k.context
             /\ \A u \in Tasks : u # t => l.at[u] = k.at[u]
<1> DEFINE l == [k EXCEPT !.at[t] = a]
<1>1. l.at = [k.at EXCEPT ![t] = a] /\ l.task = k.task /\ l.context = k.context
      /\ l.open = k.open
  BY DEF EntryFits, Entry
<1>2. [k.at EXCEPT ![t] = a] \in [Tasks -> At]
  BY DEF EntryFits, Entry
<1>3. l \in Entry
  BY <1>1, <1>2 DEF EntryFits, Entry
<1> HIDE DEF l
<1>4. EntryFits(l)
  BY <1>1, <1>3 DEF EntryFits, Entry
<1>5. \A u \in Tasks : u # t => l.at[u] = k.at[u]
  BY <1>1 DEF EntryFits, Entry
<1> QED
  BY <1>1, <1>4, <1>5 DEF l

LEMMA TaskKeeps ==
  ASSUME IInv, NEW c \in Cameras, NEW t \in Tasks, NEW k, Becomes(c, k),
         reloads' \in SUBSET Cameras, cam[c].at[t] # "ended",
         EntryFits(k), k.task = cam[c].task,
         \A u \in Tasks : u # t => k.at[u] = cam[c].at[u]
  PROVE  IInv'
<1> USE DEF IInv, Becomes
<1>1. cam' \in [Cameras -> Entry] /\ \A d \in Cameras : EntryFits(cam'[d])
  BY DEF EntryFits, Entry, TypeOK
<1>2. TypeOK'
  BY <1>1 DEF TypeOK, requests, Entry
<1>3. /\ cam'[c] = k
      /\ \A d \in Cameras : d # c => cam'[d] = cam[d]
      /\ \A d \in Cameras : cam'[d].task = cam[d].task
  BY DEF TypeOK
<1>4. cam[c].task = t \/ IsVictim(c, t)
  BY DEF TasksAreKnown
<1>5. TasksAreKnown'
  BY <1>3, <1>4 DEF TasksAreKnown, IsVictim
<1>6. NoStrayContext'
  BY <1>3, <1>4 DEF NoStrayContext, IsVictim, Tasks
<1>7. VictimIsOutOfTable' /\ StopInOrder'
  BY <1>3 DEF VictimIsOutOfTable, StopInOrder
<1> QED
  BY <1>1, <1>2, <1>5, <1>6, <1>7

LEMMA GoesKeeps ==
  ASSUME IInv, NEW c \in Cameras, NEW t \in Tasks, NEW from \in At \ {"ended"}, NEW to \in At,
         to \in NotYetOpen => from \in NotYetOpen, Goes(c, t, from, to)
  PROVE  IInv'
<1> DEFINE k == [cam[c] EXCEPT !.at[t] = to]
<1>1. EntryFits(cam[c]) /\ cam[c].at[t] = from /\ Becomes(c, k) /\ reloads' = reloads
  BY DEF Goes, IInv
<1>2. to \in NotYetOpen => cam[c].context # "open"
  BY <1>1 DEF EntryFits
<1>3. /\ EntryFits(k) /\ k.task = cam[c].task
      /\ \A u \in Tasks : u # t => k.at[u] = cam[c].at[u]
  BY <1>1, <1>2, MovedFits
<1> QED
  BY <1>1, <1>3, TaskKeeps DEF IInv, TypeOK

\* A new context: the task is the only one that could have been waiting for it.
LEMMA InstalledFits ==
  ASSUME NEW k, NEW t \in Tasks, EntryFits(k), k.at[t] \in NotYetOpen,
         \A u \in Tasks : u # t => k.at[u] = "ended"
  PROVE  LET l == [Installed(k) EXCEPT !.at[t] = "running"]
         IN  /\ EntryFits(l) /\ l.task = k.task
             /\ \A u \in Tasks : u # t => l.at[u] = k.at[u]
<1> DEFINE i == [k EXCEPT !.context = "open", !.open = 1]
           l == [i EXCEPT !.at[t] = "running"]
<1>1. k.open = 0 /\ Installed(k) = i
  <2>1. k.open = 0 /\ k.open + 1 = 1
    BY DEF EntryFits, Entry
  <2> QED
    BY <2>1 DEF Installed
<1>2. i.context = "open" /\ i.open = 1 /\ i.task = k.task /\ i.at = k.at
  BY DEF EntryFits, Entry
<1>3. i \in Entry
  <2>1. [k EXCEPT !.context = "open"] \in Entry
    BY DEF EntryFits, Entry
  <2>2. i = [[k EXCEPT !.context = "open"] EXCEPT !.open = 1]
    OBVIOUS
  <2>3. ASSUME NEW e \in Entry PROVE [e EXCEPT !.open = 1] \in Entry
    BY DEF Entry
  <2> HIDE DEF i
  <2> QED
    BY <2>1, <2>2, <2>3
<1> HIDE DEF i
<1>4. [i.at EXCEPT ![t] = "running"] \in [Tasks -> At]
  BY <1>3 DEF Entry, At
<1>5. /\ l.at = [i.at EXCEPT ![t] = "running"] /\ l.task = k.task
      /\ l.context = "open" /\ l.open = 1 /\ l \in Entry
  BY <1>2, <1>3, <1>4 DEF Entry
<1>6. l = [Installed(k) EXCEPT !.at[t] = "running"]
  BY <1>1
<1> HIDE DEF l
<1>7. \A u \in Tasks : l.at[u] = IF u = t THEN "running" ELSE k.at[u]
  BY <1>2, <1>3, <1>5 DEF Entry
<1>8. EntryFits(l)
  BY <1>5, <1>7 DEF EntryFits, NotYetOpen, InThread
<1> QED
  BY <1>5, <1>6, <1>7, <1>8

LEMMA SuperviseKeeps ==
  ASSUME IInv, NEW c \in Cameras, NEW t \in Tasks, Supervise(c, t)
  PROVE  IInv'
<1> USE DEF At, NotYetOpen, InThread
<1>1. EntryFits(cam[c]) /\ reloads \in SUBSET Cameras
  BY DEF IInv, TypeOK
<1>2. cam[c].at[t] # "ended" => \A u \in Tasks : u # t => cam[c].at[u] = "ended"
  BY TasksAreAlone
<1>3. CASE Builds(c, t)
  BY <1>3, GoesKeeps DEF Builds
<1>4. CASE RowRead(c, t)
  <2> DEFINE k(a) == [cam[c] EXCEPT !.at[t] = a, !.current = TRUE]
  <2>1. ASSUME NEW a \in At, a \in NotYetOpen => cam[c].context # "open"
        PROVE  /\ EntryFits(k(a)) /\ k(a).task = cam[c].task
               /\ \A u \in Tasks : u # t => k(a).at[u] = cam[c].at[u]
    <3>1. ASSUME NEW e, EntryFits(e)
          PROVE  LET l == [e EXCEPT !.current = TRUE]
                 IN  EntryFits(l) /\ l.task = e.task /\ l.at = e.at
      BY <3>1 DEF EntryFits, Entry
    <3>2. k(a) = [[cam[c] EXCEPT !.at[t] = a] EXCEPT !.current = TRUE]
      OBVIOUS
    <3> DEFINE e == [cam[c] EXCEPT !.at[t] = a]
    <3>3. /\ EntryFits(e) /\ e.task = cam[c].task
          /\ \A u \in Tasks : u # t => e.at[u] = cam[c].at[u]
      BY <1>1, <2>1, MovedFits, ZenonT(30)
    <3> HIDE DEF e
    <3> QED
      BY <3>1, <3>2, <3>3 DEF e
  <2>2. CASE cam[c].at[t] = "reading" /\ Becomes(c, k("opening"))
    <3>1. cam[c].context # "open"
      BY <1>1, <2>2 DEF EntryFits
    <3> QED
      BY <1>1, <1>4, <2>1, <2>2, <3>1, TaskKeeps DEF RowRead
  <2>3. CASE cam[c].at[t] = "rereading" /\ Becomes(c, k("reopening"))
    <3>1. cam[c].context # "open"
      BY <1>1, <2>3 DEF EntryFits
    <3> QED
      BY <1>1, <1>4, <2>1, <2>3, <3>1, TaskKeeps DEF RowRead
  <2> QED
    BY <1>4, <2>2, <2>3 DEF RowRead
<1>5. CASE Built(c, t) \/ Rebuilt(c, t)
  <2> DEFINE k == [Installed(cam[c]) EXCEPT !.at[t] = "running"]
  <2>1. cam[c].at[t] \in {"opening", "reopening"} /\ Becomes(c, k) /\ reloads' = reloads
    BY <1>5 DEF Built, Rebuilt
  <2>2. /\ EntryFits(k) /\ k.task = cam[c].task
        /\ \A u \in Tasks : u # t => k.at[u] = cam[c].at[u]
    BY <1>1, <1>2, <2>1, InstalledFits
  <2> QED
    BY <1>1, <2>1, <2>2, TaskKeeps
<1>6. CASE BuildFails(c, t)
  BY <1>1, <1>6, CrashedFits, TaskKeeps DEF BuildFails, Building
<1>7. CASE Reload(c, t)
  <2> DEFINE k == [Closed(cam[c]) EXCEPT !.at[t] = "rereading"]
  <2>1. cam[c].at[t] = "running" /\ Becomes(c, k) /\ reloads' \in SUBSET Cameras
    BY <1>1, <1>7 DEF Reload, OldClosed
  <2>2. /\ EntryFits(k) /\ k.task = cam[c].task
        /\ \A u \in Tasks : u # t => k.at[u] = cam[c].at[u]
    <3> DEFINE e == Closed(cam[c])
    <3>1. EntryFits(e) /\ e.context # "open" /\ e.task = cam[c].task /\ e.at = cam[c].at
      BY <1>1, DroppedFits
    <3>2. k = [e EXCEPT !.at[t] = "rereading"]
      OBVIOUS
    <3> HIDE DEF e
    <3>3. LET l == [e EXCEPT !.at[t] = "rereading"]
          IN  /\ EntryFits(l) /\ l.task = e.task /\ l.context = e.context
              /\ \A u \in Tasks : u # t => l.at[u] = e.at[u]
      BY <3>1, MovedFits, ZenonT(30)
    <3> HIDE DEF k
    <3> QED
      BY <3>1, <3>2, <3>3
  <2> QED
    BY <2>1, <2>2, TaskKeeps
<1>8. CASE Crash(c, t)
  <2>1. cam[c].at[t] # "ended" /\ reloads' = reloads
    BY <1>8 DEF Crash, Looping
  <2>2. CASE Becomes(c, CrashedTo(cam[c], t))
    BY <1>1, <2>1, <2>2, CrashedFits, TaskKeeps
  <2>3. CASE Becomes(c, [cam[c] EXCEPT !.at[t] = "crash_drain"])
    <3> DEFINE e == cam[c]
    <3>1. EntryFits(e) /\ "crash_drain" \in At /\ "crash_drain" \notin NotYetOpen
      BY <1>1 DEF At, NotYetOpen
    <3> HIDE DEF e
    <3>2. LET l == [e EXCEPT !.at[t] = "crash_drain"]
          IN  /\ EntryFits(l) /\ l.task = e.task /\ l.context = e.context
              /\ \A u \in Tasks : u # t => l.at[u] = e.at[u]
      BY <3>1, MovedFits, ZenonT(30)
    <3>3. Becomes(c, [e EXCEPT !.at[t] = "crash_drain"])
      BY <2>3 DEF e
    <3> QED
      BY <1>1, <2>1, <3>2, <3>3, TaskKeeps DEF e
  <2> QED
    BY <1>8, <2>2, <2>3 DEF Crash
<1>9. CASE Drained(c, t)
  <2>1. CASE Goes(c, t, "cancel_drain", "ended") \/ Goes(c, t, "stop_drain", "ended")
    BY <2>1, GoesKeeps
  <2>2. CASE cam[c].at[t] = "crash_drain" /\ Becomes(c, CrashedTo(cam[c], t)) /\ UNCHANGED reloads
    BY <1>1, <2>2, CrashedFits, TaskKeeps
  <2> QED
    BY <1>9, <2>1, <2>2 DEF Drained
<1>10. CASE SeesStop(c, t)
  BY <1>10, GoesKeeps DEF SeesStop
<1> QED
  BY <1>3, <1>4, <1>5, <1>6, <1>7, <1>8, <1>9, <1>10 DEF Supervise

-----------------------------------------------------------------------------
(* The watcher. *)

WatcherStates == [at : {"waiting", "cancelling", "ended"}, camera : {0} \cup Cameras,
                  task : {0} \cup Tasks, doomed : SUBSET Cameras]

\* Every task of the fleet f is in the table, and no context without one.
Settled(f) ==
  /\ \A c \in Cameras : EntryFits(f[c])
  /\ \A c \in Cameras, t \in Tasks : f[c].at[t] # "ended" => f[c].task = t
  /\ \A c \in Cameras : f[c].task = 0 => f[c].context = "none"

LEMMA CancelNextKeeps ==
  ASSUME NEW f \in [Cameras -> Entry], NEW doomed \in SUBSET Cameras,
         Settled(f), CancelNext(f, doomed)
  PROVE  /\ cam' \in [Cameras -> Entry]
         /\ \A c \in Cameras : EntryFits(cam'[c])
         /\ TasksAreKnown' /\ VictimIsOutOfTable' /\ NoStrayContext'
         /\ watcher' \in WatcherStates
         /\ stop # "no" => watcher'.at # "waiting"
<1> DEFINE left == {c \in doomed : f[c].task # 0}
<1>1. CASE left = {}
  <2>1. cam' = f /\ watcher' = IF stop = "no" THEN Idle ELSE Ended
    BY <1>1 DEF CancelNext
  <2>2. watcher' \in WatcherStates /\ watcher'.at # "cancelling"
        /\ (stop # "no" => watcher'.at # "waiting")
    BY <2>1 DEF Idle, Ended, WatcherStates
  <2> QED
    BY <2>1, <2>2 DEF Settled, TasksAreKnown, VictimIsOutOfTable, NoStrayContext
<1>2. CASE left # {}
  <2>1. PICK c \in left, opens \in BOOLEAN :
          /\ cam' = [f EXCEPT ![c] = [AfterCancel(@, @.task, opens) EXCEPT !.task = 0]]
          /\ watcher' = [at |-> "cancelling", camera |-> c, task |-> f[c].task,
                         doomed |-> left \ {c}]
    BY <1>2 DEF CancelNext
  <2> DEFINE t == f[c].task
             l == AfterCancel(f[c], t, opens)
             k == [l EXCEPT !.task = 0]
  <2>2. c \in Cameras /\ t \in Tasks /\ EntryFits(f[c])
    BY DEF Settled, Entry
  <2>3. \A u \in Tasks : u # t => f[c].at[u] = "ended"
    BY <2>2 DEF Settled
  <2>4. EntryFits(l) /\ \A u \in Tasks : u # t => l.at[u] = "ended"
    BY <2>2, <2>3, CancelFits
  <2> HIDE DEF l
  <2>5. EntryFits(k) /\ k.task = 0 /\ \A u \in Tasks : u # t => k.at[u] = "ended"
    BY <2>4, OutOfTableFits
  <2>6. cam' = [f EXCEPT ![c] = k]
    BY <2>1 DEF l
  <2> HIDE DEF k
  <2>7. watcher' = [at |-> "cancelling", camera |-> c, task |-> t, doomed |-> left \ {c}]
    BY <2>1
  <2>8. cam' \in [Cameras -> Entry] /\ \A d \in Cameras : EntryFits(cam'[d])
    BY <2>2, <2>5, <2>6 DEF EntryFits, Settled
  <2>9. cam'[c] = k /\ \A d \in Cameras : d # c => cam'[d] = f[d]
    BY <2>2, <2>6
  <2>10. TasksAreKnown'
    BY <2>5, <2>7, <2>9 DEF TasksAreKnown, IsVictim, Settled
  <2>11. VictimIsOutOfTable' /\ NoStrayContext'
    BY <2>2, <2>5, <2>7, <2>9 DEF VictimIsOutOfTable, NoStrayContext, Settled
  <2>12. watcher' \in WatcherStates /\ watcher'.at = "cancelling"
    BY <2>2, <2>7 DEF WatcherStates
  <2> QED
    BY <2>8, <2>10, <2>11, <2>12
<1> QED
  BY <1>1, <1>2

LEMMA ReconcileKeeps ==
  ASSUME IInv, Reconcile
  PROVE  IInv'
<1>1. watcher.at = "waiting" /\ stop = "no"
  BY DEF Reconcile
<1>2. Settled(cam)
  BY <1>1 DEF IInv, Settled, TasksAreKnown, NoStrayContext, IsVictim
<1>3. PICK failed \in BOOLEAN :
        LET wanted == IF failed THEN {} ELSE Enabled
            spawned == [c \in Cameras |->
              IF c \in wanted \ Running /\ CanSpawn(cam[c]) THEN Spawned(cam[c]) ELSE cam[c]]
        IN  blind' = failed /\ CancelNext(spawned, Running \ wanted)
  BY DEF Reconcile
<1> DEFINE wanted == IF failed THEN {} ELSE Enabled
           spawned == [c \in Cameras |->
             IF c \in wanted \ Running /\ CanSpawn(cam[c]) THEN Spawned(cam[c]) ELSE cam[c]]
<1>4. ASSUME NEW c \in Cameras, c \notin Running
      PROVE  /\ EntryFits(Spawned(cam[c])) /\ Spawned(cam[c]).task # 0
             /\ \A t \in Tasks : Spawned(cam[c]).at[t] # "ended" => Spawned(cam[c]).task = t
  <2>1. cam[c].task = 0 /\ cam[c].context = "none" /\ EntryFits(cam[c])
    BY <1>2, <1>4 DEF Running, Settled
  <2>2. \A t \in Tasks : cam[c].at[t] = "ended"
    BY <1>2, <2>1 DEF Settled, Tasks
  <2> QED
    BY <2>1, <2>2, SpawnedFits
<1>5. Settled(spawned)
  BY <1>2, <1>4 DEF Settled
<1>6. spawned \in [Cameras -> Entry]
  BY <1>5 DEF Settled, EntryFits
<1>7. CancelNext(spawned, Running \ wanted) /\ Running \ wanted \in SUBSET Cameras
  BY <1>3 DEF Running
<1> HIDE DEF wanted, spawned
<1>8. /\ cam' \in [Cameras -> Entry] /\ \A c \in Cameras : EntryFits(cam'[c])
      /\ TasksAreKnown' /\ VictimIsOutOfTable' /\ NoStrayContext' /\ watcher' \in WatcherStates
  BY <1>5, <1>6, <1>7, CancelNextKeeps
<1>9. TypeOK'
  BY <1>3, <1>8 DEF IInv, TypeOK, Reconcile, requests, WatcherStates, Entry
<1>10. StopInOrder'
  BY <1>1 DEF Reconcile, StopInOrder
<1> QED
  BY <1>8, <1>9, <1>10 DEF IInv

LEMMA CancelEndsKeeps ==
  ASSUME IInv, CancelEnds
  PROVE  IInv'
<1> DEFINE c == watcher.camera
           f == [cam EXCEPT ![c] = Dropped(@)]
<1>1. /\ watcher.at = "cancelling" /\ c \in Cameras /\ watcher.task \in Tasks
      /\ cam[c].task = 0 /\ cam[c].at[watcher.task] = "ended" /\ EntryFits(cam[c])
  BY DEF CancelEnds, VictimIsGone, IInv, VictimIsOutOfTable
<1>2. /\ EntryFits(Dropped(cam[c])) /\ Dropped(cam[c]).context = "none"
      /\ Dropped(cam[c]).task = 0 /\ Dropped(cam[c]).at = cam[c].at
  BY <1>1, DroppedFits
<1>3. f[c] = Dropped(cam[c]) /\ (\A d \in Cameras : d # c => f[d] = cam[d])
  BY <1>1 DEF IInv, TypeOK
<1>4. CancelNext(f, watcher.doomed) /\ watcher.doomed \in SUBSET Cameras
  BY DEF CancelEnds, IInv, TypeOK
<1>5. f \in [Cameras -> Entry]
  BY <1>1, <1>2 DEF IInv, TypeOK, EntryFits, Entry
<1> HIDE DEF f
<1>6. Settled(f)
  BY <1>1, <1>2, <1>3 DEF Settled, IInv, TasksAreKnown, NoStrayContext, IsVictim, Tasks
<1>7. /\ cam' \in [Cameras -> Entry] /\ \A d \in Cameras : EntryFits(cam'[d])
      /\ TasksAreKnown' /\ VictimIsOutOfTable' /\ NoStrayContext' /\ watcher' \in WatcherStates
      /\ stop # "no" => watcher'.at # "waiting"
  BY <1>4, <1>5, <1>6, CancelNextKeeps
<1>8. TypeOK'
  BY <1>7 DEF IInv, TypeOK, CancelEnds, WatcherStates, Entry
<1>9. StopInOrder'
  BY <1>1, <1>7 DEF IInv, StopInOrder, CancelEnds
<1> QED
  BY <1>7, <1>8, <1>9 DEF IInv

-----------------------------------------------------------------------------
(* stop() *)

LEMMA StopAskedKeeps ==
  ASSUME IInv, StopAsked
  PROVE  IInv'
<1>1. stop = "no" /\ stop' = "asked" /\ UNCHANGED <<requests, reloads, reconcile, blind>>
  BY DEF StopAsked
<1>2. CASE watcher.at = "cancelling"
  <2> DEFINE c == watcher.camera
  <2>1. PICK opens \in BOOLEAN :
          cam' = [cam EXCEPT ![c] = AfterCancel(@, watcher.task, opens)]
    BY <1>2 DEF StopAsked
  <2> DEFINE k == AfterCancel(cam[c], watcher.task, opens)
  <2>2. c \in Cameras /\ watcher.task \in Tasks /\ cam[c].task = 0 /\ EntryFits(cam[c])
    BY <1>2 DEF IInv, VictimIsOutOfTable
  <2>3. /\ EntryFits(k) /\ k.task = 0
        /\ \A u \in Tasks : u # watcher.task => k.at[u] = cam[c].at[u]
    BY <2>2, CancelFits
  <2>4. cam' = [cam EXCEPT ![c] = k]
    BY <2>1
  <2> HIDE DEF k
  <2>5. cam' \in [Cameras -> Entry] /\ \A d \in Cameras : EntryFits(cam'[d])
    BY <2>2, <2>3, <2>4 DEF IInv, TypeOK, EntryFits, Entry
  <2>6. cam'[c] = k /\ (\A d \in Cameras : d # c => cam'[d] = cam[d]) /\ watcher' = watcher
    BY <1>2, <2>2, <2>4 DEF IInv, TypeOK, StopAsked
  <2>7. TypeOK'
    BY <1>1, <2>5, <2>6 DEF IInv, TypeOK, Entry, requests
  <2>8. TasksAreKnown' /\ VictimIsOutOfTable' /\ NoStrayContext' /\ StopInOrder'
    BY <1>1, <1>2, <2>2, <2>3, <2>6
    DEF IInv, TasksAreKnown, VictimIsOutOfTable, NoStrayContext, StopInOrder, IsVictim
  <2> QED
    BY <2>5, <2>7, <2>8 DEF IInv
<1>3. CASE watcher.at # "cancelling"
  <2>1. cam' = cam /\ watcher' = Ended /\ watcher'.at = "ended"
    BY <1>3 DEF StopAsked, Ended, Idle
  <2>2. TypeOK'
    BY <1>1, <2>1 DEF IInv, TypeOK, requests, Ended, Idle
  <2> QED
    BY <1>1, <1>3, <2>1, <2>2
    DEF IInv, TasksAreKnown, VictimIsOutOfTable, NoStrayContext, StopInOrder, IsVictim
<1> QED
  BY <1>2, <1>3

LEMMA StopWaitsKeeps ==
  ASSUME IInv, StopWaits
  PROVE  IInv'
  BY DEF IInv, TypeOK, StopWaits, WatcherIsGone, requests, TasksAreKnown, VictimIsOutOfTable,
         NoStrayContext, StopInOrder, IsVictim

LEMMA StopTimesOutKeeps ==
  ASSUME IInv, StopTimesOut
  PROVE  IInv'
<1>1. /\ stop = "waiting" /\ stop' = "cancelled" /\ watcher.at = "ended"
      /\ UNCHANGED <<requests, reloads, reconcile, watcher, blind>>
  BY DEF StopTimesOut, IInv, StopInOrder
<1>2. PICK opening \in SUBSET Overstayers :
        cam' = [c \in Cameras |->
          IF c \in Overstayers THEN AfterCancel(cam[c], cam[c].task, c \in opening) ELSE cam[c]]
  BY DEF StopTimesOut
<1>3. ASSUME NEW c \in Cameras
      PROVE  /\ EntryFits(cam'[c]) /\ cam'[c].task = cam[c].task
             /\ cam'[c].context \in {"none", cam[c].context}
             /\ \A t \in Tasks : t # cam[c].task => cam'[c].at[t] = cam[c].at[t]
  <2>1. EntryFits(cam[c])
    BY DEF IInv
  <2>2. CASE c \in Overstayers
    <3>1. cam[c].task \in Tasks
      BY <2>1, <2>2 DEF Overstayers, Running, EntryFits, Entry
    <3>2. cam'[c] = AfterCancel(cam[c], cam[c].task, c \in opening)
      BY <1>2, <2>2
    <3>3. ASSUME NEW opens \in BOOLEAN, NEW t \in Tasks, t = cam[c].task,
                 cam'[c] = AfterCancel(cam[c], t, opens)
          PROVE  /\ EntryFits(cam'[c]) /\ cam'[c].task = cam[c].task
                 /\ cam'[c].context \in {"none", cam[c].context}
                 /\ \A u \in Tasks : u # t => cam'[c].at[u] = cam[c].at[u]
      BY <2>1, <3>3, CancelFits
    <3>4. CASE c \in opening
      BY <3>1, <3>2, <3>3, <3>4
    <3>5. CASE c \notin opening
      <4>1. cam'[c] = AfterCancel(cam[c], cam[c].task, FALSE)
        BY <3>2, <3>5 DEF AfterCancel
      <4> QED
        BY <3>1, <3>3, <4>1
    <3> QED
      BY <3>4, <3>5
  <2>3. CASE c \notin Overstayers
    BY <1>2, <2>1, <2>3
  <2> QED
    BY <2>2, <2>3
<1>4. cam' \in [Cameras -> Entry]
  <2>1. cam' = [c \in Cameras |-> cam'[c]]
    BY <1>2
  <2> QED
    BY <1>3, <2>1 DEF EntryFits
<1>5. TypeOK'
  BY <1>1, <1>4 DEF IInv, TypeOK, Entry, requests
<1>6. TasksAreKnown' /\ VictimIsOutOfTable' /\ NoStrayContext' /\ StopInOrder'
  BY <1>1, <1>3
  DEF IInv, TasksAreKnown, VictimIsOutOfTable, NoStrayContext, StopInOrder, IsVictim
<1> QED
  BY <1>3, <1>5, <1>6 DEF IInv

LEMMA StopEndsKeeps ==
  ASSUME IInv, StopEnds
  PROVE  IInv'
<1>1. /\ watcher.at = "ended" /\ stop' = "done"
      /\ UNCHANGED <<requests, reloads, reconcile, watcher, blind>>
  BY DEF StopEnds, IInv, StopInOrder
<1>2. ASSUME NEW c \in Cameras
      PROVE  /\ EntryFits(cam'[c]) /\ cam'[c].task = 0 /\ cam'[c].context = "none"
             /\ cam'[c].at = cam[c].at
  <2>1. EntryFits(Dropped(cam[c])) /\ Dropped(cam[c]).context = "none"
        /\ Dropped(cam[c]).at = cam[c].at
    BY DroppedFits DEF IInv
  <2>2. cam'[c] = [Dropped(cam[c]) EXCEPT !.task = 0]
    BY DEF StopEnds
  <2> QED
    BY <2>1, <2>2, OutOfTableFits
<1>3. \A c \in Cameras, t \in Tasks : cam[c].at[t] = "ended"
  BY <1>1 DEF StopEnds, Overstayers, Running, IInv, TasksAreKnown, IsVictim, Tasks
<1>4. cam' \in [Cameras -> Entry]
  <2>1. cam' = [c \in Cameras |-> cam'[c]]
    BY DEF StopEnds
  <2> QED
    BY <1>2, <2>1 DEF EntryFits
<1>5. TypeOK'
  BY <1>1, <1>4 DEF IInv, TypeOK, Entry, requests
<1>6. TasksAreKnown' /\ VictimIsOutOfTable' /\ NoStrayContext' /\ StopInOrder'
  BY <1>1, <1>2, <1>3
  DEF IInv, TasksAreKnown, VictimIsOutOfTable, NoStrayContext, StopInOrder, IsVictim
<1> QED
  BY <1>2, <1>5, <1>6 DEF IInv

-----------------------------------------------------------------------------
LEMMA NextKeeps ==
  ASSUME IInv, [Next]_vars
  PROVE  IInv'
<1>1. CASE UNCHANGED vars
  BY <1>1 DEF vars, requests, IInv, TypeOK, TasksAreKnown, VictimIsOutOfTable, NoStrayContext,
              StopInOrder, IsVictim
<1>2. CASE Stop
  BY <1>2, StopAskedKeeps, StopWaitsKeeps, StopTimesOutKeeps, StopEndsKeeps DEF Stop
<1> QED
  BY <1>1, <1>2, RequestKeeps, ReconcileKeeps, CancelEndsKeeps, SuperviseKeeps DEF Next

THEOREM Inductive == Spec => []IInv
<1> QED
  BY InitHolds, NextKeeps, PTL DEF Spec

\* The state of the supervisor is well typed (_tasks, _contexts, signals, stop).
THEOREM TypeCorrect == Spec => []TypeOK
<1>1. IInv => TypeOK
  BY DEF IInv
<1> QED
  BY <1>1, Inductive, PTL

\* No second loop starts for a camera before the first has ended (_cancel awaits it).
THEOREM OneLoop == Spec => []OneLoopPerCamera
<1>1. IInv => OneLoopPerCamera
  <2> SUFFICES ASSUME IInv, NEW c \in Cameras PROVE Cardinality(Live(c)) <= 1
    BY DEF OneLoopPerCamera
  <2>1. CASE Live(c) = {}
    BY <2>1, FS_EmptySet
  <2>2. ASSUME NEW t \in Live(c) PROVE Cardinality(Live(c)) <= 1
    <3>1. Live(c) = {t}
      BY <2>2, TasksAreAlone DEF Live
    <3>2. Cardinality({t}) = 1
      BY FS_Singleton
    <3> QED
      BY <3>1, <3>2
  <2> QED
    BY <2>1, <2>2
<1> QED
  BY <1>1, Inductive, PTL

\* A source is open exactly as long as its context is in the table and not closed
\* (_supervise, _rebuild, _cancel, stop).
THEOREM SourcesOwned == Spec => []SourcesAreOwned
<1>1. IInv => SourcesAreOwned
  BY DEF IInv, EntryFits, SourcesAreOwned
<1> QED
  BY <1>1, Inductive, PTL

\* stop() returns with every loop ended and every source closed.
THEOREM StopIsClean == Spec => []StoppedIsQuiet
<1>1. IInv => StoppedIsQuiet
  <2> SUFFICES ASSUME IInv, stop = "done", NEW c \in Cameras
               PROVE  Live(c) = {} /\ cam[c].open = 0
    BY DEF StoppedIsQuiet
  <2>1. watcher.at = "ended" /\ cam[c].task = 0 /\ cam[c].context = "none"
    BY DEF IInv, StopInOrder, NoStrayContext
  <2>2. \A t \in Tasks : cam[c].at[t] = "ended"
    BY <2>1 DEF IInv, TasksAreKnown, IsVictim, Tasks
  <2> QED
    BY <2>1, <2>2 DEF Live, IInv, EntryFits
<1> QED
  BY <1>1, Inductive, PTL
=============================================================================
