-------------------------- MODULE CameraLoopProofs --------------------------
(***************************************************************************)
(* The camera loop for every set of slots and places, every vote window    *)
(* and threshold and every bound: type correctness, the agreement of the   *)
(* tracker with the database, and the chain of history rows.               *)
(***************************************************************************)
EXTENDS CameraLoopInvariant, VoteRuleProofs

-----------------------------------------------------------------------------
(* Values *)

\* One verdict turns a filter into a filter.
LEMMA UpdateType ==
  ASSUME NEW f \in Filters, Len(f.votes) <= Window, NEW occupied \in BOOLEAN
  PROVE  /\ Update(f, occupied) \in Filters
         /\ Len(Update(f, occupied).votes) <= Window
<1>1. f.votes \in Seq(BOOLEAN) /\ f.state \in SlotStates
  BY DEF Filters
<1>2. /\ Remember(f.votes, occupied) \in Seq(BOOLEAN)
      /\ Len(Remember(f.votes, occupied)) <= Window
  BY <1>1, RememberType, VoteConfig
<1>3. Verdict(Remember(f.votes, occupied), f.state) \in SlotStates
  BY <1>1 DEF Verdict, SlotStates
<1> QED
  BY <1>2, <1>3 DEF Update, Filters

\* The values the variables start from, and return to after a failure, have their types.
LEMMA StartingValues ==
  /\ EmptyFilter \in Filters /\ Len(EmptyFilter.votes) <= Window
  /\ NoContext.map \in Maps
  /\ NoContext \in [map : Maps, ver : -1..MaxEdits, filter : [Slots -> Filters],
                    known : [Slots -> SlotStates], answered : BOOLEAN, settled : BOOLEAN,
                    reference : Images]
  /\ \A s \in Slots : Len(NoContext.filter[s].votes) <= Window
  /\ NothingBuilt \in [map : Maps, ver : -1..MaxEdits, seed : [Slots -> SlotStates],
                       torn : SUBSET Slots]
  /\ NoTask \in [phase : Phases, gen : Nat, image : Images, changes : SUBSET SlotChanges,
                 ver : -1..MaxEdits]
  /\ NewScheduler \in [gen : Nat, tooSoon : BOOLEAN, heartbeatDue : BOOLEAN]
<1>1. EmptyFilter \in Filters /\ Len(EmptyFilter.votes) <= Window
  BY VoteConfig DEF VoteConfig, EmptyFilter, Filters, SlotStates
<1>2. [s \in Slots |-> NoPlace] \in Maps /\ [s \in Slots |-> "UNKNOWN"] \in [Slots -> SlotStates]
  BY DEF Maps, SlotStates
<1>3. NoVersion \in -1..MaxEdits /\ NoImage \in Images
  BY BoundsAreNat DEF BoundsAreNat, NoVersion, NoImage, Images
<1> QED
  BY <1>1, <1>2, <1>3 DEF NoContext, BuildFilter, NothingBuilt, NoTask, NewScheduler, Phases

-----------------------------------------------------------------------------
(* Type correctness, one step per action *)

LEMMA InitType == Init => TypeOK
<1> SUFFICES ASSUME Init PROVE TypeOK
  OBVIOUS
<1>1. /\ scene \in Scenes /\ moves \in [Places -> 0..MaxMoves]
      /\ misreads \in 0..MaxMisreads /\ failures \in 0..MaxFailures
      /\ requests \in Nat /\ reload \in BOOLEAN /\ torn \in SUBSET Slots
  <2>1. /\ scene \in Scenes /\ moves = [p \in Places |-> 0] /\ misreads = 0 /\ failures = 0
        /\ requests = 0 /\ reload = FALSE /\ torn = {}
    BY DEF Init
  <2>2. 0 \in 0..MaxMoves /\ 0 \in 0..MaxMisreads /\ 0 \in 0..MaxFailures
    BY BoundsAreNat DEF BoundsAreNat
  <2>3. moves \in [Places -> 0..MaxMoves]
    BY <2>1, <2>2
  <2> QED
    BY <2>1, <2>2, <2>3
<1>2. db \in [map : Maps, ver : 0..MaxEdits, current : [Slots -> SlotStates]]
  BY BoundsAreNat DEF BoundsAreNat, Init
<1>3. loop \in [pc : PCs, reloading : BOOLEAN, image : Images]
  BY DEF Init, PCs, Images
<1>4. built = NothingBuilt /\ ctx = NoContext /\ task = NoTask /\ sched = NewScheduler
  BY DEF Init
<1> QED
  BY <1>1, <1>2, <1>3, <1>4, StartingValues DEF TypeOK

LEMMA SceneType ==
  ASSUME TypeOK, NEW p \in Places, VehicleMoves(p)
  PROVE  TypeOK'
BY BoundsAreNat DEF BoundsAreNat, TypeOK, VehicleMoves, Scenes

LEMMA RestType == TypeOK /\ Rest => TypeOK'
<1>1. ASSUME TypeOK, SignalReload PROVE TypeOK'
  BY <1>1 DEF TypeOK, SignalReload
<1>2. ASSUME TypeOK, NEW map \in Maps, SaveMap(map) PROVE TypeOK'
  <2>1. db' \in [map : Maps, ver : 0..MaxEdits, current : [Slots -> SlotStates]]
    BY <1>2, BoundsAreNat DEF BoundsAreNat, TypeOK, SaveMap, SlotStates
  <2> QED
    BY <1>2, <2>1 DEF TypeOK, SaveMap
<1> QED
  BY <1>1, <1>2 DEF Rest

LEMMA BuildType == TypeOK /\ Build => TypeOK'
<1> SUFFICES ASSUME TypeOK, Build PROVE TypeOK'
  OBVIOUS
<1>1. CASE ReadMap
  <2>1. built' \in [map : Maps, ver : -1..MaxEdits, seed : [Slots -> SlotStates],
                    torn : SUBSET Slots]
    <3>1. built' = [NothingBuilt EXCEPT !.map = db.map, !.ver = db.ver]
      BY <1>1 DEF ReadMap
    <3>2. db.map \in Maps /\ db.ver \in -1..MaxEdits
      BY BoundsAreNat DEF BoundsAreNat, TypeOK
    <3> QED
      BY <3>1, <3>2, StartingValues
  <2>2. loop' \in [pc : PCs, reloading : BOOLEAN, image : Images]
    BY <1>1 DEF TypeOK, ReadMap, PCs
  <2> QED
    BY <1>1, <2>1, <2>2 DEF TypeOK, ReadMap
<1>2. CASE ReadStates
  <2>1. Pending \in SUBSET Slots
    BY DEF TypeOK, Pending, SlotChanges
  <2>2. built' \in [map : Maps, ver : -1..MaxEdits, seed : [Slots -> SlotStates],
                    torn : SUBSET Slots]
    BY <1>2, <2>1 DEF TypeOK, ReadStates
  <2>3. loop' \in [pc : PCs, reloading : BOOLEAN, image : Images]
    BY <1>2 DEF TypeOK, ReadStates, PCs
  <2> QED
    BY <1>2, <2>2, <2>3 DEF TypeOK, ReadStates
<1>3. CASE Install
  <2>1. /\ ctx' \in [map : Maps, ver : -1..MaxEdits, filter : [Slots -> Filters],
                     known : [Slots -> SlotStates], answered : BOOLEAN, settled : BOOLEAN,
                     reference : Images]
        /\ \A s \in Slots : Len(ctx'.filter[s].votes) <= Window
    BY <1>3, StartingValues DEF TypeOK, Install, FreshContext
  <2>2. sched' \in [gen : Nat, tooSoon : BOOLEAN, heartbeatDue : BOOLEAN]
    <3>1. sched' = IF loop.reloading THEN [sched EXCEPT !.gen = @ + 1] ELSE NewScheduler
      BY <1>3 DEF Install
    <3>2. sched \in [gen : Nat, tooSoon : BOOLEAN, heartbeatDue : BOOLEAN]
      BY DEF TypeOK
    <3>3. [sched EXCEPT !.gen = @ + 1] \in [gen : Nat, tooSoon : BOOLEAN, heartbeatDue : BOOLEAN]
      BY <3>2
    <3>4. NewScheduler \in [gen : Nat, tooSoon : BOOLEAN, heartbeatDue : BOOLEAN]
      BY StartingValues
    <3> QED
      BY <3>1, <3>3, <3>4
  <2>3. loop' \in [pc : PCs, reloading : BOOLEAN, image : Images]
    BY <1>3 DEF TypeOK, Install, PCs
  <2> QED
    BY <1>3, <2>1, <2>2, <2>3, StartingValues DEF TypeOK, Install
<1> QED
  BY <1>1, <1>2, <1>3 DEF Build

LEMMA TickType == TypeOK /\ Tick => TypeOK'
<1> SUFFICES ASSUME TypeOK, Tick PROVE TypeOK'
  OBVIOUS
<1>1. CASE TakeReload
  BY <1>1 DEF TypeOK, TakeReload, PCs
<1>2. CASE StartRead
  BY <1>2 DEF TypeOK, StartRead, PCs
<1>3. CASE NoNewFrame
  BY <1>3 DEF TypeOK, NoNewFrame, PCs
<1>4. CASE NewFrame
  BY <1>4 DEF TypeOK, NewFrame, PCs, Images
<1>5. CASE JudgeFrame
  <2>1. task' \in [phase : Phases, gen : Nat, image : Images, changes : SUBSET SlotChanges,
                   ver : -1..MaxEdits]
    BY <1>5, StartingValues DEF TypeOK, JudgeFrame, Phases
  <2>2. loop' \in [pc : PCs, reloading : BOOLEAN, image : Images]
    BY <1>5 DEF TypeOK, JudgeFrame, PCs, Images, NoImage
  <2> QED
    BY <1>5, <2>1, <2>2 DEF TypeOK, JudgeFrame
<1> QED
  BY <1>1, <1>2, <1>3, <1>4, <1>5 DEF Tick

LEMMA ClockType == TypeOK /\ Clock => TypeOK'
BY DEF TypeOK, Clock, FloorPasses, HeartbeatFallsDue

LEMMA ApplyType ==
  ASSUME TypeOK, NEW occupied, Apply(occupied), task.phase = "detecting",
         UNCHANGED <<scene, moves, db, requests, reload, loop, torn, failures>>,
         misreads' \in 0..MaxMisreads
  PROVE  TypeOK'
<1> DEFINE filter == [s \in Slots |-> IF s \in Drawn(ctx.map)
                                      THEN Update(ctx.filter[s], s \in occupied)
                                      ELSE ctx.filter[s]]
           changes == Changes(ctx.known, filter)
<1>1. /\ filter \in [Slots -> Filters]
      /\ \A s \in Slots : Len(filter[s].votes) <= Window
  <2>1. \A s \in Slots : /\ Update(ctx.filter[s], s \in occupied) \in Filters
                         /\ Len(Update(ctx.filter[s], s \in occupied).votes) <= Window
    <3> SUFFICES ASSUME NEW s \in Slots
                 PROVE  /\ Update(ctx.filter[s], s \in occupied) \in Filters
                        /\ Len(Update(ctx.filter[s], s \in occupied).votes) <= Window
      OBVIOUS
    <3>1. ctx.filter[s] \in Filters /\ Len(ctx.filter[s].votes) <= Window
      BY DEF TypeOK
    <3>2. (s \in occupied) \in BOOLEAN
      OBVIOUS
    <3> QED
      BY <3>1, <3>2, UpdateType
  <2> QED
    BY <2>1 DEF TypeOK
<1>2. \A s \in Slots : ctx.known[s] \in SlotStates /\ filter[s].state \in SlotStates
  BY <1>1 DEF TypeOK, Filters
<1>3. changes \in SUBSET SlotChanges
  <2>1. \A s \in Drawn(ctx.map) : filter[s].state \notin {"UNKNOWN", ctx.known[s]} =>
          [slot |-> s, previous |-> ctx.known[s], new |-> filter[s].state] \in SlotChanges
    <3> SUFFICES ASSUME NEW s \in Slots, filter[s].state # "UNKNOWN"
                 PROVE  [slot |-> s, previous |-> ctx.known[s], new |-> filter[s].state]
                          \in SlotChanges
      BY DEF Drawn
    <3>1. filter[s].state \in Resolved /\ ctx.known[s] \in SlotStates
      BY <1>2 DEF SlotStates, Resolved
    <3> QED
      BY <3>1 DEF SlotChanges
  <2> QED
    BY <2>1 DEF Changes
<1>4. KnownAfter(ctx.known, filter) \in [Slots -> SlotStates]
  BY <1>2 DEF KnownAfter
<1>5. ctx' = [ctx EXCEPT !.filter = filter,
                         !.known = KnownAfter(ctx.known, filter),
                         !.answered = Drawn(ctx.map) # {},
                         !.settled = Agrees(occupied, filter),
                         !.reference = task.image]
  BY DEF Apply, Filtered
<1>6. Agrees(occupied, filter) \in BOOLEAN /\ (Drawn(ctx.map) # {}) \in BOOLEAN
  BY DEF Agrees
<1>7. /\ ctx' \in [map : Maps, ver : -1..MaxEdits, filter : [Slots -> Filters],
                   known : [Slots -> SlotStates], answered : BOOLEAN, settled : BOOLEAN,
                   reference : Images]
      /\ \A s \in Slots : Len(ctx'.filter[s].votes) <= Window
  BY <1>1, <1>4, <1>5, <1>6 DEF TypeOK
<1>8. task' \in [phase : Phases, gen : Nat, image : Images, changes : SUBSET SlotChanges,
                 ver : -1..MaxEdits]
  <2>1. task' = IF changes = {} THEN NoTask
                ELSE [task EXCEPT !.phase = "writing", !.changes = changes, !.ver = ctx.ver]
    BY DEF Apply, Filtered
  <2> QED
    BY <1>3, <2>1, StartingValues DEF TypeOK, Phases
<1>9. built' \in [map : Maps, ver : -1..MaxEdits, seed : [Slots -> SlotStates],
                  torn : SUBSET Slots]
  <2>1. {c.slot : c \in changes} \in SUBSET Slots
    BY <1>3 DEF SlotChanges
  <2>2. built' = IF loop.pc = "install"
                 THEN [built EXCEPT !.torn = @ \cup {c.slot : c \in changes}] ELSE built
    BY DEF Apply, Filtered
  <2> QED
    BY <2>1, <2>2 DEF TypeOK
<1>10. sched' \in [gen : Nat, tooSoon : BOOLEAN, heartbeatDue : BOOLEAN]
  BY DEF TypeOK, Apply, Filtered
<1> QED
  BY <1>7, <1>8, <1>9, <1>10 DEF TypeOK

LEMMA DetectionType == TypeOK /\ Detection => TypeOK'
<1> SUFFICES ASSUME TypeOK, Detection PROVE TypeOK'
  OBVIOUS
<1>1. CASE Discard
  BY <1>1, StartingValues DEF TypeOK, Discard
<1>2. CASE Score
  <2>1. misreads' \in 0..MaxMisreads
    <3>1. misreads' = misreads \/ (misreads < MaxMisreads /\ misreads' = misreads + 1)
      BY <1>2 DEF Score
    <3>2. misreads \in 0..MaxMisreads
      BY DEF TypeOK
    <3> QED
      BY <3>1, <3>2, BoundsAreNat DEF BoundsAreNat
  <2> QED
    BY <1>2, <2>1, ApplyType DEF Score
<1>3. CASE DetectionFails
  BY <1>3, StartingValues, BoundsAreNat, SMTT(30) DEF BoundsAreNat, TypeOK, DetectionFails
<1>4. CASE CommitChanges
  <2>1. \A c \in task.changes : c.new \in SlotStates
    BY DEF TypeOK, SlotChanges, Resolved, SlotStates
  <2>2. \A s \in Slots : (\E c \in task.changes : c.slot = s /\ Written(c)) =>
          (CHOOSE c \in task.changes : c.slot = s).new \in SlotStates
    BY <2>1
  <2>3. db' \in [map : Maps, ver : 0..MaxEdits, current : [Slots -> SlotStates]]
    BY <1>4, <2>2 DEF TypeOK, CommitChanges
  <2>4. task' \in [phase : Phases, gen : Nat, image : Images, changes : SUBSET SlotChanges,
                   ver : -1..MaxEdits]
    BY <1>4, StartingValues DEF TypeOK, CommitChanges, Phases
  <2>5. torn' \in SUBSET Slots
    BY <1>4 DEF TypeOK, CommitChanges
  <2> QED
    BY <1>4, <2>3, <2>4, <2>5 DEF TypeOK, CommitChanges
<1>5. CASE WriteFails
  <2>1. Pending \in SUBSET Slots
    BY DEF TypeOK, Pending, SlotChanges
  <2> QED
    BY <1>5, <2>1, StartingValues, BoundsAreNat, SMTT(30) DEF BoundsAreNat, TypeOK, WriteFails
<1>6. CASE PlatesRead
  BY <1>6, StartingValues DEF TypeOK, PlatesRead
<1> QED
  BY <1>1, <1>2, <1>3, <1>4, <1>5, <1>6 DEF Detection

LEMMA FailureType == TypeOK /\ Failure => TypeOK'
<1> SUFFICES ASSUME TypeOK, Failure PROVE TypeOK'
  OBVIOUS
<1>1. CASE LoopCrashes
  BY <1>1, StartingValues, BoundsAreNat, SMTT(30)
  DEF BoundsAreNat, TypeOK, LoopCrashes, PCs, Images, NoImage
<1>2. CASE Drained
  BY <1>2, StartingValues DEF TypeOK, Drained, PCs
<1>3. CASE BuildAgain
  BY <1>3 DEF TypeOK, BuildAgain, PCs
<1>4. CASE ProcessRestarts
  <2>1. loop' \in [pc : PCs, reloading : BOOLEAN, image : Images]
    BY <1>4 DEF ProcessRestarts, PCs, Images
  <2>2. failures' \in 0..MaxFailures
    BY <1>4, BoundsAreNat DEF BoundsAreNat, TypeOK, ProcessRestarts
  <2>3. /\ built' = NothingBuilt /\ ctx' = NoContext /\ task' = NoTask /\ sched' = NewScheduler
        /\ requests' = 0 /\ reload' = FALSE /\ torn' = {}
        /\ UNCHANGED <<scene, moves, db, misreads>>
    BY <1>4 DEF ProcessRestarts
  <2> QED
    BY <2>1, <2>2, <2>3, StartingValues DEF TypeOK
<1> QED
  BY <1>1, <1>2, <1>3, <1>4 DEF Failure

LEMMA NextType == TypeOK /\ [Next]_vars => TypeOK'
<1> SUFFICES ASSUME TypeOK, [Next]_vars PROVE TypeOK'
  OBVIOUS
<1>1. CASE UNCHANGED vars
  BY <1>1 DEF TypeOK, vars
<1> QED
  BY <1>1, SceneType, RestType, BuildType, TickType, ClockType, DetectionType, FailureType
  DEF Next

\* Every variable of the camera loop keeps its type: no vote deque outgrows the window,
\* no change is recorded with a state other than FREE or OCCUPIED.
THEOREM TypeCorrect == Spec => []TypeOK
BY InitType, NextType, PTL DEF Spec

-----------------------------------------------------------------------------
(* Where a slot settles *)

\* A slot with a change under way settles at the change.
LEMMA SettlesWritten ==
  ASSUME NEW t, NEW d, NEW c \in t.changes, t.phase = "writing",
         \A e, f \in t.changes : e.slot = f.slot => e = f
  PROVE  SettlesAt(t, d, c.slot) = c.new
<1>1. \E e \in t.changes : t.phase = "writing" /\ e.slot = c.slot
  OBVIOUS
<1>2. (CHOOSE e \in t.changes : e.slot = c.slot) = c
  OBVIOUS
<1> QED
  BY <1>1, <1>2 DEF SettlesAt

\* Every other slot settles where its row is.
LEMMA SettlesRow ==
  ASSUME NEW t, NEW d, NEW s, \A c \in t.changes : t.phase = "writing" => c.slot # s
  PROVE  SettlesAt(t, d, s) = d.current[s]
BY DEF SettlesAt

\* A task that does not write leaves every slot where its row is.
LEMMA SettlesWithoutWrite ==
  ASSUME NEW t, NEW d, NEW s, t.phase # "writing"
  PROVE  SettlesAt(t, d, s) = d.current[s]
BY DEF SettlesAt

-----------------------------------------------------------------------------
(* The invariant, one lemma per kind of step *)

\* Steps that touch neither the rows nor the context nor the detection.
LEMMA QuietStep ==
  ASSUME IInv, TypeOK', DetectionsAreBounded',
         UNCHANGED <<db, built, ctx, task, torn>>, sched'.gen = sched.gen,
         loop'.pc \in {"read_states", "install"} => loop'.pc = loop.pc
  PROVE  IInv'
<1>1. OneChangePerSlot' /\ VersionsOfMaps'
  BY DEF IInv, OneChangePerSlot, VersionsOfMaps
<1>2. \A s \in Slots : Settling(s)' = Settling(s)
  BY DEF Settling
<1>3. SeedAgrees'
  BY <1>2 DEF IInv, SeedAgrees, Pending, Drawn
<1>4. TrackerIsAhead' /\ ChangesStartFromRows'
  BY DEF IInv, TrackerIsAhead, ChangesStartFromRows
<1>5. TrackerAgrees'
  BY <1>2 DEF IInv, TrackerAgrees, Drawn
<1> QED
  BY <1>1, <1>3, <1>4, <1>5 DEF IInv

\* Steps that end the detection without a change.
LEMMA TaskEnds ==
  ASSUME IInv, TypeOK', task.phase # "writing", task' = NoTask,
         UNCHANGED <<db, built, ctx, torn, sched, loop>>
  PROVE  IInv'
<1>1. /\ task'.phase = "none" /\ task'.changes = {}
  BY DEF NoTask
<1>2. OneChangePerSlot' /\ VersionsOfMaps' /\ DetectionsAreBounded'
  BY <1>1 DEF IInv, OneChangePerSlot, VersionsOfMaps, DetectionsAreBounded, Busy
<1>3. \A s \in Slots : Settling(s)' = Settling(s)
  BY <1>1, SettlesWithoutWrite DEF Settling
<1>4. Pending' = {}
  BY <1>1 DEF Pending
<1>5. SeedAgrees'
  BY <1>3, <1>4 DEF IInv, SeedAgrees, Drawn
<1>6. TrackerIsAhead' /\ ChangesStartFromRows'
  BY <1>1 DEF TrackerIsAhead, ChangesStartFromRows
<1>7. TrackerAgrees'
  BY <1>3 DEF IInv, TrackerAgrees, Drawn
<1> QED
  BY <1>2, <1>5, <1>6, <1>7 DEF IInv

\* A saved map leaves every context outdated.
LEMMA SaveMapStep ==
  ASSUME IInv, TypeOK', NEW map \in Maps, SaveMap(map)
  PROVE  IInv'
<1>1. /\ db'.ver = db.ver + 1 /\ db.ver \in Nat
      /\ UNCHANGED <<loop, built, ctx, task, sched, torn>>
  BY BoundsAreNat DEF BoundsAreNat, SaveMap, IInv, TypeOK
<1>2. /\ ctx.ver \in Int /\ built.ver \in Int /\ ctx.ver <= db.ver /\ built.ver <= db.ver
  BY DEF IInv, TypeOK, VersionsOfMaps
<1>3. ctx'.ver < db'.ver /\ built'.ver < db'.ver
  BY <1>1, <1>2
<1>4. VersionsOfMaps' /\ TrackerAgrees' /\ ChangesStartFromRows'
  BY <1>1, <1>2, <1>3 DEF VersionsOfMaps, TrackerAgrees, ChangesStartFromRows
<1>5. OneChangePerSlot' /\ DetectionsAreBounded' /\ TrackerIsAhead'
  BY <1>1 DEF IInv, OneChangePerSlot, DetectionsAreBounded, TrackerIsAhead, Busy
<1>6. SeedAgrees'
  BY <1>1, <1>2, <1>3 DEF IInv, SeedAgrees, Pending
<1> QED
  BY <1>4, <1>5, <1>6 DEF IInv

LEMMA ReadMapStep ==
  ASSUME IInv, TypeOK', ReadMap
  PROVE  IInv'
<1>1. /\ loop.pc = "read_map" /\ loop'.pc = "read_states" /\ loop'.reloading = loop.reloading
      /\ built'.map = db.map /\ built'.ver = db.ver
      /\ UNCHANGED <<db, ctx, task, sched, torn>>
  BY DEF ReadMap, IInv, TypeOK, NothingBuilt
<1>2. OneChangePerSlot' /\ DetectionsAreBounded' /\ TrackerIsAhead' /\ ChangesStartFromRows'
  BY <1>1 DEF IInv, OneChangePerSlot, DetectionsAreBounded, TrackerIsAhead,
              ChangesStartFromRows, Busy
<1>3. VersionsOfMaps'
  BY <1>1, BoundsAreNat DEF BoundsAreNat, IInv, TypeOK, VersionsOfMaps
<1>4. \A s \in Slots : Settling(s)' = Settling(s)
  BY <1>1 DEF Settling
<1>5. SeedAgrees' /\ TrackerAgrees'
  BY <1>1, <1>4 DEF IInv, SeedAgrees, TrackerAgrees, Drawn
<1> QED
  BY <1>2, <1>3, <1>5 DEF IInv

LEMMA ReadStatesStep ==
  ASSUME IInv, TypeOK', ReadStates
  PROVE  IInv'
<1>1. /\ loop.pc = "read_states" /\ loop'.pc = "install" /\ loop'.reloading = loop.reloading
      /\ built'.map = built.map /\ built'.ver = built.ver /\ built'.torn = Pending
      /\ \A s \in Slots : built'.seed[s] = db.current[s]
      /\ UNCHANGED <<db, ctx, task, sched, torn>>
  BY DEF ReadStates, IInv, TypeOK
<1>2. OneChangePerSlot' /\ DetectionsAreBounded' /\ TrackerIsAhead' /\ ChangesStartFromRows'
  BY <1>1 DEF IInv, OneChangePerSlot, DetectionsAreBounded, TrackerIsAhead,
              ChangesStartFromRows, Busy
<1>3. VersionsOfMaps'
  BY <1>1 DEF IInv, VersionsOfMaps
<1>4. \A s \in Slots : Settling(s)' = Settling(s)
  BY <1>1 DEF Settling
<1>5. TrackerAgrees'
  BY <1>1, <1>4 DEF IInv, TrackerAgrees, Drawn
<1>6. Pending' = Pending
  BY <1>1 DEF Pending
<1>7. \A s \in Slots \ Pending : Settling(s) = db.current[s]
  BY SettlesRow DEF Settling, Pending
<1>8. SeedAgrees'
  BY <1>1, <1>4, <1>6, <1>7 DEF SeedAgrees, Drawn
<1> QED
  BY <1>2, <1>3, <1>5, <1>8 DEF IInv

\* A new context starts from the states read; the write of an older one is not its own.
LEMMA InstallStep ==
  ASSUME IInv, TypeOK', Install
  PROVE  IInv'
<1>1. /\ loop.pc = "install" /\ loop'.pc = "top"
      /\ ctx'.map = built.map /\ ctx'.ver = built.ver /\ ctx'.known = built.seed
      /\ built'.ver = -1 /\ torn' = built.torn
      /\ UNCHANGED <<db, task>>
  BY DEF Install, IInv, TypeOK, FreshContext, NoContext, BuildFilter, NothingBuilt, NoVersion
<1>2. OneChangePerSlot'
  BY <1>1 DEF IInv, OneChangePerSlot
<1>3. VersionsOfMaps'
  BY <1>1, BoundsAreNat DEF BoundsAreNat, IInv, TypeOK, VersionsOfMaps
<1>4. Busy => task.gen < sched'.gen
  <2>1. Busy => loop.reloading /\ task.gen <= sched.gen
    BY <1>1 DEF IInv, DetectionsAreBounded
  <2>2. loop.reloading => sched'.gen = sched.gen + 1
    BY DEF Install, IInv, TypeOK
  <2>3. task.gen \in Nat /\ sched.gen \in Nat
    BY DEF IInv, TypeOK
  <2> QED
    BY <2>1, <2>2, <2>3
<1>5. task.gen \in Nat /\ sched'.gen \in Nat
  BY DEF IInv, TypeOK
<1>6. DetectionsAreBounded' /\ TrackerIsAhead' /\ ChangesStartFromRows'
  BY <1>1, <1>4, <1>5
  DEF DetectionsAreBounded, TrackerIsAhead, ChangesStartFromRows, Busy
<1>7. \A s \in Slots : Settling(s)' = Settling(s)
  BY <1>1 DEF Settling
<1>8. SeedAgrees' /\ TrackerAgrees'
  BY <1>1, <1>7 DEF IInv, SeedAgrees, TrackerAgrees, Drawn
<1> QED
  BY <1>2, <1>3, <1>6, <1>8 DEF IInv

LEMMA JudgeFrameStep ==
  ASSUME IInv, TypeOK', JudgeFrame
  PROVE  IInv'
<1>1. /\ loop.pc = "frame" /\ loop'.pc = "top"
      /\ UNCHANGED <<db, built, ctx, sched, torn>>
  BY DEF JudgeFrame, IInv, TypeOK
<1>2. CASE task' = task
  <2>1. DetectionsAreBounded'
    BY <1>1, <1>2 DEF IInv, DetectionsAreBounded, Busy
  <2> QED
    BY <1>1, <1>2, <2>1, QuietStep
<1>3. CASE task' # task
  <2>1. /\ task.phase = "none" /\ task'.phase = "detecting" /\ task'.changes = {}
        /\ task'.gen = sched.gen
    BY <1>3 DEF JudgeFrame, Busy, NoTask
  <2>2. OneChangePerSlot' /\ VersionsOfMaps' /\ TrackerIsAhead' /\ ChangesStartFromRows'
    BY <1>1, <2>1 DEF IInv, OneChangePerSlot, VersionsOfMaps, TrackerIsAhead,
                      ChangesStartFromRows
  <2>3. DetectionsAreBounded'
    BY <1>1, <2>1 DEF IInv, TypeOK, DetectionsAreBounded, Busy
  <2>4. \A s \in Slots : Settling(s)' = Settling(s)
    BY <1>1, <2>1, SettlesWithoutWrite DEF Settling
  <2>5. SeedAgrees' /\ TrackerAgrees'
    BY <1>1, <2>4 DEF IInv, SeedAgrees, TrackerAgrees, Drawn
  <2> QED
    BY <2>2, <2>3, <2>5 DEF IInv
<1> QED
  BY <1>2, <1>3

\* Scoring: what the tracker remembers and what is queued to be written are the same
\* changes, and the tracker started from the rows.
LEMMA ScoreStep ==
  ASSUME IInv, TypeOK', NEW occupied, Apply(occupied),
         task.phase = "detecting", task.gen = sched.gen,
         UNCHANGED <<db, loop, torn>>
  PROVE  IInv'
<1> DEFINE filter == [s \in Slots |-> IF s \in Drawn(ctx.map)
                                      THEN Update(ctx.filter[s], s \in occupied)
                                      ELSE ctx.filter[s]]
           changes == Changes(ctx.known, filter)
<1>1. /\ ctx'.map = ctx.map /\ ctx'.ver = ctx.ver
      /\ ctx'.known = KnownAfter(ctx.known, filter)
  BY DEF Apply, Filtered, IInv, TypeOK
<1>2. /\ sched'.gen = sched.gen
      /\ task' = IF changes = {} THEN NoTask
                 ELSE [task EXCEPT !.phase = "writing", !.changes = changes, !.ver = ctx.ver]
      /\ built' = IF loop.pc = "install"
                  THEN [built EXCEPT !.torn = @ \cup {c.slot : c \in changes}] ELSE built
  BY DEF Apply, Filtered, IInv, TypeOK
<1>3. /\ task'.changes = changes
      /\ task'.phase = IF changes = {} THEN "none" ELSE "writing"
      /\ task'.gen = IF changes = {} THEN 0 ELSE task.gen
  BY <1>2 DEF NoTask, IInv, TypeOK
<1>4. /\ built'.map = built.map /\ built'.ver = built.ver /\ built'.seed = built.seed
      /\ built.torn \subseteq built'.torn
      /\ loop.pc = "install" => {c.slot : c \in changes} \subseteq built'.torn
  BY <1>2 DEF IInv, TypeOK
<1>5. \A c \in changes : /\ c.slot \in Drawn(ctx.map)
                         /\ c.previous = ctx.known[c.slot]
                         /\ c.new = filter[c.slot].state
                         /\ c.new # "UNKNOWN" /\ c.new # c.previous
  BY DEF Changes
<1>6. \A s \in Drawn(ctx.map) :
        filter[s].state \in {"UNKNOWN", ctx.known[s]} \/ \E c \in changes : c.slot = s
  <2> SUFFICES ASSUME NEW s \in Drawn(ctx.map),
                      filter[s].state \notin {"UNKNOWN", ctx.known[s]}
               PROVE  \E c \in changes : c.slot = s
    OBVIOUS
  <2> HIDE DEF filter
  <2>1. [slot |-> s, previous |-> ctx.known[s], new |-> filter[s].state] \in changes
    BY DEF Changes
  <2> QED
    BY <2>1
<1>7. OneChangePerSlot'
  <2> HIDE DEF filter
  <2>1. \A c \in changes : c = [slot |-> c.slot, previous |-> ctx.known[c.slot],
                                new |-> filter[c.slot].state]
    BY DEF Changes
  <2>2. \A c, d \in changes : c.slot = d.slot => c = d
    BY <2>1
  <2> QED
    BY <1>3, <2>2 DEF OneChangePerSlot
<1>8. \A c \in changes : ctx'.known[c.slot] = c.new
  BY <1>1, <1>5 DEF KnownAfter, Drawn
<1>9. \A s \in Drawn(ctx.map) : (\A c \in changes : c.slot # s) => ctx'.known[s] = ctx.known[s]
  BY <1>1, <1>6 DEF KnownAfter, Drawn
<1>10. \A s \in Slots : Settling(s) = db.current[s]
  BY SettlesWithoutWrite DEF Settling
<1>11. \A c \in changes : Settling(c.slot)' = c.new
  <2> SUFFICES ASSUME NEW c \in changes PROVE SettlesAt(task', db', c.slot) = c.new
    BY DEF Settling
  <2>1. task'.phase = "writing" /\ c \in task'.changes
    BY <1>3
  <2>2. \A e, f \in task'.changes : e.slot = f.slot => e = f
    BY <1>7 DEF OneChangePerSlot
  <2> QED
    BY <2>1, <2>2, SettlesWritten
<1>12. \A s \in Slots : (\A c \in changes : c.slot # s) => Settling(s)' = db.current[s]
  BY <1>3, SettlesRow DEF Settling
<1>13. VersionsOfMaps'
  BY <1>1, <1>4 DEF IInv, VersionsOfMaps
<1>14. DetectionsAreBounded'
  BY <1>2, <1>3 DEF IInv, TypeOK, DetectionsAreBounded, Busy
<1>15. TrackerIsAhead'
  BY <1>3, <1>8 DEF TrackerIsAhead
<1>16. TrackerAgrees'
  <2> SUFFICES ASSUME ctx.ver = db.ver, NEW s \in Drawn(ctx.map), s \notin torn
               PROVE  ctx'.known[s] = Settling(s)'
    BY <1>1 DEF TrackerAgrees, Drawn
  <2>1. s \in Slots /\ ctx.known[s] = db.current[s]
    BY <1>10 DEF IInv, TrackerAgrees, Drawn
  <2>2. CASE \E c \in changes : c.slot = s
    BY <2>2, <1>8, <1>11
  <2>3. CASE \A c \in changes : c.slot # s
    BY <2>1, <2>3, <1>9, <1>12
  <2> QED
    BY <2>2, <2>3
<1>17. ChangesStartFromRows'
  <2> SUFFICES ASSUME ctx.ver = db.ver, NEW c \in changes, c.slot \notin torn
               PROVE  c.previous = db.current[c.slot] /\ c.new # c.previous
    BY <1>1, <1>3 DEF ChangesStartFromRows
  <2>1. c.slot \in Slots /\ ctx.known[c.slot] = db.current[c.slot]
    BY <1>5, <1>10 DEF IInv, TrackerAgrees, Drawn
  <2> QED
    BY <2>1, <1>5
<1>18. SeedAgrees'
  <2> SUFFICES ASSUME loop.pc = "install" PROVE SeedAgrees'
    BY DEF SeedAgrees
  <2>1. Pending' \subseteq built'.torn
    BY <1>3, <1>4 DEF Pending
  <2>2. ASSUME built.ver = db.ver, NEW s \in Drawn(built.map) \ built'.torn
        PROVE  built'.seed[s] = Settling(s)'
    <3>1. s \in Slots /\ built.seed[s] = db.current[s]
      BY <1>4, <1>10, <2>2 DEF IInv, SeedAgrees, Drawn
    <3>2. \A c \in changes : c.slot # s
      BY <1>4, <2>2
    <3> QED
      BY <1>4, <1>12, <3>1, <3>2
  <2> QED
    BY <1>4, <2>1, <2>2 DEF SeedAgrees, Drawn
<1> QED
  BY <1>7, <1>13, <1>14, <1>15, <1>16, <1>17, <1>18 DEF IInv

\* The write that commits takes every slot to where it was settling; one that the
\* current context asked for ends the separation of its slots.
LEMMA CommitStep ==
  ASSUME IInv, TypeOK', CommitChanges
  PROVE  IInv'
<1>1. /\ task.phase = "writing"
      /\ db'.map = db.map /\ db'.ver = db.ver
      /\ \A s \in Slots : db'.current[s] =
                           IF \E c \in task.changes : c.slot = s /\ Written(c)
                           THEN (CHOOSE c \in task.changes : c.slot = s).new
                           ELSE db.current[s]
      /\ torn' = IF task.gen = sched.gen THEN torn \ Pending ELSE torn
      /\ UNCHANGED <<loop, built, ctx, sched>>
  BY DEF CommitChanges, IInv, TypeOK
<1>2. task'.phase \in {"plates", "none"} /\ task'.changes = {}
  BY DEF CommitChanges, NoTask, IInv, TypeOK
<1>3. task'.phase # "none" => task'.gen = task.gen
  BY DEF CommitChanges, NoTask, IInv, TypeOK
<1>4. Pending' = {} /\ Pending = {c.slot : c \in task.changes}
  BY <1>1, <1>2 DEF Pending
<1>5. \A s \in Slots : Settling(s)' = db'.current[s]
  BY <1>2, SettlesWithoutWrite DEF Settling
<1>6. \A s \in Drawn(db.map) : db'.current[s] = Settling(s)
  <2> SUFFICES ASSUME NEW s \in Drawn(db.map) PROVE db'.current[s] = Settling(s)
    OBVIOUS
  <2>1. s \in Slots
    BY DEF Drawn
  <2>2. CASE \E c \in task.changes : c.slot = s
    BY <1>1, <2>1, <2>2 DEF Settling, SettlesAt, Written
  <2>3. CASE \A c \in task.changes : c.slot # s
    BY <1>1, <2>1, <2>3, SettlesRow DEF Settling
  <2> QED
    BY <2>2, <2>3
<1>7. OneChangePerSlot' /\ VersionsOfMaps' /\ TrackerIsAhead' /\ ChangesStartFromRows'
  BY <1>1, <1>2 DEF IInv, OneChangePerSlot, VersionsOfMaps, TrackerIsAhead,
                    ChangesStartFromRows
<1>8. DetectionsAreBounded'
  BY <1>1, <1>2, <1>3 DEF IInv, DetectionsAreBounded, Busy
<1>9. SeedAgrees'
  <2> SUFFICES ASSUME loop.pc = "install" PROVE SeedAgrees'
    BY <1>1 DEF SeedAgrees
  <2>1. built.ver = db.ver => built.map = db.map
    BY DEF IInv, VersionsOfMaps
  <2> QED
    BY <1>1, <1>4, <1>5, <1>6, <2>1 DEF IInv, SeedAgrees, Drawn
<1>10. TrackerAgrees'
  <2> SUFFICES ASSUME ctx.ver = db.ver, NEW s \in Drawn(ctx.map), s \notin torn'
               PROVE  ctx.known[s] = Settling(s)'
    BY <1>1 DEF TrackerAgrees
  <2>1. s \in Slots /\ s \in Drawn(db.map) /\ Settling(s)' = Settling(s)
    BY <1>5, <1>6 DEF IInv, VersionsOfMaps, Drawn
  <2>2. CASE s \notin torn
    BY <2>1, <2>2 DEF IInv, TrackerAgrees
  <2>3. CASE s \in torn
    <3>1. task.gen = sched.gen /\ s \in Pending
      BY <1>1, <2>3
    <3>2. PICK c \in task.changes : c.slot = s
      BY <1>4, <3>1
    <3>3. Settling(s) = c.new
      BY <1>1, <3>2, SettlesWritten DEF IInv, OneChangePerSlot, Settling
    <3>4. ctx.known[s] = c.new
      BY <1>1, <3>1, <3>2 DEF IInv, TrackerIsAhead
    <3> QED
      BY <2>1, <3>3, <3>4
  <2> QED
    BY <2>2, <2>3
<1> QED
  BY <1>7, <1>8, <1>9, <1>10 DEF IInv

\* A write that fails leaves the rows where they are and its slots torn.
LEMMA WriteFailsStep ==
  ASSUME IInv, TypeOK', WriteFails
  PROVE  IInv'
<1>1. /\ task.phase = "writing" /\ task' = NoTask /\ torn' = torn \cup Pending
      /\ UNCHANGED <<db, loop, built, ctx, sched>>
  BY DEF WriteFails
<1>2. task'.phase = "none" /\ task'.changes = {} /\ Pending' = {}
  BY <1>1 DEF NoTask, Pending
<1>3. \A s \in Slots : s \notin Pending => Settling(s)' = Settling(s)
  BY <1>1, <1>2, SettlesRow DEF Settling, Pending
<1>4. OneChangePerSlot' /\ VersionsOfMaps' /\ TrackerIsAhead' /\ ChangesStartFromRows'
  BY <1>1, <1>2 DEF IInv, OneChangePerSlot, VersionsOfMaps, TrackerIsAhead,
                    ChangesStartFromRows
<1>5. DetectionsAreBounded'
  BY <1>1, <1>2 DEF IInv, DetectionsAreBounded, Busy
<1>6. SeedAgrees' /\ TrackerAgrees'
  BY <1>1, <1>2, <1>3 DEF IInv, SeedAgrees, TrackerAgrees, Drawn
<1> QED
  BY <1>4, <1>5, <1>6 DEF IInv

LEMMA LoopCrashesStep ==
  ASSUME IInv, TypeOK', LoopCrashes
  PROVE  IInv'
<1>1. /\ loop'.pc = "drain" /\ loop'.reloading = FALSE /\ built'.ver = -1
      /\ UNCHANGED <<db, ctx, task, sched, torn>>
  BY DEF LoopCrashes, NothingBuilt, NoVersion
<1>2. \A s \in Slots : Settling(s)' = Settling(s)
  BY <1>1 DEF Settling
<1>3. OneChangePerSlot' /\ TrackerIsAhead' /\ ChangesStartFromRows'
  BY <1>1 DEF IInv, OneChangePerSlot, TrackerIsAhead, ChangesStartFromRows
<1>4. VersionsOfMaps'
  BY <1>1, BoundsAreNat DEF BoundsAreNat, IInv, TypeOK, VersionsOfMaps
<1>5. DetectionsAreBounded' /\ SeedAgrees' /\ TrackerAgrees'
  BY <1>1, <1>2 DEF IInv, DetectionsAreBounded, SeedAgrees, TrackerAgrees, Busy, Drawn
<1> QED
  BY <1>3, <1>4, <1>5 DEF IInv

LEMMA DrainedStep ==
  ASSUME IInv, TypeOK', Drained
  PROVE  IInv'
<1>1. /\ task.phase = "none" /\ loop.pc = "drain" /\ loop'.pc = "backoff"
      /\ loop'.reloading = loop.reloading /\ ctx'.ver = -1
      /\ UNCHANGED <<db, built, task, sched, torn>>
  BY DEF Drained, Busy, NoContext, BuildFilter, NoVersion, IInv, TypeOK
<1>2. db.ver \in Nat
  BY BoundsAreNat DEF BoundsAreNat, IInv, TypeOK
<1>3. /\ OneChangePerSlot' /\ VersionsOfMaps' /\ DetectionsAreBounded' /\ SeedAgrees'
      /\ TrackerIsAhead' /\ ChangesStartFromRows' /\ TrackerAgrees'
  BY <1>1, <1>2 DEF IInv, OneChangePerSlot, VersionsOfMaps, DetectionsAreBounded, SeedAgrees,
                    TrackerIsAhead, ChangesStartFromRows, TrackerAgrees, Busy
<1> QED
  BY <1>3 DEF IInv

\* Init and a restart of the process leave nothing but the rows.
LEMMA NothingButRows ==
  ASSUME TypeOK, loop.pc = "read_map", loop.reloading = FALSE, built = NothingBuilt,
         ctx = NoContext, task = NoTask
  PROVE  IInv
<1>1. /\ ctx.ver = -1 /\ built.ver = -1 /\ task.phase = "none" /\ task.changes = {}
  BY DEF NoContext, BuildFilter, NothingBuilt, NoTask, NoVersion
<1>2. db.ver \in Nat
  BY BoundsAreNat DEF BoundsAreNat, TypeOK
<1>3. /\ OneChangePerSlot /\ VersionsOfMaps /\ DetectionsAreBounded /\ SeedAgrees
      /\ TrackerIsAhead /\ ChangesStartFromRows /\ TrackerAgrees
  BY <1>1, <1>2 DEF OneChangePerSlot, VersionsOfMaps, DetectionsAreBounded, SeedAgrees,
                    TrackerIsAhead, ChangesStartFromRows, TrackerAgrees, Busy
<1> QED
  BY <1>3 DEF IInv

LEMMA RestartStep ==
  ASSUME IInv, TypeOK', ProcessRestarts
  PROVE  IInv'
<1>1. /\ loop'.pc = "read_map" /\ loop'.reloading = FALSE /\ built'.ver = -1 /\ ctx'.ver = -1
      /\ task'.phase = "none" /\ task'.changes = {} /\ db'.ver \in Nat
  BY BoundsAreNat
  DEF BoundsAreNat, ProcessRestarts, NothingBuilt, NoContext, BuildFilter, NoTask, NoVersion, TypeOK
<1>2. /\ OneChangePerSlot' /\ VersionsOfMaps' /\ DetectionsAreBounded' /\ SeedAgrees'
      /\ TrackerIsAhead' /\ ChangesStartFromRows' /\ TrackerAgrees'
  BY <1>1 DEF OneChangePerSlot, VersionsOfMaps, DetectionsAreBounded, SeedAgrees,
              TrackerIsAhead, ChangesStartFromRows, TrackerAgrees, Busy
<1> QED
  BY <1>2 DEF IInv

-----------------------------------------------------------------------------
(* The theorems *)

LEMMA InitEstablishes == Init => IInv
<1> SUFFICES ASSUME Init PROVE IInv
  OBVIOUS
<1>1. /\ loop.pc = "read_map" /\ loop.reloading = FALSE /\ built = NothingBuilt
      /\ ctx = NoContext /\ task = NoTask
  BY DEF Init
<1> QED
  BY <1>1, InitType, NothingButRows

LEMMA NextPreserves == IInv /\ [Next]_vars => IInv'
<1> SUFFICES ASSUME IInv, [Next]_vars PROVE IInv'
  OBVIOUS
<1>1. TypeOK'
  BY NextType DEF IInv
<1>2. CASE UNCHANGED vars
  BY <1>1, <1>2, QuietStep DEF vars, IInv, DetectionsAreBounded, Busy
<1>3. CASE \E p \in Places : VehicleMoves(p)
  BY <1>1, <1>3, QuietStep DEF VehicleMoves, IInv, DetectionsAreBounded, Busy
<1>4. CASE Rest
  <2>1. CASE SignalReload
    BY <1>1, <2>1, QuietStep DEF SignalReload, IInv, DetectionsAreBounded, Busy
  <2> QED
    BY <1>1, <1>4, <2>1, SaveMapStep DEF Rest
<1>5. CASE Build
  BY <1>1, <1>5, ReadMapStep, ReadStatesStep, InstallStep DEF Build
<1>6. CASE Tick
  <2>1. CASE TakeReload
    <3>1. loop'.pc = "read_map" /\ loop'.reloading = TRUE
      BY <2>1 DEF TakeReload, IInv, TypeOK
    <3> QED
      BY <1>1, <2>1, <3>1, QuietStep DEF TakeReload, IInv, DetectionsAreBounded, Busy
  <2>2. CASE StartRead \/ NoNewFrame \/ NewFrame
    <3>1. loop'.pc \in {"top", "reading", "frame"} /\ loop'.reloading = loop.reloading
      BY <2>2 DEF StartRead, NoNewFrame, NewFrame, IInv, TypeOK
    <3> QED
      BY <1>1, <2>2, <3>1, QuietStep
      DEF StartRead, NoNewFrame, NewFrame, IInv, DetectionsAreBounded, Busy
  <2> QED
    BY <1>1, <1>6, <2>1, <2>2, JudgeFrameStep DEF Tick
<1>7. CASE Clock
  <2>1. sched'.gen = sched.gen
    BY <1>7 DEF Clock, FloorPasses, HeartbeatFallsDue, IInv, TypeOK
  <2> QED
    BY <1>1, <1>7, <2>1, QuietStep
    DEF Clock, FloorPasses, HeartbeatFallsDue, IInv, DetectionsAreBounded, Busy
<1>8. CASE Detection
  <2>1. CASE Discard \/ DetectionFails \/ PlatesRead
    BY <1>1, <2>1, TaskEnds DEF Discard, DetectionFails, PlatesRead
  <2>2. CASE Score
    BY <1>1, <2>2, ScoreStep DEF Score
  <2> QED
    BY <1>1, <1>8, <2>1, <2>2, CommitStep, WriteFailsStep DEF Detection
<1>9. CASE Failure
  <2>1. CASE BuildAgain
    <3>1. loop.pc = "backoff" /\ loop'.pc = "read_map" /\ loop'.reloading = loop.reloading
      BY <2>1 DEF BuildAgain, IInv, TypeOK
    <3> QED
      BY <1>1, <2>1, <3>1, QuietStep DEF BuildAgain, IInv, DetectionsAreBounded, Busy
  <2> QED
    BY <1>1, <1>9, <2>1, LoopCrashesStep, DrainedStep, RestartStep DEF Failure
<1> QED
  BY <1>2, <1>3, <1>4, <1>5, <1>6, <1>7, <1>8, <1>9 DEF Next

LEMMA Invariance == Spec => []IInv
BY InitEstablishes, NextPreserves, PTL DEF Spec

\* For every map, window, threshold and number of edits, misreads and failures: the
\* tracker of an up-to-date context and the database agree on every slot that neither
\* a rebuild racing a write nor a failed write has separated (StateTracker,
\* persist_state_changes, build_context).
THEOREM TrackerAgreement == Spec => []TrackerAgrees
<1>1. IInv => TrackerAgrees
  BY DEF IInv
<1> QED
  BY <1>1, Invariance, PTL

\* Under the same conditions every history row written starts from the state the row
\* before it ended in and ends in another one (persist_state_changes).
THEOREM HistoryChain == Spec => RowsChain
<1>1. IInv /\ [Next]_vars =>
        [ CommitChanges /\ task.gen = sched.gen /\ ctx.ver = db.ver =>
            \A c \in task.changes : c.slot \notin torn =>
              /\ c.previous = db.current[c.slot]
              /\ c.new # c.previous ]_vars
  BY DEF IInv, ChangesStartFromRows, CommitChanges
<1> QED
  BY <1>1, Invariance, PTL DEF Spec, RowsChain

-----------------------------------------------------------------------------
(* What is reported was seen *)

\* Steps that change neither the tick's picture, the detection nor a vote.
LEMMA QuietSceneStep ==
  ASSUME SeenInv, TypeOK',
         UNCHANGED <<scene, moves, misreads>>,
         ctx'.map = ctx.map /\ ctx'.filter = ctx.filter,
         loop'.pc = "frame" => loop'.pc = loop.pc /\ loop'.image = loop.image,
         task'.phase = "detecting" => task'.phase = task.phase /\ task'.image = task.image
  PROVE  SeenInv'
<1>1. PicturesShowTheScene'
  BY DEF SeenInv, PicturesShowTheScene
<1>2. WrongVotesAreMisreads' /\ ReportedStateWasSeen'
  BY DEF SeenInv, WrongVotesAreMisreads, ReportedStateWasSeen, Drawn
<1> QED
  BY <1>1, <1>2 DEF SeenInv

\* A context that has not voted has seen nothing wrong.
LEMMA EmptyFiltersStep ==
  ASSUME SeenInv, TypeOK', PicturesShowTheScene',
         \A s \in Slots : ctx'.filter[s] = EmptyFilter
  PROVE  SeenInv'
<1>1. OccupiedVotes(<< >>) = 0 /\ FreeVotes(<< >>) = 0
  <2> DEFINE none == << >>
  <2>1. none \in Seq(BOOLEAN) /\ Len(none) = 0
    OBVIOUS
  <2> HIDE DEF none
  <2>2. OccupiedVotes(none) \in 0..Len(none) /\ FreeVotes(none) \in 0..Len(none)
    BY <2>1, VoteCounts
  <2>3. OccupiedVotes(none) = 0 /\ FreeVotes(none) = 0
    BY <2>1, <2>2
  <2> QED
    BY <2>3 DEF none
<1>2. \A s \in Slots : ctx'.filter[s].votes = << >> /\ ctx'.filter[s].state = "UNKNOWN"
  BY DEF EmptyFilter
<1>3. misreads' >= 0
  BY DEF TypeOK
<1>4. WrongVotesAreMisreads'
  BY <1>1, <1>2, <1>3 DEF WrongVotesAreMisreads, VotesAgainst, Drawn
<1>5. ReportedStateWasSeen'
  BY <1>2 DEF ReportedStateWasSeen, Drawn
<1> QED
  BY <1>4, <1>5 DEF SeenInv

\* One slot's filter takes one verdict, a misread perhaps: Update keeps what the votes
\* against the scene may be, and the state with them.
LEMMA VerdictIsSeen ==
  ASSUME NEW f \in Filters, Len(f.votes) <= Window, NEW truth \in BOOLEAN,
         NEW occupied \in BOOLEAN, NEW n \in Nat, NEW m \in Nat, n <= m,
         occupied = truth \/ m = n + 1,
         VotesAgainst(truth, f.votes) <= n,
         n < Threshold => f.state \in {"UNKNOWN", IF truth THEN "OCCUPIED" ELSE "FREE"}
  PROVE  /\ VotesAgainst(truth, Update(f, occupied).votes) <= m
         /\ m < Threshold => Update(f, occupied).state
                               \in {"UNKNOWN", IF truth THEN "OCCUPIED" ELSE "FREE"}
<1> DEFINE votes == f.votes
           next == Remember(votes, occupied)
<1>1. votes \in Seq(BOOLEAN) /\ Len(votes) <= Window
  BY DEF Filters
<1>2. \A v \in Seq(BOOLEAN) : VotesAgainst(truth, v) = VotesFor(~truth, v)
  BY DEF VotesAgainst, VotesFor
<1>3. next \in Seq(BOOLEAN)
  BY <1>1, RememberType, VoteConfig
<1>4. /\ VotesFor(~truth, votes) \in Nat
      /\ VotesFor(~truth, next)
           <= VotesFor(~truth, votes) + (IF occupied <=> ~truth THEN 1 ELSE 0)
  BY <1>1, SidesGainFromTheirVotes, VoteConfig
<1>5. VotesFor(~truth, next) \in Nat
  BY <1>3, VoteCounts DEF VotesFor
<1>6. VotesAgainst(truth, next) <= m /\ VotesAgainst(truth, next) \in Nat
  BY <1>1, <1>2, <1>3, <1>4, <1>5
<1>7. Update(f, occupied).votes = next /\ Update(f, occupied).state = Verdict(next, f.state)
  BY DEF Update
<1>8. ASSUME m < Threshold
      PROVE  Verdict(next, f.state) \in {"UNKNOWN", IF truth THEN "OCCUPIED" ELSE "FREE"}
  <2>1. n < Threshold /\ Threshold \in Nat
    BY <1>8, VoteConfig DEF VoteConfig
  <2>2. CASE truth
    <3>1. FreeVotes(next) < Threshold /\ FreeVotes(next) \in Nat
      BY <1>6, <1>8, <2>1, <2>2 DEF VotesAgainst
    <3> QED
      BY <2>1, <2>2, <3>1 DEF Verdict
  <2>3. CASE ~truth
    <3>1. OccupiedVotes(next) < Threshold /\ OccupiedVotes(next) \in Nat
      BY <1>6, <1>8, <2>1, <2>3 DEF VotesAgainst
    <3> QED
      BY <2>1, <2>3, <3>1 DEF Verdict
  <2> QED
    BY <2>2, <2>3
<1> QED
  BY <1>6, <1>7, <1>8

LEMMA ScoreIsSeen ==
  ASSUME SeenInv, TypeOK', Score
  PROVE  SeenInv'
<1>1. /\ TypeOK /\ task.phase = "detecting" /\ UNCHANGED <<scene, moves, loop>>
      /\ ctx.map \in Maps /\ misreads \in Nat /\ misreads' \in Nat
  BY BoundsAreNat DEF SeenInv, TypeOK, Score, BoundsAreNat
<1>2. PICK occupied :
        /\ Apply(occupied)
        /\ \/ misreads' = misreads /\ occupied = SeenIn(task.image)
           \/ misreads' = misreads + 1
  BY DEF Score
<1>3. /\ ctx'.map = ctx.map /\ ctx'.filter = Filtered(occupied)
      /\ task'.phase # "detecting"
  BY <1>1, <1>2 DEF Apply, NoTask, TypeOK
<1>4. PicturesShowTheScene'
  BY <1>1, <1>3 DEF SeenInv, PicturesShowTheScene
<1>5. ASSUME NEW s \in Drawn(ctx.map), moves[ctx.map[s]] = 0
      PROVE  /\ VotesAgainst(scene[ctx.map[s]], ctx'.filter[s].votes) <= misreads'
             /\ misreads' < Threshold =>
                  ctx'.filter[s].state
                    \in {"UNKNOWN", IF scene[ctx.map[s]] THEN "OCCUPIED" ELSE "FREE"}
  <2> DEFINE p == ctx.map[s]
             f == ctx.filter[s]
             verdict == s \in occupied
  <2>1. s \in Slots /\ p \in Places /\ scene[p] \in BOOLEAN
    BY <1>1 DEF Drawn, Maps, TypeOK, Scenes
  <2>2. f \in Filters /\ Len(f.votes) <= Window
    BY <1>1, <2>1 DEF TypeOK
  <2>3. ctx'.filter[s] = Update(f, verdict)
    BY <1>3, <1>5, <2>1 DEF Filtered
  <2>4. (verdict <=> scene[p]) \/ misreads' = misreads + 1
    BY <1>1, <1>2, <1>5, <2>1 DEF SeenInv, PicturesShowTheScene, SeenIn
  <2>5. verdict \in BOOLEAN /\ (verdict = scene[p] \/ misreads' = misreads + 1)
    BY <2>1, <2>4
  <2>6. misreads <= misreads'
    BY <1>1, <1>2
  <2>7. /\ VotesAgainst(scene[p], f.votes) <= misreads
        /\ misreads < Threshold =>
             f.state \in {"UNKNOWN", IF scene[p] THEN "OCCUPIED" ELSE "FREE"}
    BY <1>5, <2>1 DEF SeenInv, WrongVotesAreMisreads, ReportedStateWasSeen
  <2> HIDE DEF p, f, verdict
  <2>8. /\ VotesAgainst(scene[p], Update(f, verdict).votes) <= misreads'
        /\ misreads' < Threshold =>
             Update(f, verdict).state \in {"UNKNOWN", IF scene[p] THEN "OCCUPIED" ELSE "FREE"}
    BY <1>1, <2>1, <2>2, <2>5, <2>6, <2>7, VerdictIsSeen
  <2> QED
    BY <2>3, <2>8 DEF p
<1>6. WrongVotesAreMisreads' /\ ReportedStateWasSeen'
  BY <1>1, <1>3, <1>5 DEF WrongVotesAreMisreads, ReportedStateWasSeen, Drawn
<1> QED
  BY <1>4, <1>6 DEF SeenInv

LEMMA SceneIsSeen ==
  ASSUME SeenInv, TypeOK', NEW p \in Places, VehicleMoves(p)
  PROVE  SeenInv'
<1>1. /\ moves \in [Places -> Nat] /\ scene \in Scenes /\ ctx.map \in Maps
      /\ scene' = [scene EXCEPT ![p] = ~@] /\ moves' = [moves EXCEPT ![p] = @ + 1]
      /\ UNCHANGED <<loop, ctx, task, misreads>>
  BY BoundsAreNat DEF SeenInv, TypeOK, VehicleMoves, BoundsAreNat
<1>2. \A q \in Places : moves'[q] = 0 => q # p /\ moves[q] = 0 /\ scene'[q] = scene[q]
  BY <1>1 DEF Scenes
<1>3. PicturesShowTheScene'
  BY <1>1, <1>2 DEF SeenInv, PicturesShowTheScene
<1>4. \A s \in Drawn(ctx.map) : ctx.map[s] \in Places
  BY <1>1 DEF Drawn, Maps
<1>5. WrongVotesAreMisreads' /\ ReportedStateWasSeen'
  BY <1>1, <1>2, <1>4 DEF SeenInv, WrongVotesAreMisreads, ReportedStateWasSeen
<1> QED
  BY <1>3, <1>5 DEF SeenInv

LEMMA BuildIsSeen ==
  ASSUME SeenInv, TypeOK', Build
  PROVE  SeenInv'
<1>1. CASE ReadMap \/ ReadStates
  <2>1. loop'.pc \in {"read_states", "install"}
    BY <1>1 DEF ReadMap, ReadStates, SeenInv, TypeOK
  <2> QED
    BY <1>1, <2>1, QuietSceneStep DEF ReadMap, ReadStates
<1>2. CASE Install
  <2>1. /\ ctx' = FreshContext(built) /\ loop'.pc = "top"
        /\ UNCHANGED <<scene, moves, task, misreads>>
    BY <1>2 DEF Install, SeenInv, TypeOK
  <2>2. \A s \in Slots : ctx'.filter[s] = EmptyFilter
    BY <2>1 DEF FreshContext, NoContext, BuildFilter
  <2>3. PicturesShowTheScene'
    BY <2>1 DEF SeenInv, PicturesShowTheScene
  <2> QED
    BY <2>2, <2>3, EmptyFiltersStep
<1> QED
  BY <1>1, <1>2 DEF Build

LEMMA TickIsSeen ==
  ASSUME SeenInv, TypeOK', Tick
  PROVE  SeenInv'
<1>1. CASE TakeReload \/ StartRead \/ NoNewFrame
  <2>1. loop'.pc \in {"read_map", "reading", "top"}
    BY <1>1, ZenonT(30) DEF TakeReload, StartRead, NoNewFrame, SeenInv, TypeOK
  <2> QED
    BY <1>1, <2>1, QuietSceneStep DEF TakeReload, StartRead, NoNewFrame
<1>2. CASE NewFrame
  <2>1. /\ loop'.image = scene /\ scene \in Scenes
        /\ UNCHANGED <<scene, moves, ctx, task, misreads>>
    BY <1>2 DEF NewFrame, SeenInv, TypeOK
  <2>2. PicturesShowTheScene'
    BY <2>1 DEF SeenInv, PicturesShowTheScene
  <2>3. WrongVotesAreMisreads' /\ ReportedStateWasSeen'
    BY <2>1 DEF SeenInv, WrongVotesAreMisreads, ReportedStateWasSeen
  <2> QED
    BY <2>2, <2>3 DEF SeenInv
<1>3. CASE JudgeFrame
  <2>1. /\ loop.pc = "frame" /\ loop'.pc = "top"
        /\ UNCHANGED <<scene, moves, ctx, misreads>>
        /\ task' = task \/ task'.image = loop.image
    BY <1>3 DEF JudgeFrame, SeenInv, TypeOK, NoTask
  <2>2. PicturesShowTheScene'
    BY <2>1 DEF SeenInv, PicturesShowTheScene
  <2>3. WrongVotesAreMisreads' /\ ReportedStateWasSeen'
    BY <2>1 DEF SeenInv, WrongVotesAreMisreads, ReportedStateWasSeen
  <2> QED
    BY <2>2, <2>3 DEF SeenInv
<1> QED
  BY <1>1, <1>2, <1>3 DEF Tick

LEMMA FailureIsSeen ==
  ASSUME SeenInv, TypeOK', Failure
  PROVE  SeenInv'
<1>1. CASE LoopCrashes \/ BuildAgain
  <2>1. loop'.pc \in {"drain", "read_map"}
    BY <1>1 DEF LoopCrashes, BuildAgain, SeenInv, TypeOK
  <2> QED
    BY <1>1, <2>1, QuietSceneStep DEF LoopCrashes, BuildAgain
<1>2. CASE Drained \/ ProcessRestarts
  <2>1. /\ ctx' = NoContext /\ loop'.pc \in {"backoff", "read_map"}
        /\ task' = task \/ task' = NoTask
        /\ UNCHANGED <<scene, moves, misreads>>
    BY <1>2, SMTT(30) DEF Drained, ProcessRestarts, SeenInv, TypeOK
  <2>2. \A s \in Slots : ctx'.filter[s] = EmptyFilter
    BY <2>1 DEF NoContext, BuildFilter
  <2>3. PicturesShowTheScene'
    BY <2>1 DEF SeenInv, PicturesShowTheScene, NoTask
  <2> QED
    BY <2>2, <2>3, EmptyFiltersStep
<1> QED
  BY <1>1, <1>2 DEF Failure

LEMMA DetectionIsSeen ==
  ASSUME SeenInv, TypeOK', Detection
  PROVE  SeenInv'
<1>1. CASE Discard \/ DetectionFails \/ CommitChanges \/ WriteFails \/ PlatesRead
  <2>1. task' = NoTask \/ task' = [task EXCEPT !.phase = "plates", !.changes = {}]
    BY <1>1 DEF Discard, DetectionFails, CommitChanges, WriteFails, PlatesRead
  <2>2. task'.phase # "detecting"
    <3>1. task \in [phase : Phases, gen : Nat, image : Images, changes : SUBSET SlotChanges,
                    ver : -1..MaxEdits]
      BY DEF SeenInv, TypeOK
    <3>2. CASE task' = NoTask
      BY <3>2 DEF NoTask
    <3>3. CASE task' = [task EXCEPT !.phase = "plates", !.changes = {}]
      BY <3>1, <3>3
    <3> QED
      BY <2>1, <3>2, <3>3
  <2> QED
    BY <1>1, <2>2, QuietSceneStep
    DEF Discard, DetectionFails, CommitChanges, WriteFails, PlatesRead
<1> QED
  BY <1>1, ScoreIsSeen DEF Detection

\* SlotVoteFilter and build_filter, behind the polling loop and its reloads: while the
\* detector has been wrong fewer times than the threshold, a slot at whose place nothing moved
\* is never reported in the wrong state, whatever is edited, fails or restarts meanwhile.
THEOREM ReportsAreSeen == Spec => []ReportedStateWasSeen
<1>1. Init => SeenInv
  <2> SUFFICES ASSUME Init PROVE SeenInv
    OBVIOUS
  <2>1. TypeOK
    BY InitType
  <2>2. /\ loop.pc = "read_map" /\ task.phase = "none"
        /\ \A s \in Slots : ctx.map[s] = NoPlace
    BY DEF Init, NoTask, NoContext
  <2>3. Drawn(ctx.map) = {}
    BY <2>2 DEF Drawn
  <2> QED
    BY <2>1, <2>2, <2>3
    DEF SeenInv, PicturesShowTheScene, WrongVotesAreMisreads, ReportedStateWasSeen
<1>2. SeenInv /\ [Next]_vars => SeenInv'
  <2> SUFFICES ASSUME SeenInv, [Next]_vars PROVE SeenInv'
    OBVIOUS
  <2>1. TypeOK'
    BY NextType DEF SeenInv
  <2>2. CASE UNCHANGED vars \/ Rest \/ Clock
    BY <2>1, <2>2, QuietSceneStep
    DEF vars, Rest, SaveMap, SignalReload, Clock, FloorPasses, HeartbeatFallsDue
  <2> QED
    BY <2>1, <2>2, SceneIsSeen, BuildIsSeen, TickIsSeen, DetectionIsSeen, FailureIsSeen
    DEF Next
<1>3. SeenInv => ReportedStateWasSeen
  BY DEF SeenInv
<1> QED
  BY <1>1, <1>2, <1>3, PTL DEF Spec
=============================================================================
