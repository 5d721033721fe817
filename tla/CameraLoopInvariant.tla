------------------------ MODULE CameraLoopInvariant -------------------------
(***************************************************************************)
(* The inductive invariant behind TrackerAgrees and RowsChain: what holds  *)
(* at every point between a reading of the database, a detection and a     *)
(* write, so that the tracker and the database agree again at the end.     *)
(***************************************************************************)
EXTENDS CameraLoop

\* A batch of changes holds one change per slot.
OneChangePerSlot ==
  \A c, d \in task.changes : c.slot = d.slot => c = d

\* No context is newer than the rows, and one as new as they are has their map.
VersionsOfMaps ==
  /\ ctx.ver <= db.ver
  /\ built.ver <= db.ver
  /\ ctx.ver = db.ver => ctx.map = db.map
  /\ loop.pc \in {"read_states", "install"} /\ built.ver = db.ver => built.map = db.map

\* A detection belongs to this scheduler or is outdated; a context is built from
\* nothing only when no detection is left.
DetectionsAreBounded ==
  /\ Busy => task.gen <= sched.gen
  /\ loop.pc = "backoff" => ~Busy
  /\ loop.pc \in {"read_map", "read_states", "install"} /\ ~loop.reloading => ~Busy
  /\ loop.pc \in {"drain", "backoff"} => ~loop.reloading

\* The states read for a rebuild are what the slots settle at, but for those with
\* a write under way.
SeedAgrees ==
  loop.pc = "install" =>
    /\ Pending \subseteq built.torn
    /\ built.ver = db.ver =>
         \A s \in Drawn(built.map) \ built.torn : built.seed[s] = Settling(s)

\* While the current context's changes wait to be written, its tracker has them.
TrackerIsAhead ==
  task.phase = "writing" /\ task.gen = sched.gen =>
    \A c \in task.changes : ctx.known[c.slot] = c.new

\* A change waiting to be written starts from what the database says.
ChangesStartFromRows ==
  task.phase = "writing" /\ task.gen = sched.gen /\ ctx.ver = db.ver =>
    \A c \in task.changes : c.slot \notin torn =>
      c.previous = db.current[c.slot] /\ c.new # c.previous

IInv == /\ TypeOK
        /\ OneChangePerSlot
        /\ VersionsOfMaps
        /\ DetectionsAreBounded
        /\ SeedAgrees
        /\ TrackerIsAhead
        /\ ChangesStartFromRows
        /\ TrackerAgrees

-----------------------------------------------------------------------------
(* Behind ReportedStateWasSeen *)

\* What is looked at shows the places nothing has moved at as they are.
PicturesShowTheScene ==
  /\ loop.pc = "frame" =>
       /\ loop.image \in Scenes
       /\ \A p \in Places : moves[p] = 0 => loop.image[p] = scene[p]
  /\ task.phase = "detecting" =>
       /\ task.image \in Scenes
       /\ \A p \in Places : moves[p] = 0 => task.image[p] = scene[p]

VotesAgainst(truth, votes) == IF truth THEN FreeVotes(votes) ELSE OccupiedVotes(votes)

\* Every vote against the scene is a misread.
WrongVotesAreMisreads ==
  \A s \in Drawn(ctx.map) :
    moves[ctx.map[s]] = 0 => VotesAgainst(scene[ctx.map[s]], ctx.filter[s].votes) <= misreads

SeenInv == TypeOK /\ PicturesShowTheScene /\ WrongVotesAreMisreads /\ ReportedStateWasSeen
=============================================================================
