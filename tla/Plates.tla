-------------------------------- MODULE Plates -------------------------------
(***************************************************************************)
(* Which car stands in a bay: reads taken when the bay fills               *)
(* (workers/plate_capture.py, after the state is persisted in              *)
(* workers/inference_outcome_applier.py) and the vote a search holds over  *)
(* them (services/plate_search_service.py).                                *)
(***************************************************************************)
EXTENDS Integers, SequencesExt, FiniteSetsExt

CONSTANTS
  Cars,        \* the plates, too: one may be read as the other
  Confidences, \* of a read
  SureFrom,    \* MIN_PLATE_CONFIDENCE
  MaxReads     \* bound: reads in FALLBACK_WINDOW

ASSUME PlateBounds == Confidences \subseteq Nat /\ SureFrom \in Nat /\ MaxReads \in Nat

VARIABLES
  parked,   \* what stands in the bay
  reported, \* what the state tracker holds of the bay
  bayState, \* current_state
  detector, \* the camera's one detection: at, car in its picture, read while being written
  reads,    \* plate_reads within FALLBACK_WINDOW, oldest first; fresh since state_since
  found     \* history: the car in whose picture the bay was last found occupied

plateVars == <<parked, reported, bayState, detector, reads, found>>

Empty == "empty"
NoRead == "none"
Idle == [at |-> "idle", car |-> Empty, read |-> NoRead]

PlateInit ==
  /\ parked = Empty /\ reported = "UNKNOWN" /\ bayState = "UNKNOWN"
  /\ detector = Idle /\ reads = <<>> /\ found = Empty

CarMoves ==
  /\ parked' \in IF parked = Empty THEN Cars ELSE {Empty}
  /\ UNCHANGED <<reported, bayState, detector, reads, found>>

\* busy: a detection ends when its outcome is applied, plates included.
StartsDetection ==
  /\ detector.at = "idle"
  /\ detector' = [at |-> "detecting", car |-> parked, read |-> NoRead]
  /\ UNCHANGED <<parked, reported, bayState, reads, found>>

\* The votes are not carried, or say what was said before.
SettlesNothing ==
  /\ detector.at = "detecting"
  /\ detector' = Idle
  /\ UNCHANGED <<parked, reported, bayState, reads, found>>

Seen == IF detector.car = Empty THEN "FREE" ELSE "OCCUPIED"

StillFresh == reads

Stale == [i \in DOMAIN reads |-> [reads[i] EXCEPT !.fresh = FALSE]]

\* apply_outcome: the change is written, which sets state_since, and an arrival is read.
ChangesState ==
  /\ detector.at = "detecting" /\ Seen # reported
  /\ reported' = Seen /\ bayState' = Seen
  /\ reads' = Stale
  /\ IF Seen = "OCCUPIED"
     THEN found' = detector.car /\ detector' = [detector EXCEPT !.at = "reading"]
     ELSE detector' = Idle /\ UNCHANGED found
  /\ UNCHANGED parked

\* The write raises: nothing is read, and diff has remembered the change.
StateWriteFails ==
  /\ detector.at = "detecting" /\ Seen # reported
  /\ reported' = Seen
  /\ detector' = Idle
  /\ UNCHANGED <<parked, bayState, reads, found>>

ReadsPlate(plate, confidence) ==
  /\ detector.at = "reading"
  /\ detector' = [detector EXCEPT !.at = "writing", !.read = [plate |-> plate, conf |-> confidence]]
  /\ UNCHANGED <<parked, reported, bayState, reads, found>>

\* No plate, an implausible one, or a write that fails.
GivesReadUp ==
  /\ detector.at \in {"reading", "writing"}
  /\ detector' = Idle
  /\ UNCHANGED <<parked, reported, bayState, reads, found>>

\* record_plate_read, dated when it is written.
RecordsPlateRead ==
  /\ detector.at = "writing" /\ Len(reads) < MaxReads
  /\ reads' = Append(reads, [plate |-> detector.read.plate, conf |-> detector.read.conf,
                             of |-> detector.car, fresh |-> TRUE])
  /\ detector' = Idle
  /\ UNCHANGED <<parked, reported, bayState, found>>

\* The loop is built anew, its tracker seeded with the row.
LoopIsRebuilt ==
  /\ reported' = bayState /\ detector' = Idle
  /\ UNCHANGED <<parked, bayState, reads, found>>

LeavesWindow ==
  /\ reads # <<>>
  /\ reads' = Tail(reads)
  /\ UNCHANGED <<parked, reported, bayState, detector, found>>

PlateNext ==
  \/ CarMoves \/ StartsDetection \/ SettlesNothing \/ ChangesState \/ StateWriteFails
  \/ \E plate \in Cars, confidence \in Confidences : ReadsPlate(plate, confidence)
  \/ GivesReadUp \/ RecordsPlateRead \/ LoopIsRebuilt \/ LeavesWindow

-----------------------------------------------------------------------------
(* _vote *)

OrAll(preferred, all) == IF preferred = {} THEN all ELSE preferred

\* Since the bay last changed, or else all; of these the sure, or else all.
Voting ==
  LET now == OrAll({i \in DOMAIN reads : reads[i].fresh}, DOMAIN reads)
  IN OrAll({i \in now : reads[i].conf >= SureFrom}, now)

VotesFor(plate) == {i \in Voting : reads[i].plate = plate}

\* Most reads, then the most confident one, then the newest.
Rank(plate) ==
  <<Cardinality(VotesFor(plate)), Max({reads[i].conf : i \in VotesFor(plate)}),
    Max(VotesFor(plate))>>

IsHigher(r, s) ==
  \E n \in 1..3 : r[n] > s[n] /\ \A m \in 1..(n - 1) : r[m] = s[m]

BestPlate ==
  CHOOSE plate \in Cars :
    /\ VotesFor(plate) # {}
    /\ \A other \in Cars : VotesFor(other) # {} => ~IsHigher(Rank(other), Rank(plate))

\* The row that is answered with: the best plate's most confident read, or its newest.
Answer ==
  CHOOSE i \in VotesFor(BestPlate) :
    \A j \in VotesFor(BestPlate) : ~IsHigher(<<reads[j].conf, j, 0>>, <<reads[i].conf, i, 0>>)

\* search, and both routes that call it, when the bay is occupied.
Answers == bayState = "OCCUPIED" /\ reads # <<>>
=============================================================================
