---------------------------- MODULE VehicleBoxes -----------------------------
(***************************************************************************)
(* From what the model returns to one vehicle in each bay: the letterbox   *)
(* and NMS (vision/detectors/box_utils.py), the decoder (onnx_decode.py)   *)
(* and vision/domain/slot_detections.py.  A detection is the record        *)
(* [box, label, score].                                                    *)
(***************************************************************************)
EXTENDS SlotGeometry, Selection

CONSTANTS
  VehicleLabels, \* VEHICLE_CLASS_LABELS
  Confidence,    \* detector.confidence, a score like the others
  MaxCandidates, \* MAX_CANDIDATES_BEFORE_NMS
  InputSize      \* the side of the model's square, in pixels

ASSUME BoxBounds == /\ "car" \in VehicleLabels
                    /\ Confidence \in Nat
                    /\ {MaxCandidates, InputSize} \subseteq Nat \ {0}

-----------------------------------------------------------------------------
(* The letterbox: a frame of size <<w, h>> in the model's square.  Sizes are in pixels,
   boxes in parts of a pixel. *)

Longer(size) == IF size[1] > size[2] THEN size[1] ELSE size[2]

\* Only sizes that the scale leaves whole: otherwise both axes are off by less than half
\* a pixel of the square.
Fits(size) == \A axis \in 1..2 : (size[axis] * InputSize) % Longer(size) = 0

\* Half of what the scaled picture leaves free, rounded down.
Pad(size, axis) == Pixel * ((InputSize - ((size[axis] * InputSize) \div Longer(size))) \div 2)

ToSquare(c, size, axis) == ((c * InputSize) \div Longer(size)) + Pad(size, axis)

ScaledFirst(c, size, axis) == ((c * Longer(size)) \div InputSize) - Pad(size, axis)

FromSquare(c, size, axis) == ((c - Pad(size, axis)) * Longer(size)) \div InputSize

Clipped(c, size, axis) == Max({0, Min({c, Pixel * size[axis]})})

Letterboxed(box, size) ==
  [x1 |-> ToSquare(box.x1, size, 1), y1 |-> ToSquare(box.y1, size, 2),
   x2 |-> ToSquare(box.x2, size, 1), y2 |-> ToSquare(box.y2, size, 2)]

\* unletterbox_boxes
Unletterboxed(box, size) ==
  LET back(c, axis) == Clipped(FromSquare(c, size, axis), size, axis)
  IN [x1 |-> back(box.x1, 1), y1 |-> back(box.y1, 2),
      x2 |-> back(box.x2, 1), y2 |-> back(box.y2, 2)]

-----------------------------------------------------------------------------
(* Overlap of two boxes, and the greedy choice both NMS and the count of vehicles make *)

Size(box) == (box.x2 - box.x1) * (box.y2 - box.y1)

Shared(a, b) ==
  LET w == Min({a.x2, b.x2}) - Max({a.x1, b.x1})
      h == Min({a.y2, b.y2}) - Max({a.y1, b.y1})
  IN IF w <= 0 \/ h <= 0 THEN 0 ELSE w * h

Joint(a, b) == Size(a) + Size(b) - Shared(a, b)

\* NMS_IOU_THRESHOLD, 0.45: more than that is suppressed.
IsSuppressed(a, b) == 100 * Shared(a, b) > 45 * Joint(a, b)

\* SAME_VEHICLE_IOU, 0.5: less than that is another vehicle.
IsSameVehicle(a, b) == Joint(a, b) > 0 /\ 2 * Shared(a, b) >= Joint(a, b)

\* Of 1..count, taken in turn: those that clash with none chosen before them.
Greedy(count, clashes) ==
  LET chosen[n \in 0..count] ==
        IF n = 0 THEN {}
        ELSE LET before == chosen[n - 1]
             IN IF \E k \in before : <<n, k>> \in clashes THEN before ELSE before \cup {n}
  IN chosen[count]

\* scores.argsort()[::-1]: of equal scores the later row first.
ComesBefore(i, j, rows) ==
  rows[i].score > rows[j].score \/ (rows[i].score = rows[j].score /\ i > j)

Rank(i, rows) == Cardinality({j \in DOMAIN rows : ComesBefore(j, i, rows)}) + 1

Descending(rows) == [n \in DOMAIN rows |-> CHOOSE i \in DOMAIN rows : Rank(i, rows) = n]

SameClass(a, b) == a.label = b.label /\ IsSuppressed(a.box, b.box)

-----------------------------------------------------------------------------
(* decode_yolo_output *)

AreVehicles(rows) ==
  Picked(rows, {i \in DOMAIN rows :
                  rows[i].score >= Confidence /\ rows[i].label \in VehicleLabels})

\* The rows that NMS sees, best first.
Candidates(rows) ==
  LET kept == AreVehicles(rows)
      order == Descending(kept)
      top == IF Len(order) > MaxCandidates THEN SubSeq(order, 1, MaxCandidates) ELSE order
  IN [n \in DOMAIN top |-> kept[top[n]]]

InFrame(row, size) == [row EXCEPT !.box = Unletterboxed(@, size)]

\* The classic head; an end-to-end head has NMS behind it and is only filtered.  The
\* detections of one class after another; their order says nothing here.
Decoded(head, rows, size) ==
  IF head = "classic"
  THEN LET best == Candidates(rows)
           clashes == {p \in (DOMAIN best) \X (DOMAIN best) : SameClass(best[p[1]], best[p[2]])}
       IN {InFrame(best[n], size) : n \in Greedy(Len(best), clashes)}
  ELSE {InFrame(row, size) : row \in ToSet(AreVehicles(rows))}

-----------------------------------------------------------------------------
(* slot_detections.py, for the bays of one frame *)

\* group_detections_by_slot
InBay(i, detections, bays) == {d \in detections : Assigned(d.box, bays) = i}

\* occupied_slot_ids
Occupied(detections, bays) == {i \in DOMAIN bays : InBay(i, detections, bays) # {}}

\* _best_of
BestOf(group) ==
  CHOOSE d \in group : \A e \in group :
    d.score > e.score \/ (d.score = e.score /\ Size(d.box) >= Size(e.box))

\* resolve_slot_detections
Resolved(detections, bays) ==
  {BestOf(InBay(i, detections, bays)) : i \in Occupied(detections, bays)}

Together(a, b) == IsSameVehicle(a.box, b.box)

\* _distinct_vehicles: of equal scores, the detector's order decides.
Orders(group) ==
  {order \in SetToSeqs(group) :
     \A n \in 1..(Len(order) - 1) : order[n].score >= order[n + 1].score}

DistinctVehicles(order) ==
  LET repeats == {p \in (DOMAIN order) \X (DOMAIN order) : Together(order[p[1]], order[p[2]])}
  IN Cardinality(Greedy(Len(order), repeats))
=============================================================================
