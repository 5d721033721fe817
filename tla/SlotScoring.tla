----------------------------- MODULE SlotScoring -----------------------------
(***************************************************************************)
(* How a frame becomes the state of a bay: what the model returns is       *)
(* decoded (workers/inference_runner.py, vision/detectors/                 *)
(* onnx_detector.py), each detection finds its bay                         *)
(* (workers/inference_outcome_applier.py), and the bay's filter votes.  A  *)
(* frame leaves one bit per bay to the filter, so frames and votes are     *)
(* explored apart.                                                         *)
(***************************************************************************)
EXTENDS VoteFilter, VehicleBoxes

CONSTANTS
  Places,     \* bound: coordinates of a car on the still, in pixels
  MaxBoxes    \* bound: rows of one frame

\* The size of the still the map was drawn on.
Drawn == <<8, 8>>

FrameSizes == {Drawn, <<16, 8>>, <<8, 16>>}

ASSUME PlacesArePixels ==
  /\ \A axis \in 1..2 : Places \subseteq 0..Drawn[axis]
  /\ MaxBoxes \in Nat

ASSUME FramesFit == \A size \in FrameSizes : Fits(size)

VARIABLES
  part,       \* "votes" or "frames"
  frame,      \* what the detector was given and what the model returned for it
  detections  \* of that frame

scoringVars == <<vars, part, frame, detections>>

-----------------------------------------------------------------------------
(* Maps.  A bay is its outline and the convex pieces, corners clockwise, it consists of. *)

Polygon(corners) == [i \in DOMAIN corners |-> <<Pixel * corners[i][1], Pixel * corners[i][2]>>]

Convex(corners) == [outline |-> Polygon(corners), pieces |-> {Polygon(corners)}]

\* Two bays side by side, drawn in opposite directions, the line between them slanted or
\* not, and perhaps drawn short.
Row(a, b, bottom) ==
  << Convex(<< <<0, 3>>, <<a, 3>>, <<b, bottom>>, <<0, bottom>> >>),
     [Convex(<< <<a, 3>>, <<8, 3>>, <<8, bottom>>, <<b, bottom>> >>) EXCEPT !.outline = Reverse(@)] >>

\* A bay with a corner missing, and a small one that lies over part of it.
Corner ==
  << [outline |-> Polygon(<< <<0, 1>>, <<3, 1>>, <<3, 4>>, <<8, 4>>, <<8, 8>>, <<0, 8>> >>),
      pieces |-> {Polygon(<< <<0, 1>>, <<3, 1>>, <<3, 8>>, <<0, 8>> >>),
                  Polygon(<< <<3, 4>>, <<8, 4>>, <<8, 8>>, <<3, 8>> >>)}],
     Convex(<< <<4, 5>>, <<8, 5>>, <<8, 8>>, <<5, 8>> >>) >>

Plans == {Row(a, b, bottom) : a \in {2, 4}, b \in {2, 4, 5}, bottom \in {6, 8}} \cup {Corner}

Outlines(plan) == [i \in DOMAIN plan |-> plan[i].outline]

-----------------------------------------------------------------------------
(* Frames *)

Box(x1, y1, x2, y2) == [x1 |-> Pixel * x1, y1 |-> Pixel * y1, x2 |-> Pixel * x2, y2 |-> Pixel * y2]

Cars ==
  {Box(c[1], c[3], c[2], c[4]) :
     c \in {p \in Places \X Places \X Places \X Places : p[1] < p[2] /\ p[3] < p[4]}}

\* A car of the still in a frame of another size.
InFrameOf(car, size) ==
  [x1 |-> (car.x1 * size[1]) \div Drawn[1], y1 |-> (car.y1 * size[2]) \div Drawn[2],
   x2 |-> (car.x2 * size[1]) \div Drawn[1], y2 |-> (car.y2 * size[2]) \div Drawn[2]]

Seen(car, size) ==
  [box |-> Letterboxed(InFrameOf(car, size), size), label |-> "car", score |-> Confidence]

\* Boxes that overlap their neighbours by exactly one half, and those next to them by less.
Rows ==
  [box : {Box(x, 2, x + 3, 7) : x \in 1..3}, label : {"car", "truck", "person"}, score : 1..2]

Frames ==
  [plan : Plans, car : Cars, size : FrameSizes, head : {"classic"}, rows : {<<>>}]
    \cup [plan : {Row(4, 4, 8)}, car : {Box(0, 0, 1, 1)}, size : {Drawn},
          head : {"classic", "end_to_end"}, rows : BoundedSeq(Rows, MaxBoxes) \ {<<>>}]

\* What the model returns: the one car, or the rows.
Raw(f) == IF f.rows = <<>> THEN <<Seen(f.car, f.size)>> ELSE f.rows

NoFrame == [size |-> Drawn, rows |-> <<>>, head |-> "none"]

BaysOf(f) == FitToFrame(Outlines(f.plan), Drawn, f.size)

-----------------------------------------------------------------------------
(* Actions *)

ScoringInit ==
  /\ Init
  /\ part \in {"votes", "frames"}
  /\ frame = NoFrame /\ detections = {}

\* run_inference
Detects(f) ==
  /\ part = "frames" /\ frame = NoFrame
  /\ frame' = f
  /\ detections' = Decoded(f.head, Raw(f), f.size)
  /\ UNCHANGED <<vars, part>>

\* apply_outcome: one vehicle per bay is kept, and the next frame may come.
IsApplied ==
  /\ frame # NoFrame
  /\ frame' = NoFrame
  /\ detections' = {}
  /\ UNCHANGED <<vars, part>>

Votes ==
  /\ part = "votes"
  /\ Next
  /\ UNCHANGED <<part, frame, detections>>

ScoringNext == (\E f \in Frames : Detects(f)) \/ IsApplied \/ Votes

ScoringSpec == ScoringInit /\ [][ScoringNext]_scoringVars

-----------------------------------------------------------------------------
(* Properties *)

Side(p, a, b) == (b[1] - a[1]) * (p[2] - a[2]) - (b[2] - a[2]) * (p[1] - a[1])

Sides(p, piece) == {Side(p, piece[i], piece[Next1(i, piece)]) : i \in DOMAIN piece}

IsIn(p, bay) == \E piece \in bay.pieces : \A s \in Sides(p, piece) : s > 0

\* On the line of an outline, or of two pieces: rounding decides.
IsOnEdge(p, bay) ==
  \E piece \in bay.pieces : (\A s \in Sides(p, piece) : s >= 0) /\ 0 \in Sides(p, piece)

IsPlain(car, plan) ==
  \A i \in DOMAIN plan :
    \A p \in {GroundPoint(car)} \cup {SampleAt(car, s) : s \in Samples} : ~IsOnEdge(p, plan[i])

SamplesIn(car, bay) == Cardinality({s \in Samples : IsIn(SampleAt(car, s), bay)})

\* On the still: the smallest bay the car stands in, or else one that has most of the
\* band's samples, at least two in five.
StandsIn(car, plan, i) ==
  LET holding == {j \in DOMAIN plan : IsIn(GroundPoint(car), plan[j])}
      most == Max({SamplesIn(car, plan[j]) : j \in DOMAIN plan})
  IN IF holding # {}
     THEN i \in holding /\ \A j \in holding : Area(plan[i].outline) <= Area(plan[j].outline)
     ELSE IF most < 10 THEN i = NoBay
     ELSE i # NoBay /\ SamplesIn(car, plan[i]) = most

\* assignment.py, geometry.py, box_utils.py: a car is found in the bay it stands in on the
\* still the map was drawn on, whatever the size and shape of the frame, through the
\* letterbox and back, for concave bays, bays that lie over each other or are drawn short,
\* and in whichever direction they were drawn.
CarFindsItsBay ==
  frame # NoFrame /\ frame.rows = <<>> /\ IsPlain(frame.car, frame.plan) =>
    \E d \in detections :
      detections = {d} /\ StandsIn(frame.car, frame.plan, Assigned(d.box, BaysOf(frame)))

\* A choice from all that leaves no two that clash and drops none without a better one
\* that it clashes with.
IsFairChoice(chosen, all, Clash(_, _)) ==
  /\ chosen \subseteq all
  /\ \A d, e \in chosen : d # e => ~Clash(d, e)
  /\ \A d \in all \ chosen : \E e \in chosen : Clash(d, e) /\ e.score >= d.score

Repeats(a, b) == a.label = b.label /\ IsSuppressed(a.box, b.box)

\* onnx_decode.py, slot_detections.py: of several boxes of one vehicle one is left, never
\* none, per class in a frame and across classes in a bay, however many rows the model
\* returns and whatever order they come in; and to keep one in each bay does not change
\* which bays are occupied.
OneBoxPerVehicle ==
  frame # NoFrame =>
    /\ frame.head = "classic" =>
         LET candidates == ToSet(Candidates(Raw(frame)))
         IN \E chosen \in SUBSET candidates :
              /\ detections = {InFrame(row, frame.size) : row \in chosen}
              /\ IsFairChoice(chosen, candidates, Repeats)
    /\ LET kept == Resolved(detections, BaysOf(frame))
       IN /\ Occupied(kept, BaysOf(frame)) = Occupied(detections, BaysOf(frame))
          /\ Cardinality(kept) = Cardinality(Occupied(kept, BaysOf(frame)))
    /\ \A i \in DOMAIN BaysOf(frame) :
         LET group == InBay(i, detections, BaysOf(frame))
         IN \A order \in Orders(group) :
              \E vehicles \in SUBSET group :
                /\ Cardinality(vehicles) = DistinctVehicles(order)
                /\ IsFairChoice(vehicles, group, Together)

\* A bay is occupied by the car that stands in it, once, and by no other.
BaysFindTheirCars == CarFindsItsBay /\ OneBoxPerVehicle
=============================================================================
