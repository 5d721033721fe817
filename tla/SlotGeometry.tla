---------------------------- MODULE SlotGeometry -----------------------------
(***************************************************************************)
(* Which bay a vehicle stands in: vision/domain/geometry.py, slot_map.py   *)
(* and assignment.py.  A point is <<x, y>>, y growing downwards; a polygon *)
(* is its corners in order; a box is [x1, y1, x2, y2].  Arithmetic is      *)
(* exact: coordinates that are multiples of Pixel keep it in integers.     *)
(***************************************************************************)
EXTENDS Integers, SequencesExt, FiniteSetsExt

Pixel == 200

BandCols == 5
BandRows == 5

Distance(a, b) == IF a < b THEN b - a ELSE a - b

Next1(i, polygon) == (i % Len(polygon)) + 1

\* The middle of the bottom edge.
GroundPoint(box) == <<(box.x1 + box.x2) \div 2, box.y2>>

\* x < x_crossing, without the division.
IsLeftOfEdge(p, a, b) ==
  LET across == (p[1] - a[1]) * (b[2] - a[2])
      along  == (b[1] - a[1]) * (p[2] - a[2])
  IN IF b[2] > a[2] THEN across < along ELSE across > along

Crosses(p, a, b) == (a[2] > p[2]) # (b[2] > p[2]) /\ IsLeftOfEdge(p, a, b)

\* point_in_polygon: a ray to the right crosses the outline an odd number of times.
Inside(p, polygon) ==
  Cardinality({i \in DOMAIN polygon : Crosses(p, polygon[i], polygon[Next1(i, polygon)])}) % 2 = 1

\* polygon_area, twice
Area(polygon) ==
  LET total[n \in 0..Len(polygon)] ==
        IF n = 0 THEN 0
        ELSE LET a == polygon[n]  b == polygon[Next1(n, polygon)]
             IN total[n - 1] + (a[1] * b[2] - b[1] * a[2])
  IN Distance(0, total[Len(polygon)])

\* bottom_band_points: BandCols times BandRows points in the lowest 30% of the box.
Samples == (0..(BandCols - 1)) \X (0..(BandRows - 1))

SampleAt(box, s) ==
  <<box.x1 + ((box.x2 - box.x1) * (2 * s[1] + 1)) \div 10,
    box.y2 - (3 * (box.y2 - box.y1) * (9 - 2 * s[2])) \div 100>>

\* Slot.bounds, and the two rejects that spare the ray casting.
Bounds(polygon) ==
  LET xs == {polygon[i][1] : i \in DOMAIN polygon}
      ys == {polygon[i][2] : i \in DOMAIN polygon}
  IN [x1 |-> Min(xs), y1 |-> Min(ys), x2 |-> Max(xs), y2 |-> Max(ys)]

Within(p, box) == p[1] \in box.x1..box.x2 /\ p[2] \in box.y1..box.y2

Overlaps(a, b) == ~(a.x2 < b.x1 \/ b.x2 < a.x1 \/ a.y2 < b.y1 \/ b.y2 < a.y1)

Hits(box, bays) ==
  LET p == GroundPoint(box)
  IN {i \in DOMAIN bays : Within(p, Bounds(bays[i])) /\ Inside(p, bays[i])}

Band(box) == [box EXCEPT !.y1 = SampleAt(box, <<0, 0>>)[2]]

\* How many samples of the band a bay covers.
Coverage(box, bay) ==
  IF Overlaps(Band(box), Bounds(bay))
  THEN Cardinality({s \in Samples : Inside(SampleAt(box, s), bay)})
  ELSE 0

\* MIN_BAND_COVERAGE: two fifths of the samples.
Covers(box, bay) == 5 * Coverage(box, bay) >= 2 * BandCols * BandRows

NoBay == 0

\* assign_detection: the smallest bay that holds the ground point, or else the bay that
\* covers most of the band; the first of several.
Assigned(box, bays) ==
  LET hits == Hits(box, bays)
      covering == {i \in DOMAIN bays : Covers(box, bays[i])}
  IN CASE hits # {} ->
            CHOOSE i \in hits : \A j \in hits \ {i} :
              \/ Area(bays[i]) < Area(bays[j])
              \/ Area(bays[i]) = Area(bays[j]) /\ i < j
       [] hits = {} /\ covering # {} ->
            CHOOSE i \in covering : \A j \in covering \ {i} :
              \/ Coverage(box, bays[i]) > Coverage(box, bays[j])
              \/ Coverage(box, bays[i]) = Coverage(box, bays[j]) /\ i < j
       [] OTHER -> NoBay

-----------------------------------------------------------------------------
(* A map drawn on a still of one size and a frame of another: size is <<w, h>>. *)

\* scale_polygon by one factor for both axes.
ScaledByWidth(polygon, from, to) ==
  [i \in DOMAIN polygon |-> <<(polygon[i][1] * to[1]) \div from[1],
                            (polygon[i][2] * to[1]) \div from[1]>>]

\* scale_polygon
Scaled(polygon, from, to) ==
  [i \in DOMAIN polygon |-> <<(polygon[i][1] * to[1]) \div from[1],
                            (polygon[i][2] * to[2]) \div from[2]>>]

\* SlotMap.fit_to_frame
FitToFrame(bays, drawn, frame) ==
  IF drawn = frame THEN bays ELSE [i \in DOMAIN bays |-> Scaled(bays[i], drawn, frame)]
=============================================================================
