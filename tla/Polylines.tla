------------------------------ MODULE Polylines ------------------------------
(* The geometry the code lays trips on shapes with, on a line instead of the    *)
(* globe: a point is an integer, the distance of two points their difference.   *)
(* A shape may turn back and pass the same place twice, as on the map.          *)
EXTENDS Integers, SequencesExt

(* haversine_distance_m                                                         *)
Dist(p, q) == IF p < q THEN q - p ELSE p - q

(* _build_cumulative_distances_m                                                *)
Cumulative(points) ==
    LET sum[i \in 1 .. Len(points)] ==
            IF i = 1 THEN 0 ELSE sum[i - 1] + Dist(points[i - 1], points[i])
    IN  sum

(* The first of the vertices that are nearest: a later one replaces it only if  *)
(* it is strictly nearer.                                                       *)
NearestIndex(points, target) ==
    CHOOSE i \in 1 .. Len(points) :
        \A j \in 1 .. Len(points) :
            /\ Dist(points[i], target) <= Dist(points[j], target)
            /\ j < i => Dist(points[i], target) < Dist(points[j], target)

(* _interpolate_along_polyline: where on the polyline distance / scale is,      *)
(* itself in units of 1 / scale.                                                *)
Along(points, distance, scale) ==
    LET cum == Cumulative(points)
        total == cum[Len(points)] * scale
        d == IF distance < 0 THEN 0 ELSE IF distance > total THEN total ELSE distance
        end == CHOOSE i \in 2 .. Len(points) :
                   /\ cum[i] * scale >= d
                   /\ \A j \in 2 .. i - 1 : cum[j] * scale < d
        gone == d - cum[end - 1] * scale
    IN  IF total = 0
        THEN points[1] * scale
        ELSE points[end - 1] * scale + (IF points[end - 1] <= points[end] THEN gone ELSE -gone)

(* slice_polyline_between_points: the part of the shape that is drawn for a     *)
(* ride, its ends moved to the stops.                                           *)
Slice(points, start, end) ==
    LET i == NearestIndex(points, start)
        j == NearestIndex(points, end)
        part == IF i <= j THEN SubSeq(points, i, j) ELSE Reverse(SubSeq(points, j, i))
    IN  IF Len(points) < 2 \/ i = j
        THEN <<start, end>>
        ELSE [part EXCEPT ![1] = start, ![Len(part)] = end]
=============================================================================
