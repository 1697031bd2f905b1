------------------------- MODULE MCVehiclesBySchedule -------------------------
(* Feed directories for TLC: one trip over three stops, with every sane         *)
(* timetable of it, in every file order, on every shape, with every defect of a *)
(* row or of the times, a trip of one row too; and two trips that share a line, *)
(* a shape or neither.                                                          *)
EXTENDS VehiclesBySchedule

CONSTANTS T1, T2, A, B, C, Short, Turning, Backward, Straight, L1, L2, MaxTime

Row(t, s, seq, arr, dep) ==
    [trip_id |-> t, stop_id |-> s, stop_sequence |-> seq, arrival_time |-> arr, departure_time |-> dep]
Trip(t, line, shape) == [trip_id |-> t, route_id |-> line, shape_id |-> shape]
Stop(s, place) == [stop_id |-> s, location |-> place]
Point(shape, seq, place) == [shape_id |-> shape, shape_pt_sequence |-> seq, point |-> place]

MCShapes ==
    << Point(Turning, 1, 0), Point(Straight, 9, 9), Point(Turning, 4, 9), Point(Turning, 2, 6),
       Point(Straight, 0, 1), Point(Blank, 1, 3), Point(Blank, 2, 7), Point(Straight, 3, 4), Point(Turning, 3, 3),
       Point(Straight, 5, Unparsed), Point(Short, 1, 4), Point(Backward, 1, 8), Point(Backward, 2, 0) >>

AllStops == << Stop(A, 7), Stop(B, 4), Stop(Blank, Unparsed), Stop(C, 8), Stop(A, 0) >>

(* Departure, arrival, departure, arrival of a trip over three stops.           *)
Timetables == {d \in [1 .. 4 -> 0 .. MaxTime] : d[1] <= d[2] /\ d[2] <= d[3] /\ d[3] <= d[4]}

OneTrip(d) == << Row(T1, A, 1, 0, d[1]), Row(T1, B, 2, d[2], d[3]), Row(T1, C, 7, d[4], d[4]) >>
Tangled(d) == << Row(T1, B, 2, d[4], d[2]), Row(T1, A, 1, d[3], d[1]), Row(T1, C, 7, d[3], d[3]),
                   Row(T2, B, 1, d[3], d[2]) >>
Feed(trips, stops, rows) == [trips |-> trips, shapes |-> MCShapes, stops |-> stops, stop_times |-> rows]

Shuffled ==
    {Feed(<< Trip(T1, L1, Straight) >>, AllStops, [n \in 1 .. 3 |-> OneTrip(d)[f[n]]]) :
        d \in Timetables, f \in {f \in [1 .. 3 -> 1 .. 3] : \A i \in 1 .. 3 : \E n \in 1 .. 3 : f[n] = i}}
OnShapes ==
    {Feed(<< Trip(T1, L1, shape) >>, AllStops, OneTrip(d)) :
        d \in Timetables, shape \in {Blank, Short, Turning, Backward}}
Defects(d) ==
    { Feed(<< Trip(T1, L1, Blank) >>, << Stop(A, 0), Stop(C, 8) >>, OneTrip(d)),
      Feed(<< >>, AllStops, OneTrip(d)),
      Feed(<< Trip(T1, L1, Straight) >>, AllStops, Tangled(d)),
      Feed(<< Trip(T1, Blank, Blank), Trip(Blank, L1, Short) >>, AllStops,
           << Row(T1, A, 0, 0, d[1]), Row(T1, Blank, 0, 0, 0), Row(Blank, A, 0, 0, 0), Row(T1, B, 0, d[2], d[3]) >>),
      Feed(<< >>, << Stop(B, Unparsed), Stop(A, 0) >>, OneTrip(d)),
      Feed(<< >>, AllStops, << Row(Blank, A, 1, Unparsed, 0), Row(T1, A, 1, 0, d[1]), Row(T1, B, 2, Unparsed, d[3]) >>) }

TwoTrips ==
    {Feed(<< Trip(T1, L1, Short), Trip(T2, line, shape) >>, AllStops,
          [n \in 1 .. 4 |-> << Row(T1, A, 1, 0, d[1]), Row(T1, B, 2, d[2], d[2]),
                               Row(T2, B, 1, d[3], d[3]), Row(T2, C, 2, d[4], d[4]) >>[f[n]]]) :
        d \in {d \in [1 .. 4 -> 0 .. 2] : d[1] <= d[2] /\ d[3] <= d[4]},
        line \in {L1, L2}, shape \in {Turning, Straight},
        f \in {<<1, 2, 3, 4>>, <<3, 1, 4, 2>>, <<4, 3, 2, 1>>}}

MCFeeds == Shuffled \cup OnShapes \cup UNION {Defects(d) : d \in Timetables} \cup TwoTrips
MCIds == {T1, T2, A, B, C, Short, Turning, Backward, Straight, L1, L2}
MCSelections == {{}, {L1}, {L2}}
MCPlaces == 0 .. 9
===============================================================================
