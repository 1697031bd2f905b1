-------------------------- MODULE VehiclesBySchedule --------------------------
(* RealtimeViewService without a vehicle provider: the vehicles of a line are   *)
(* where the loaded timetable puts them at the time of day, on the stops and    *)
(* shapes the same service draws for the line. A clock of Day seconds ticks     *)
(* between the requests of the map. Every request loads the same files again,   *)
(* so one load stands for all.                                                  *)
EXTENDS GtfsFeed, Polylines

CONSTANTS
    Day,          \* 86400: now_s stays below it, times of the feed need not
    Selections    \* route_ids a request may have, {} for all lines

ASSUME VehiclesByScheduleAssumption == Day \in Nat \ {0}

VARIABLES
    now,          \* now_s
    asked,        \* when the map was last answered, Day before the first time
    selection,    \* route_ids of that request
    vehicles      \* its answer: where the vehicle of a trip is

viewVars == <<now, asked, selection, vehicles>>
allVars == <<feedVars, viewVars>>

Line(t) == IF t \in DOMAIN trips_by_id THEN trips_by_id[t].route_id ELSE Blank
ShapeOf(t) == IF t \in DOMAIN trips_by_id THEN trips_by_id[t].shape_id ELSE Blank
Place(s) == stops_by_id[s].location

(* The scan over the connections under way that keeps one of each trip.         *)
UnderWay_NotAtArrival(c, lines, time) ==
    /\ c.dep_time_s <= time /\ time < c.arr_time_s
    /\ lines # {} => Line(c.trip_id) \in lines
UnderWay(c, lines, time) ==
    /\ c.dep_time_s <= time /\ time <= c.arr_time_s
    /\ lines # {} => Line(c.trip_id) \in lines
ActiveByTrip(lines, time) ==
    LET kept[n \in 0 .. Len(connections)] ==
            IF n = 0 THEN [t \in Ids |-> 0]
            ELSE LET c == connections[n]
                     prev == kept[n - 1][c.trip_id]
                 IN  IF /\ UnderWay(c, lines, time)
                        /\ prev = 0 \/ c.dep_time_s >= connections[prev].dep_time_s
                     THEN [kept[n - 1] EXCEPT ![c.trip_id] = n]
                     ELSE kept[n - 1]
    IN  kept[Len(connections)]

(* A shape is followed if its vertices nearest to the two stops come in order;  *)
(* otherwise the vehicle goes straight. Positions are in units of 1 / denom;    *)
(* connection and on_shape are not in the answer, they say how it came about.   *)
Follows(points, from, to) ==
    /\ Len(points) >= 2
    /\ NearestIndex(points, from) < NearestIndex(points, to)

Elapsed_CountsDown(c, time) == c.arr_time_s - time
Elapsed(c, time) == time - c.dep_time_s
ShapeDistance_FromItsStart(start, end, gone, denom) == (end - start) * gone
ShapeDistance(start, end, gone, denom) == start * denom + (end - start) * gone

Vehicle(c, time) ==
    LET denom == Max({1, c.arr_time_s - c.dep_time_s})
        from == Place(c.dep_stop_id)
        to == Place(c.arr_stop_id)
        points == ShapePoints(ShapeOf(c.trip_id))
        cum == Cumulative(points)
        start == cum[NearestIndex(points, from)]
        end == cum[NearestIndex(points, to)]
    IN  [connection |-> c, denom |-> denom, on_shape |-> Follows(points, from, to),
         at |-> IF Follows(points, from, to)
                THEN Along(points, ShapeDistance(start, end, Elapsed(c, time), denom), denom)
                ELSE from * denom + (to - from) * Elapsed(c, time)]

(* list_vehicles                                                                *)
Answer(lines, time) ==
    LET active == ActiveByTrip(lines, time) IN
    [t \in {t \in Ids : active[t] # 0} |-> Vehicle(connections[active[t]], time)]
ListVehicles ==
    /\ phase = "loaded"
    /\ asked' = now
    /\ \E lines \in Selections : selection' = lines /\ vehicles' = Answer(lines, now)
    /\ UNCHANGED <<feedVars, now>>

(* route_stops, route_shapes: what the map draws of a line.                     *)
TripsOf(line) == {t \in DOMAIN trips_by_id : trips_by_id[t].route_id = line}
RouteStops(line) ==
    UNION {{connections[n].dep_stop_id, connections[n].arr_stop_id} :
              n \in {n \in 1 .. Len(connections) : connections[n].trip_id \in TripsOf(line)}}

(* Counter.most_common(max_shapes): of equal counts the shape met first. What is *)
(* too short to draw is left out after the choice, not before it.               *)
ShapesOf(line) == {s \in {ShapeOf(t) : t \in TripsOf(line)} \ {Blank} : ShapePoints(s) # << >>}
Uses(line, s) == {t \in TripsOf(line) : ShapeOf(t) = s}
MetBefore(line, r, s) ==
    \E i \in 1 .. Len(files.trips) :
        /\ files.trips[i].trip_id \in Uses(line, r)
        /\ \A j \in 1 .. i : files.trips[j].trip_id \notin Uses(line, s)
Commoner(line, r, s) ==
    LET more == Cardinality(Uses(line, r)) - Cardinality(Uses(line, s)) IN
    more > 0 \/ (more = 0 /\ MetBefore(line, r, s))
MaxShapes == 2
RouteShapes(line) ==
    {s \in ShapesOf(line) :
        /\ Cardinality({r \in ShapesOf(line) : Commoner(line, r, s)}) < MaxShapes
        /\ Len(ShapePoints(s)) >= 2}

ViewInit ==
    /\ FeedInit
    /\ now = 0
    /\ asked = Day
    /\ selection = {}
    /\ vehicles = << >>

Load == FeedNext /\ UNCHANGED viewVars

Tick ==
    /\ phase = "loaded"
    /\ now' = (now + 1) % Day
    /\ UNCHANGED <<feedVars, asked, selection, vehicles>>

ViewNext == Load \/ ListVehicles \/ Tick

ViewSpec == ViewInit /\ [][ViewNext]_allVars

-----------------------------------------------------------------------------
Answered == asked < Day
Selected(t) == selection = {} \/ Line(t) \in selection
Rows(t) == {i \in 1 .. Len(files.stop_times) : Kept(i) /\ StopTime(i).trip_id = t}
Hops(t) == {p \in Rows(t) \X Rows(t) : FollowedBy(p[1], p[2])}

(* A trip is on its way at time, counted from the midnight before it began,     *)
(* from the departure at its first stop to the arrival at its last.             *)
OnItsWay(t, time) ==
    \E i, j \in Rows(t) :
        /\ Precedes(i, j) /\ \A k \in Rows(t) : ~Precedes(k, i) /\ ~Precedes(j, k)
        /\ StopTime(i).departure_time <= time /\ time <= StopTime(j).arrival_time
Dwells(t, time) ==
    \E i \in Rows(t) : StopTime(i).arrival_time < time /\ time < StopTime(i).departure_time
NearUnknownStop(t, time) ==
    \E p \in Hops(t) :
        /\ StopTime(p[1]).departure_time <= time /\ time <= StopTime(p[2]).arrival_time
        /\ ~(Known(p[1]) /\ Known(p[2]))

(* A trip that is on its way, today or since yesterday, is on the map of its    *)
(* line. It is missing only while it waits at a stop, next to a stop that is    *)
(* not in stops.txt, and, whatever it does, from midnight on: the service       *)
(* compares times beyond 24:00 with seconds since midnight.                     *)
MissingForAReason ==
    Answered => \A t \in Ids, time \in {asked, asked + Day} :
        (OnItsWay(t, time) /\ Selected(t) /\ t \notin DOMAIN vehicles) =>
            Dwells(t, time) \/ NearUnknownStop(t, time) \/ time >= Day

(* Where a vehicle may stand at a stop: there or at the nearest vertex.         *)
AtStop(t, s) ==
    LET points == ShapePoints(ShapeOf(t)) IN
    {Place(s)} \cup IF points = << >> THEN {} ELSE {points[NearestIndex(points, Place(s))]}
KeepsTime(t) ==
    LET v == vehicles[t] IN
    \E p \in Hops(t) :
        LET dep == StopTime(p[1]).departure_time
            arr == StopTime(p[2]).arrival_time
        IN  /\ v.connection = Connection(t, p[1], p[2])
            /\ dep <= asked /\ asked <= arr
            /\ asked = dep => v.at \in {x * v.denom : x \in AtStop(t, StopTime(p[1]).stop_id)}
            /\ (asked = arr /\ dep < arr) =>
                  v.at \in {x * v.denom : x \in AtStop(t, StopTime(p[2]).stop_id)}
DrawnOnItsLine(t) ==
    LET c == vehicles[t].connection IN
    /\ Selected(t)
    /\ Line(t) # Blank => {c.dep_stop_id, c.arr_stop_id} \subseteq RouteStops(Line(t))
    /\ (vehicles[t].on_shape /\ Line(t) # Blank) =>
          \/ ShapeOf(t) \in RouteShapes(Line(t))
          \/ Cardinality({s \in ShapesOf(Line(t)) : Commoner(Line(t), s, ShapeOf(t))}) >= MaxShapes
(* It stands on a segment of what calculate_route draws for the ride, give or   *)
(* take how far the stops are from the shape.                                   *)
Between(a, x, b) == (a <= x /\ x <= b) \/ (b <= x /\ x <= a)
OnTheRideDrawn(t) ==
    LET v == vehicles[t]
        from == Place(v.connection.dep_stop_id)
        to == Place(v.connection.arr_stop_id)
        points == ShapePoints(ShapeOf(t))
        ride == Slice(points, from, to)
        slack == v.denom * Max({Dist(from, points[NearestIndex(points, from)]),
                                Dist(to, points[NearestIndex(points, to)])})
    IN  v.on_shape =>
          \E n \in 1 .. Len(ride) - 1, off \in -slack .. slack :
             Between(ride[n] * v.denom, v.at + off, ride[n + 1] * v.denom)

(* A vehicle on the map is of a selected line, on its way between two stops     *)
(* that follow each other in its timetable, and at each of them at the very     *)
(* second. The map draws both stops and the shape it follows for that line, and *)
(* the planner draws the ride it is on.                                         *)
VehiclesKeepToTheTimetable ==
    \A t \in DOMAIN vehicles : KeepsTime(t) /\ DrawnOnItsLine(t) /\ OnTheRideDrawn(t)

(* How far a vehicle is on its trip: the stops behind it, then the distance.    *)
StopsBehind(t, v) ==
    {Cardinality({k \in Rows(t) : Precedes(k, p[1])}) :
        p \in {p \in Hops(t) : Connection(t, p[1], p[2]) = v.connection}}
Travelled(points, v) ==
    IF v.on_shape
    THEN {d \in 0 .. Cumulative(points)[Len(points)] * v.denom : Along(points, d, v.denom) = v.at}
    ELSE {Dist(v.at, Place(v.connection.dep_stop_id) * v.denom)}
NotBehind(t, v, w) ==
    \E m \in StopsBehind(t, v), n \in StopsBehind(t, w) :
        \/ m < n
        \/ m = n /\ \E points \in {ShapePoints(ShapeOf(t))} :
              \E d \in Travelled(points, v), e \in Travelled(points, w) : d <= e

(* From one answer of a day to the next no vehicle moves back along its trip,   *)
(* over stops, waits and changes between shape and straight line, as long as    *)
(* the timetable of the trip does not go back in time itself.                   *)
TimesAdvance(t) ==
    \A i, j \in Rows(t) :
        i = j \/ Precedes(i, j) => StopTime(i).arrival_time <= StopTime(j).departure_time
VehiclesNeverGoBack ==
    [][ asked <= asked' /\ Answered =>
          \A t \in DOMAIN vehicles \cap DOMAIN vehicles' :
             TimesAdvance(t) => NotBehind(t, vehicles[t], vehicles'[t])
      ]_<<asked, vehicles>>
=============================================================================
