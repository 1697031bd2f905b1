------------------------------- MODULE GtfsFeed -------------------------------
(* LocalGtfsRepository.load_feed: the files of a feed directory become tables   *)
(* by id, shapes, and the connections the search and the realtime view run on.  *)
(* Rows are records; one step reads a row of stop_times.txt or makes one        *)
(* connection, the tables before them are read as a whole. The files exist. A   *)
(* point is a place on a line, so that distances are exact.                     *)
EXTENDS Integers, SequencesExt

CONSTANTS
    Ids,          \* ids of trips, stops, shapes and lines
    Blank,        \* an id that is empty or missing
    Unparsed,     \* a number or time that cannot be parsed
    Places,       \* where a stop or a point of a shape may be
    Feeds         \* the contents the feed directory may have

ASSUME GtfsFeedAssumption ==
    /\ Blank \notin Ids
    /\ Unparsed \notin Int
    /\ Places \subseteq Int

(* A row with Unparsed stands for any number in it that does not parse.         *)
StopTimes ==
    [trip_id : Ids \cup {Blank}, stop_id : Ids \cup {Blank}, stop_sequence : Nat,
     arrival_time : Nat \cup {Unparsed}, departure_time : Nat \cup {Unparsed}]

Trips ==
    [trip_id : Ids \cup {Blank}, route_id : Ids \cup {Blank}, shape_id : Ids \cup {Blank}]
Stops == [stop_id : Ids \cup {Blank}, location : Places \cup {Unparsed}]
Shapes ==
    [shape_id : Ids \cup {Blank}, shape_pt_sequence : Nat, point : Places \cup {Unparsed}]

ASSUME FeedsAssumption ==
    \A f \in Feeds :
        /\ f.trips \in Seq(Trips)
        /\ f.shapes \in Seq(Shapes)
        /\ f.stops \in Seq(Stops)
        /\ f.stop_times \in Seq(StopTimes)

Connections ==
    [dep_stop_id : Ids, arr_stop_id : Ids, dep_time_s : Nat, arr_time_s : Nat, trip_id : Ids]

VARIABLES
    files,        \* trips.txt, shapes.txt, stops.txt and stop_times.txt
    row,          \* rows of stop_times.txt read
    entries,      \* stop_times_by_trip: positions of rows in stop_times.txt
    order,        \* its keys, in the order of the dict, that are still to join
    pair,         \* consecutive entries of the first key joined, 0 before its sort
    connections,  \* connections
    phase         \* stops, read, join, loaded or raised

feedVars == <<files, row, entries, order, pair, connections, phase>>

(* for row in reader: a later row of an id replaces the earlier one.            *)
ById(rows, key) ==
    LET ids == {rows[i][key] : i \in 1 .. Len(rows)} \ {Blank} IN
    [id \in ids |->
        rows[CHOOSE i \in 1 .. Len(rows) :
                /\ rows[i][key] = id
                /\ \A j \in i + 1 .. Len(rows) : rows[j][key] # id]]

trips_by_id == ById(files.trips, "trip_id")
stops_by_id == ById(files.stops, "stop_id")

(* list.sort with a key: of the given positions, the n-th is the one with n - 1 *)
(* before it. Equal keys stay as they were.                                     *)
(* Definitions named ..._<Fault> are mutants of the definition below them.      *)
Less(k, l) == k[1] < l[1] \/ (k[1] = l[1] /\ k[2] < l[2])
Before_Unstable(keys, i, j) == Less(keys[i], keys[j]) \/ (keys[i] = keys[j] /\ i > j)
Before(keys, i, j) == Less(keys[i], keys[j]) \/ (keys[i] = keys[j] /\ i < j)
Sorted(positions, keys) ==
    [n \in 1 .. Cardinality(positions) |->
        CHOOSE i \in positions :
            Cardinality({j \in positions : Before(keys, j, i)}) = n - 1]
Reordered(s, f) == [n \in 1 .. Len(s) |-> s[f[n]]]

(* A point without a shape or that does not parse is left out, and a shape      *)
(* without points is missing.                                                   *)
ShapePoints(shape_id) ==
    LET shapes == files.shapes
        mine == {i \in 1 .. Len(shapes) :
                    shape_id # Blank /\ shapes[i].shape_id = shape_id /\ shapes[i].point # Unparsed}
        sorted == Sorted(mine, [i \in mine |-> <<shapes[i].shape_pt_sequence, 0>>])
    IN  [n \in 1 .. Cardinality(mine) |-> shapes[sorted[n]].point]

StopTime(i) == files.stop_times[i]
Kept(i) == StopTime(i).trip_id # Blank /\ StopTime(i).stop_id # Blank
Parses(i) == StopTime(i).arrival_time # Unparsed /\ StopTime(i).departure_time # Unparsed

FeedInit ==
    /\ files \in Feeds
    /\ row = 0
    /\ entries = [t \in Ids |-> << >>]
    /\ order = << >>
    /\ pair = 0
    /\ connections = << >>
    /\ phase = "stops"

(* float(row["stop_lat"]) of a row that has an id.                              *)
StopsParse ==
    \A i \in 1 .. Len(files.stops) :
        files.stops[i].stop_id # Blank => files.stops[i].location # Unparsed
ReadStops ==
    /\ phase = "stops"
    /\ phase' = IF StopsParse THEN "read" ELSE "raised"
    /\ UNCHANGED <<files, row, entries, order, pair, connections>>

ReadStopTime ==
    /\ phase = "read"
    /\ row < Len(files.stop_times)
    /\ row' = row + 1
    /\ LET t == StopTime(row + 1).trip_id IN
       \/ ~Kept(row + 1) /\ UNCHANGED <<entries, order, phase>>
       \/ /\ Kept(row + 1) /\ ~Parses(row + 1)
          /\ phase' = "raised"
          /\ UNCHANGED <<entries, order>>
       \/ /\ Kept(row + 1) /\ Parses(row + 1)
          /\ entries' = [entries EXCEPT ![t] = Append(@, row + 1)]
          /\ order' = IF entries[t] = << >> THEN Append(order, t) ELSE order
          /\ UNCHANGED phase
    /\ UNCHANGED <<files, pair, connections>>

AllRead ==
    /\ phase = "read"
    /\ row = Len(files.stop_times)
    /\ phase' = "join"
    /\ UNCHANGED <<files, row, entries, order, pair, connections>>

(* entries.sort(key=lambda x: x[0]) of the next trip.                           *)
SortEntries ==
    /\ phase = "join" /\ order # << >> /\ pair = 0
    /\ LET e == entries[Head(order)]
           keys == [n \in 1 .. Len(e) |-> <<StopTime(e[n]).stop_sequence, 0>>]
       IN  entries' = [entries EXCEPT ![Head(order)] = Reordered(e, Sorted(1 .. Len(e), keys))]
    /\ pair' = 1
    /\ UNCHANGED <<files, row, order, connections, phase>>

Connection(t, i, j) ==
    [dep_stop_id |-> StopTime(i).stop_id, arr_stop_id |-> StopTime(j).stop_id,
     dep_time_s |-> StopTime(i).departure_time, arr_time_s |-> StopTime(j).arrival_time,
     trip_id |-> t]

Known(i) == StopTime(i).stop_id \in DOMAIN stops_by_id

(* A pair with an unknown stop is left out; the next one starts from it anew.   *)
JoinPair ==
    /\ phase = "join" /\ order # << >> /\ pair > 0
    /\ LET t == Head(order)
           e == entries[t]
       IN  /\ pair < Len(e)
           /\ connections' = IF Known(e[pair]) /\ Known(e[pair + 1])
                             THEN Append(connections, Connection(t, e[pair], e[pair + 1]))
                             ELSE connections
    /\ pair' = pair + 1
    /\ UNCHANGED <<files, row, entries, order, phase>>

TripJoined ==
    /\ phase = "join" /\ order # << >> /\ pair > 0
    /\ pair = Len(entries[Head(order)])
    /\ order' = Tail(order)
    /\ pair' = 0
    /\ UNCHANGED <<files, row, entries, connections, phase>>

(* connections.sort(key=lambda c: (c.dep_time_s, c.arr_time_s))                 *)
SortConnections_Skipped ==
    /\ phase = "join" /\ order = << >>
    /\ phase' = "loaded"
    /\ UNCHANGED <<files, row, entries, order, pair, connections>>
SortConnections ==
    /\ phase = "join" /\ order = << >>
    /\ LET keys == [n \in 1 .. Len(connections) |->
                       <<connections[n].dep_time_s, connections[n].arr_time_s>>]
       IN  connections' = Reordered(connections, Sorted(1 .. Len(connections), keys))
    /\ phase' = "loaded"
    /\ UNCHANGED <<files, row, entries, order, pair>>

FeedNext ==
    \/ ReadStops
    \/ ReadStopTime
    \/ AllRead
    \/ SortEntries
    \/ JoinPair
    \/ TripJoined
    \/ SortConnections

FeedSpec == FeedInit /\ [][FeedNext]_feedVars

-----------------------------------------------------------------------------
(* Types, and that a loaded feed is in the order earliest_arrival relies on     *)
(* (SortedByDeparture of Csa), whatever the order of rows, trips and files.     *)
FeedTypeOK ==
    /\ files.stop_times \in Seq(StopTimes)
    /\ row \in 0 .. Len(files.stop_times)
    /\ entries \in [Ids -> Seq(1 .. row)]
    /\ order \in Seq(Ids)
    /\ pair \in Nat
    /\ connections \in Seq(Connections)
    /\ phase \in {"stops", "read", "join", "loaded", "raised"}
    /\ phase = "loaded" =>
          \A m, n \in 1 .. Len(connections) :
             m <= n => connections[m].dep_time_s <= connections[n].dep_time_s

(* Row j of the file is the stop after row i in their trip: by sequence number, *)
(* and by place in the file where numbers are equal or missing.                 *)
Precedes(i, j) ==
    /\ Kept(i) /\ Kept(j)
    /\ StopTime(i).trip_id = StopTime(j).trip_id
    /\ \/ StopTime(i).stop_sequence < StopTime(j).stop_sequence
       \/ StopTime(i).stop_sequence = StopTime(j).stop_sequence /\ i < j
FollowedBy(i, j) ==
    /\ Precedes(i, j)
    /\ \A k \in 1 .. Len(files.stop_times) : ~(Precedes(i, k) /\ Precedes(k, j))

(* A loaded feed has the connections of the timetable and no others: one from   *)
(* each stop to the next of the same trip, both in stops.txt, never over a stop *)
(* left out. Loading fails only for a place or a time that does not parse, in a *)
(* row that counts: one such row makes the whole feed unusable.                 *)
LoadsTheTimetable ==
    /\ phase = "loaded" =>
          {connections[n] : n \in 1 .. Len(connections)} =
             {Connection(StopTime(p[1]).trip_id, p[1], p[2]) :
                p \in {p \in (1 .. Len(files.stop_times)) \X (1 .. Len(files.stop_times)) :
                         FollowedBy(p[1], p[2]) /\ Known(p[1]) /\ Known(p[2])}}
    /\ phase # "stops" =>
          (phase = "raised" <=> ~StopsParse \/ \E i \in 1 .. row : Kept(i) /\ ~Parses(i))
=============================================================================
