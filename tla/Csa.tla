--------------------------------- MODULE Csa ---------------------------------
(* The connection scan of src/domain/algorithms/csa.py: earliest_arrival scans *)
(* the connections of a feed once, in order, and reconstruct_connections walks *)
(* back from a destination over the predecessors the scan left. One step per   *)
(* iteration of each loop. Trips are left out: both loops ignore them.         *)
EXTENDS Integers, Sequences

CONSTANTS
    Stops,
    NoStop,      \* before a destination is chosen
    Infinity,    \* 2**31 - 1, the arrival time of a stop that was not reached
    Feeds,       \* the connection lists load_feed may return
    Memory,      \* connections a list of the process can hold
    Initials     \* the initial_time_s_by_stop calculate_route may pass

Times == 0 .. Infinity - 1

Connections ==
    [dep_stop_id : Stops, arr_stop_id : Stops, dep_time_s : Times, arr_time_s : Times]

(* load_feed sorts the connections by departure. It does not ask that they     *)
(* arrive after they depart.                                                  *)
SortedByDeparture(f) ==
    \A i, j \in 1 .. Len(f) : i <= j => f[i].dep_time_s <= f[j].dep_time_s

(* No connection brings a passenger, in time, to one that precedes it in the  *)
(* feed. A sorted feed is so unless two connections of no duration tie; the   *)
(* shipped feed has 1301 of no duration, but no such tie.                     *)
NoLateFeeder(f) ==
    \A i, j \in 1 .. Len(f) :
        (i < j /\ f[j].arr_stop_id = f[i].dep_stop_id) => f[j].arr_time_s > f[i].dep_time_s

(* No connection brings a passenger to one that precedes it in the feed, or to *)
(* itself, before that departs. A sorted feed is so unless a connection        *)
(* arrives before it departs, as one over midnight does when its arrival is    *)
(* written with an hour below 24.                                             *)
NoEarlierFeeder(f) ==
    \A i, j \in 1 .. Len(f) :
        (i <= j /\ f[j].arr_stop_id = f[i].dep_stop_id) => f[j].arr_time_s >= f[i].dep_time_s

ASSUME CsaAssumption ==
    /\ Infinity \in Nat /\ Memory \in Nat
    /\ NoStop \notin Stops
    /\ \A a \in Initials : a \in [Stops -> 0 .. Infinity]
    /\ \A f \in Feeds :
          /\ f \in Seq(Connections)
          /\ SortedByDeparture(f)
          /\ Len(f) <= Memory

VARIABLES
    feed,        \* feed.connections
    initial,     \* initial_time_s_by_stop, Infinity for a missing key
    arrival,     \* arrival, Infinity for a missing key
    prev,        \* prev: position in feed of the connection, 0 for a missing key
    scanned,     \* connections the loop has passed
    phase,       \* which loop runs
    dest,        \* dest_stop_id
    cur,         \* cur of reconstruct_connections
    out          \* out, already in travel order: positions in feed

input == <<feed, initial>>
scan == <<arrival, prev, scanned>>
trace == <<dest, cur, out>>
vars == <<feed, initial, arrival, prev, scanned, phase, dest, cur, out>>

Phases == {"scan", "trace", "done", "killed"}

Init ==
    /\ feed \in Feeds
    /\ initial \in Initials
    /\ arrival = initial
    /\ prev = [s \in Stops |-> 0]
    /\ scanned = 0
    /\ phase = "scan"
    /\ dest = NoStop
    /\ cur = NoStop
    /\ out = << >>

(* Definitions named ..._<Fault> are mutants of the definition below them.     *)
(* The relaxation test: c can be boarded and improves its arrival stop.       *)
Improves_NoWait(c) ==
    /\ arrival[c.dep_stop_id] < c.dep_time_s
    /\ c.arr_time_s < arrival[c.arr_stop_id]
Improves_OrEquals(c) ==
    /\ arrival[c.dep_stop_id] <= c.dep_time_s
    /\ c.arr_time_s <= arrival[c.arr_stop_id]
Improves(c) ==
    /\ arrival[c.dep_stop_id] <= c.dep_time_s
    /\ c.arr_time_s < arrival[c.arr_stop_id]

Scan_KeepsFirstPrev ==
    /\ phase = "scan"
    /\ scanned < Len(feed)
    /\ scanned' = scanned + 1
    /\ LET c == feed[scanned + 1] IN
          IF Improves(c)
          THEN /\ arrival' = [arrival EXCEPT ![c.arr_stop_id] = c.arr_time_s]
               /\ prev' = [prev EXCEPT ![c.arr_stop_id] = IF @ = 0 THEN scanned + 1 ELSE @]
          ELSE UNCHANGED <<arrival, prev>>
    /\ UNCHANGED <<input, phase, trace>>
Scan ==
    /\ phase = "scan"
    /\ scanned < Len(feed)
    /\ scanned' = scanned + 1
    /\ LET c == feed[scanned + 1] IN
          IF Improves(c)
          THEN /\ arrival' = [arrival EXCEPT ![c.arr_stop_id] = c.arr_time_s]
               /\ prev' = [prev EXCEPT ![c.arr_stop_id] = scanned + 1]
          ELSE UNCHANGED <<arrival, prev>>
    /\ UNCHANGED <<input, phase, trace>>

(* calculate_route asks for the connections to a stop that was reached.       *)
StartTrace ==
    /\ phase = "scan"
    /\ scanned = Len(feed)
    /\ \E s \in Stops : arrival[s] < Infinity /\ dest' = s /\ cur' = s
    /\ phase' = "trace"
    /\ UNCHANGED <<input, scan, out>>

TraceBack_NotReversed ==
    /\ phase = "trace"
    /\ prev[cur] # 0 /\ Len(out) < Memory
    /\ out' = Append(out, prev[cur])
    /\ cur' = feed[prev[cur]].dep_stop_id
    /\ UNCHANGED <<input, scan, phase, dest>>
TraceBack ==
    /\ phase = "trace"
    /\ prev[cur] # 0 /\ Len(out) < Memory
    /\ out' = <<prev[cur]>> \o out
    /\ cur' = feed[prev[cur]].dep_stop_id
    /\ UNCHANGED <<input, scan, phase, dest>>

TraceDone ==
    /\ phase = "trace"
    /\ prev[cur] = 0
    /\ phase' = "done"
    /\ UNCHANGED <<input, scan, trace>>

(* The while loop has no exit but a stop without a predecessor: predecessors in *)
(* a cycle fill out until the process has no memory left.                      *)
OutOfMemory ==
    /\ phase = "trace"
    /\ prev[cur] # 0 /\ Len(out) = Memory
    /\ phase' = "killed"
    /\ UNCHANGED <<input, scan, trace>>

Next == Scan \/ StartTrace \/ TraceBack \/ TraceDone \/ OutOfMemory

Spec == Init /\ [][Next]_vars

-----------------------------------------------------------------------------
TypeOK ==
    /\ feed \in Seq(Connections)
    /\ initial \in [Stops -> 0 .. Infinity]
    /\ arrival \in [Stops -> 0 .. Infinity]
    /\ scanned \in 0 .. Len(feed)
    /\ prev \in [Stops -> 0 .. scanned]
    /\ phase \in Phases
    /\ dest \in Stops \cup {NoStop}
    /\ cur \in Stops \cup {NoStop}
    /\ phase # "scan" => cur \in Stops /\ dest \in Stops
    /\ out \in Seq(1 .. Len(feed))

(* One pass is enough: no connection the scan has passed can be boarded and   *)
(* would still improve its arrival stop, whatever the scan improved since. It *)
(* holds of feeds with NoLateFeeder; Csa_ties.cfg has one without.            *)
OnePassSuffices ==
    \A k \in 1 .. scanned :
        arrival[feed[k].dep_stop_id] <= feed[k].dep_time_s =>
            arrival[feed[k].arr_stop_id] <= feed[k].arr_time_s

(* A predecessor stays the connection that explains the arrival time of its   *)
(* stop, whatever the scan improves later, on every feed. Where no connection *)
(* leads back before one it follows, predecessors also lead strictly back in  *)
(* the scan, so they form no cycle.                                           *)
PredecessorsExplainArrivals ==
    \A s \in Stops :
        IF prev[s] = 0
        THEN arrival[s] = initial[s]
        ELSE LET c == feed[prev[s]] IN
             /\ c.arr_stop_id = s
             /\ c.arr_time_s = arrival[s]
             /\ arrival[c.dep_stop_id] <= c.dep_time_s
             /\ NoEarlierFeeder(feed) => prev[c.dep_stop_id] < prev[s]

(* What reconstruct_connections returns can be travelled: it starts at a stop *)
(* with an initial time (calculate_route looks that stop up in origin_walk),  *)
(* every connection is boarded where and after the one before it arrived, and *)
(* it reaches dest at the arrival time the search reported.                   *)
JourneyCanBeTravelled ==
    (phase = "done" /\ out # << >>) =>
        LET first == feed[out[1]]
            last == feed[out[Len(out)]]
        IN  /\ initial[first.dep_stop_id] <= first.dep_time_s
            /\ \A i \in 1 .. Len(out) - 1 :
                  /\ feed[out[i]].arr_stop_id = feed[out[i + 1]].dep_stop_id
                  /\ feed[out[i]].arr_time_s <= feed[out[i + 1]].dep_time_s
            /\ last.arr_stop_id = dest
            /\ last.arr_time_s = arrival[dest]

(* The walk back ends, although the code's while loop has no other exit than a *)
(* stop without a predecessor: only a feed with a connection that leads back   *)
(* before one it follows ever fills the memory.                                *)
WalkBackEnds == phase = "killed" => ~NoEarlierFeeder(feed)
=============================================================================
