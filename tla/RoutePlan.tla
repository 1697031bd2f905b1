------------------------------- MODULE RoutePlan -------------------------------
(* MultimodalRoutingService.calculate_route: walks from the origin to nearby   *)
(* stops start the connection scan of Csa, the best stop to walk on from ends  *)
(* it, and the journey becomes the legs of a Route; where no journey is found, *)
(* the route is one walk. Walks are given by their duration, of which their    *)
(* distance is a multiple. Times here are in Ticks of a second, those of the   *)
(* timetable in seconds: what int() drops matters.                             *)
EXTENDS Csa

CONSTANTS
    Origin, Destination,  \* the two points of a request
    NoWalk,               \* no stop nearby or no path in the street graph
    Ticks,                \* ticks in a second
    Dislike,              \* ticks a tick of walking counts more in least_walking
    Queries               \* requests, with the walks the street graph offers

Preferences == {"fastest", "least_walking"}

(* int() of a time of day.                                                     *)
Whole(ticks) == ticks \div Ticks

(* The other way: midnight of the day of depart_at is 0.                       *)
ServiceTime(seconds) == Ticks * seconds

(* Candidate stops, near enough and few enough, that a path leads to or from.  *)
Walkable(walks) == {s \in Stops : walks[s] # NoWalk}

Penalty(q, walk) == IF q.preference = "fastest" THEN 0 ELSE Dislike * walk

(* Definitions named ..._<Fault> are mutants of the definition below them.     *)
(* initial_time_s_by_stop: seconds_since_midnight drops the fraction of the    *)
(* departure, int() the one of the sum.                                        *)
InitialTimes_AtOnce(q) ==
    [s \in Stops |->
        IF s \in Walkable(q.access) THEN Whole(q.depart_at) ELSE Infinity]
InitialTimes(q) ==
    [s \in Stops |->
        IF s \in Walkable(q.access)
        THEN Whole(ServiceTime(Whole(q.depart_at))
                   + q.access[s] + Penalty(q, q.access[s]))
        ELSE Infinity]

ASSUME RoutePlanAssumption ==
    /\ Origin \notin Stops /\ Destination \notin Stops
    /\ NoWalk \notin Nat
    /\ Ticks \in Nat \ {0}
    /\ Dislike \in Nat
    /\ \A q \in Queries :
          /\ q.preference \in Preferences
          /\ q.depart_at \in Nat /\ q.now \in Nat /\ q.direct \in Nat
          /\ q.access \in [Stops -> Nat \cup {NoWalk}]
          /\ q.egress \in [Stops -> Nat \cup {NoWalk}]
          /\ InitialTimes(q) \in Initials

VARIABLES
    query,      \* the arguments of calculate_route, and what it will find
    stage,      \* "search", then "legs", then "route"
    ridden,     \* connections of the journey made into legs
    legs        \* the legs so far

planVars == <<query, stage, ridden, legs>>
allVars == <<vars, planVars>>

Modes == {"walk", "bus"}
Places == Stops \cup {Origin, Destination}
Legs == [mode : Modes, origin : Places, destination : Places,
         depart_at : Nat, arrive_at : Nat]

PlanInit ==
    /\ query \in Queries
    /\ initial = InitialTimes(query)
    /\ Init
    /\ stage = "search"
    /\ ridden = 0
    /\ legs = << >>

Accessible == \E s \in Stops : initial[s] < Infinity

SearchStep ==
    /\ stage = "search" /\ Accessible
    /\ Scan \/ TraceBack \/ TraceDone \/ OutOfMemory
    /\ UNCHANGED planVars

(* The stop the destination is best walked to from.                            *)
Cost(s) == ServiceTime(arrival[s]) + query.egress[s] + Penalty(query, query.egress[s])
Options == {s \in Walkable(query.egress) : arrival[s] < Infinity}

Best_Unwalked(s) == s \in Options /\ \A o \in Options : arrival[s] <= arrival[o]
Best(s) == s \in Options /\ \A o \in Options : Cost(s) <= Cost(o)

ChooseStop ==
    /\ stage = "search" /\ Accessible
    /\ StartTrace
    /\ Best(dest')
    /\ UNCHANGED planVars

(* NoPathFound: no stop to walk to, no stop to walk on from, or the best one   *)
(* is reached on foot. The walk then leaves now, not at depart_at.             *)
NoPathFound_ReachedOnly ==
    \/ phase = "scan" /\ ~Accessible
    \/ phase = "scan" /\ scanned = Len(feed) /\ Options = {}
NoPathFound ==
    \/ phase = "scan" /\ ~Accessible
    \/ phase = "scan" /\ scanned = Len(feed) /\ Options = {}
    \/ phase = "done" /\ out = << >>

WalkOnly ==
    /\ stage = "search" /\ NoPathFound
    /\ legs' = <<[mode |-> "walk", origin |-> Origin, destination |-> Destination,
                  depart_at |-> query.now, arrive_at |-> query.now + query.direct]>>
    /\ stage' = "route"
    /\ UNCHANGED <<vars, query, ridden>>

AccessStop == feed[out[1]].dep_stop_id

WalkToStop_JustInTime ==
    /\ stage = "search" /\ phase = "done" /\ out # << >>
    /\ legs' = <<[mode |-> "walk", origin |-> Origin, destination |-> AccessStop,
                  depart_at |-> ServiceTime(feed[out[1]].dep_time_s)
                                - query.access[AccessStop],
                  arrive_at |-> ServiceTime(feed[out[1]].dep_time_s)]>>
    /\ stage' = "legs"
    /\ UNCHANGED <<vars, query, ridden>>
WalkToStop ==
    /\ stage = "search" /\ phase = "done" /\ out # << >>
    /\ legs' = <<[mode |-> "walk", origin |-> Origin, destination |-> AccessStop,
                  depart_at |-> query.depart_at,
                  arrive_at |-> query.depart_at + query.access[AccessStop]]>>
    /\ stage' = "legs"
    /\ UNCHANGED <<vars, query, ridden>>

(* A leg lasts as long as the trip stays the same; which connections are of    *)
(* one trip is left open.                                                      *)
Board(c) ==
    legs' = Append(legs, [mode |-> "bus", origin |-> c.dep_stop_id,
                          destination |-> c.arr_stop_id,
                          depart_at |-> ServiceTime(c.dep_time_s),
                          arrive_at |-> ServiceTime(c.arr_time_s)])
StayOn_Alighted(c) ==
    legs' = [legs EXCEPT ![Len(legs)].arrive_at = ServiceTime(c.arr_time_s)]
StayOn(c) ==
    legs' = [legs EXCEPT ![Len(legs)].destination = c.arr_stop_id,
                         ![Len(legs)].arrive_at = ServiceTime(c.arr_time_s)]

RideOn ==
    /\ stage = "legs" /\ ridden < Len(out)
    /\ ridden' = ridden + 1
    /\ LET c == feed[out[ridden + 1]] IN Board(c) \/ (ridden > 0 /\ StayOn(c))
    /\ UNCHANGED <<vars, query, stage>>

WalkToDestination ==
    /\ stage = "legs" /\ ridden = Len(out)
    /\ LET last == legs[Len(legs)].arrive_at IN
       legs' = Append(legs, [mode |-> "walk", origin |-> dest,
                             destination |-> Destination, depart_at |-> last,
                             arrive_at |-> last + query.egress[dest]])
    /\ stage' = "route"
    /\ UNCHANGED <<vars, query, ridden>>

PlanNext ==
    \/ SearchStep \/ ChooseStop \/ WalkOnly
    \/ WalkToStop \/ RideOn \/ WalkToDestination

PlanSpec == PlanInit /\ [][PlanNext]_allVars

(* calculate_route runs to its end: it waits for nobody.                       *)
PlanFairSpec == PlanSpec /\ WF_allVars(PlanNext)

-------------------------------------------------------------------------------
PlanTypeOK ==
    /\ query \in Queries
    /\ stage \in {"search", "legs", "route"}
    /\ ridden \in 0 .. Len(out)
    /\ legs \in Seq(Legs)

(* The legs of a route lead from the origin to the destination without a gap,  *)
(* whatever the search found and however trips cut the journey into legs.      *)
LegsConnect ==
    stage = "route" =>
        /\ legs[1].origin = Origin
        /\ legs[Len(legs)].destination = Destination
        /\ \A i \in 1 .. Len(legs) - 1 : legs[i].destination = legs[i + 1].origin

(* No leg leaves before the one before it has arrived, except that a bus may   *)
(* leave less than two seconds before the walk to its stop ends: the fraction  *)
(* of a second is dropped of depart_at and again of the time at the stop.      *)
LegsInTime ==
    \A i \in 1 .. Len(legs) - 1 :
        IF i = 1 THEN legs[1].arrive_at < legs[2].depart_at + 2 * Ticks
        ELSE legs[i].arrive_at <= legs[i + 1].depart_at

(* The journey starts at a stop that a walk was computed to, so calculate_route *)
(* never takes its "Should be present; if not, recompute" branch.               *)
AccessStopKnown ==
    (phase = "done" /\ out # << >>) => query.access[AccessStop] # NoWalk

(* What a passenger who walks to the bus can ride: connections of the feed,    *)
(* each boarded where and after the one before it arrived, the first after the *)
(* walk from the origin, the last to a stop the destination can be walked to.  *)
Rides == UNION {[1 .. n -> 1 .. Len(feed)] : n \in 1 .. Len(feed)}

CanRide(r) ==
    LET first == feed[r[1]]
        last == feed[r[Len(r)]]
    IN  /\ first.dep_stop_id \in Walkable(query.access)
        /\ query.depart_at + query.access[first.dep_stop_id] <= ServiceTime(first.dep_time_s)
        /\ \A i \in 1 .. Len(r) - 1 :
              /\ feed[r[i]].arr_stop_id = feed[r[i + 1]].dep_stop_id
              /\ feed[r[i]].arr_time_s <= feed[r[i + 1]].dep_time_s
        /\ last.arr_stop_id \in Walkable(query.egress)

(* With "fastest" nobody who leaves at depart_at on foot and rides any          *)
(* connections of the feed is at the destination before a route by bus is.     *)
(* That holds on the feeds one pass of the search is enough for.               *)
FastestArrivesFirst ==
    (stage = "route" /\ legs[1].destination # Destination
      /\ query.preference = "fastest" /\ NoLateFeeder(feed))
    => \A r \in Rides : CanRide(r) =>
          LET last == feed[r[Len(r)]] IN
          legs[Len(legs)].arrive_at
             <= ServiceTime(last.arr_time_s) + query.egress[last.arr_stop_id]

(* "For UX: always provide at least a walking option." (line 292): whatever the *)
(* walks, a route comes out, unless a connection of the feed leads back before  *)
(* one it follows. load_feed lets such feeds in, and then nothing may come out: *)
(* the walk back never ends.                                                   *)
AlwaysARoute == NoEarlierFeeder(feed) => <>(stage = "route")
===============================================================================
