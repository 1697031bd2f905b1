----------------------------- MODULE CsaTraveller -----------------------------
(* What "earliest" means: when the scan is over, a traveller leaves from any   *)
(* stop with an initial time and boards any connections of the feed it can.    *)
(* Wherever it gets, the search claims to have been there no later.            *)
EXTENDS Csa

VARIABLES
    where,   \* the stop the traveller is at
    time     \* when it got there

travelVars == <<feed, initial, arrival, prev, scanned, phase, dest, cur, out, where, time>>

TravelInit ==
    /\ Init
    /\ where \in {s \in Stops : initial[s] < Infinity}
    /\ time = initial[where]

Ride(k) ==
    /\ scanned = Len(feed)
    /\ feed[k].dep_stop_id = where
    /\ time <= feed[k].dep_time_s
    /\ where' = feed[k].arr_stop_id
    /\ time' = feed[k].arr_time_s
    /\ UNCHANGED vars

TravelNext ==
    \/ Next /\ UNCHANGED <<where, time>>
    \/ \E k \in 1 .. Len(feed) : Ride(k)

TravelSpec == TravelInit /\ [][TravelNext]_travelVars

(* csa.py:17 "Compute earliest arrival times": nobody reaches a stop earlier   *)
(* than the search says.                                                       *)
EarliestArrival == scanned = Len(feed) => arrival[where] <= time

(* The same of the feeds one pass is enough for: those in which no connection  *)
(* leads, in time, to one that precedes it.                                    *)
EarliestWithoutLateFeeder == NoLateFeeder(feed) => EarliestArrival
=============================================================================
