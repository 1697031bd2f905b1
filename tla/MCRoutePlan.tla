----------------------------- MODULE MCRoutePlan -----------------------------
(* Requests for TLC: the walks from one or two stops to the destination and to *)
(* one or two stops from the origin take up to a second and a half.            *)
EXTENDS RoutePlan, MCCsa

MCWalks(counts) ==
    {w \in [Stops -> {NoWalk, 1, 3}] :
        Cardinality({s \in Stops : w[s] # NoWalk}) \in counts}

MCQueries ==
    [preference : Preferences, depart_at : {1}, now : {0}, direct : {4},
     access : MCWalks({0, 1}), egress : MCWalks({2})]

MCInitialTimes == [Stops -> 0 .. 8 \cup {Infinity}]
===============================================================================
