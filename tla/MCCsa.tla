-------------------------------- MODULE MCCsa --------------------------------
(* Small instances of Csa for TLC: every sorted feed of up to MaxConnections    *)
(* connections over the stops and the times 0 .. MaxTime, of which up to        *)
(* MaxBackward arrive before they depart.                                      *)
EXTENDS Csa, FiniteSets, TLC

CONSTANTS MaxTime, MaxConnections, MaxBackward

MCConnections ==
    {c \in [dep_stop_id : Stops, arr_stop_id : Stops, dep_time_s : 0 .. MaxTime, arr_time_s : 0 .. MaxTime] :
        c.dep_stop_id # c.arr_stop_id}

Key(c) == c.dep_time_s * (MaxTime + 1) + c.arr_time_s

MCFeeds ==
    {f \in UNION {[1 .. n -> MCConnections] : n \in 0 .. MaxConnections} :
        /\ \A i \in 1 .. Len(f) - 1 : Key(f[i]) <= Key(f[i + 1])
        /\ Cardinality({i \in 1 .. Len(f) : f[i].arr_time_s < f[i].dep_time_s}) <= MaxBackward}

(* One or two stops within walking distance of the origin.                     *)
MCInitials ==
    {a \in [Stops -> {0, 1, Infinity}] :
        Cardinality({s \in Stops : a[s] < Infinity}) \in {1, 2}}

Symmetry == Permutations(Stops)
=============================================================================
