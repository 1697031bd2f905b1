---------------------------- MODULE RoutePlan_proofs ----------------------------
(* Proofs about the earliest arrival search, for all stops, feeds and initial  *)
(* times, and about the planner around it, for all walks and requests besides. *)
(* The search inside RoutePlan is Csa's, so what is proved of Csa holds of it. *)
EXTENDS RoutePlan, CsaTraveller, TLAPS, WellFoundedInduction

-------------------------------------------------------------------------------
(* The search: Csa and CsaTraveller.                                           *)

(* Before the scan is over nothing is traced back, and the input is one that   *)
(* CsaAssumption speaks of.                                                    *)
Shape ==
    /\ feed \in Feeds
    /\ initial \in Initials
    /\ phase # "scan" => scanned = Len(feed)
    /\ phase = "scan" => out = << >>
    /\ phase = "done" => prev[cur] = 0

(* The part of the journey already walked back leads from cur to dest.         *)
Partial ==
    phase # "scan" =>
        IF out = << >>
        THEN cur = dest
        ELSE /\ feed[out[1]].dep_stop_id = cur
             /\ arrival[cur] <= feed[out[1]].dep_time_s
             /\ NoEarlierFeeder(feed) =>
                   prev[cur] < out[1] /\ Len(out) + out[1] <= Len(feed) + 1
             /\ \A i \in 1 .. Len(out) - 1 :
                   /\ feed[out[i]].arr_stop_id = feed[out[i + 1]].dep_stop_id
                   /\ feed[out[i]].arr_time_s <= feed[out[i + 1]].dep_time_s
             /\ feed[out[Len(out)]].arr_stop_id = dest
             /\ feed[out[Len(out)]].arr_time_s = arrival[dest]

(* The scan only ever lowers an arrival time.                                  *)
NeverLater == \A s \in Stops : arrival[s] <= initial[s]

CsaInv ==
    /\ TypeOK
    /\ Shape
    /\ PredecessorsExplainArrivals
    /\ Partial
    /\ NeverLater
    /\ WalkBackEnds

-----------------------------------------------------------------------------
(* What the assumption says of the feed of a behaviour.                        *)
FeedOK ==
    /\ Infinity \in Nat
    /\ Len(feed) \in Nat
    /\ \A k \in 1 .. Len(feed) :
          /\ feed[k].dep_stop_id \in Stops
          /\ feed[k].arr_stop_id \in Stops
          /\ feed[k].dep_time_s \in 0 .. Infinity - 1
          /\ feed[k].arr_time_s \in 0 .. Infinity - 1
    /\ \A i, j \in 1 .. Len(feed) : i <= j => feed[i].dep_time_s <= feed[j].dep_time_s

LEMMA FeedFacts == Shape => FeedOK
<1>. SUFFICES ASSUME Shape PROVE FeedOK
  OBVIOUS
<1>1. /\ feed \in Seq(Connections)
      /\ SortedByDeparture(feed)
  BY CsaAssumption DEF Shape
<1>2. \A k \in 1 .. Len(feed) : feed[k] \in Connections
  BY <1>1
<1>3. \A c \in Connections : /\ c.dep_stop_id \in Stops /\ c.arr_stop_id \in Stops
                             /\ c.dep_time_s \in 0 .. Infinity - 1
                             /\ c.arr_time_s \in 0 .. Infinity - 1
  BY CsaAssumption DEF Connections, Times
<1>. QED
  BY <1>1, <1>2, <1>3, CsaAssumption DEF SortedByDeparture, FeedOK

(* What is asked of the feed below holds when its connections are sorted and    *)
(* do not arrive before they depart.                                           *)
LEMMA ForwardFeeds ==
    ASSUME NEW f, Len(f) \in Nat, SortedByDeparture(f),
           \A i \in 1 .. Len(f) : /\ f[i].dep_time_s \in Nat /\ f[i].arr_time_s \in Nat
                                  /\ f[i].arr_time_s >= f[i].dep_time_s
    PROVE  NoEarlierFeeder(f)
BY DEF SortedByDeparture, NoEarlierFeeder

LEMMA CsaInit == Init => CsaInv
<1>. SUFFICES ASSUME Init PROVE CsaInv
  OBVIOUS
<1>1. initial \in [Stops -> 0 .. Infinity] /\ Infinity \in Nat
  BY CsaAssumption DEF Init
<1>. QED
  BY <1>1, CsaAssumption
     DEF Init, CsaInv, TypeOK, Shape, PredecessorsExplainArrivals, Partial, Phases,
         NeverLater, WalkBackEnds

(* The numbers of a reachable state, without its sequences.                    *)
Numbers ==
    /\ FeedOK
    /\ arrival \in [Stops -> 0 .. Infinity]
    /\ scanned \in 0 .. Len(feed)
    /\ prev \in [Stops -> 0 .. scanned]

LEMMA NumberFacts == CsaInv => Numbers
BY FeedFacts DEF CsaInv, TypeOK, Numbers

(* A scan step that improves a stop, in terms of its connection.               *)
LEMMA ScanFacts ==
    ASSUME CsaInv, Scan, NEW n, n = scanned + 1, NEW c, c = feed[n]
    PROVE  /\ n \in 1 .. Len(feed) /\ scanned' = n /\ UNCHANGED <<feed, initial>>
           /\ c.dep_stop_id \in Stops /\ c.arr_stop_id \in Stops
           /\ c.dep_time_s \in Nat /\ c.arr_time_s \in 0 .. Infinity - 1
           /\ \/ ~Improves(c) /\ UNCHANGED <<arrival, prev>>
              \/ /\ arrival[c.dep_stop_id] <= c.dep_time_s
                 /\ c.arr_time_s < arrival[c.arr_stop_id]
                 /\ arrival' = [arrival EXCEPT ![c.arr_stop_id] = c.arr_time_s]
                 /\ prev' = [prev EXCEPT ![c.arr_stop_id] = n]
<1>1. Numbers
  BY NumberFacts
<1>2. n \in 1 .. Len(feed)
  BY <1>1 DEF Scan, Numbers, FeedOK
<1>3. /\ c.dep_stop_id \in Stops /\ c.arr_stop_id \in Stops
      /\ c.dep_time_s \in Nat /\ c.arr_time_s \in 0 .. Infinity - 1
  BY <1>1, <1>2 DEF Numbers, FeedOK
<1>. QED
  BY <1>2, <1>3 DEF Scan, Improves, input

LEMMA TypeStep == CsaInv /\ [Next]_vars => TypeOK' /\ Shape'
<1>. SUFFICES ASSUME CsaInv, [Next]_vars PROVE TypeOK' /\ Shape'
  OBVIOUS
<1>. USE DEF Phases, input, scan, trace
<1>1. CASE Scan
  <2>1. /\ scanned' \in 0 .. Len(feed)
        /\ arrival' \in [Stops -> 0 .. Infinity]
        /\ prev' \in [Stops -> 0 .. scanned']
    <3>. PICK n : n = scanned + 1
      OBVIOUS
    <3>. PICK c : c = feed[n]
      OBVIOUS
    <3>1. /\ n \in 1 .. Len(feed) /\ scanned' = n
          /\ c.arr_stop_id \in Stops /\ c.arr_time_s \in 0 .. Infinity - 1
          /\ \/ UNCHANGED <<arrival, prev>>
             \/ /\ arrival' = [arrival EXCEPT ![c.arr_stop_id] = c.arr_time_s]
                /\ prev' = [prev EXCEPT ![c.arr_stop_id] = n]
      BY <1>1, ScanFacts
    <3>2. c.arr_time_s \in 0 .. Infinity /\ n \in 0 .. n /\ 0 .. scanned \subseteq 0 .. n
      BY <3>1, NumberFacts DEF Numbers, FeedOK
    <3>. QED
      BY <3>1, <3>2, NumberFacts DEF Numbers
  <2>. QED
    BY <1>1, <2>1 DEF Scan, CsaInv, TypeOK, Shape
<1>2. CASE StartTrace
  BY <1>2 DEF StartTrace, CsaInv, TypeOK, Shape
<1>3. CASE TraceBack
  <2>1. prev[cur] \in 1 .. Len(feed) /\ feed[prev[cur]].dep_stop_id \in Stops
    BY <1>3, NumberFacts DEF TraceBack, CsaInv, TypeOK, Numbers, FeedOK
  <2>. QED
    BY <1>3, <2>1 DEF TraceBack, CsaInv, TypeOK, Shape
<1>4. CASE TraceDone
  BY <1>4 DEF TraceDone, CsaInv, TypeOK, Shape
<1>5. CASE OutOfMemory
  BY <1>5 DEF OutOfMemory, CsaInv, TypeOK, Shape
<1>6. CASE UNCHANGED vars
  BY <1>6 DEF vars, CsaInv, TypeOK, Shape
<1>. QED
  BY <1>1, <1>2, <1>3, <1>4, <1>5, <1>6 DEF Next

LEMMA NeverLaterStep == CsaInv /\ [Next]_vars => NeverLater'
<1>. SUFFICES ASSUME CsaInv, [Next]_vars PROVE NeverLater'
  OBVIOUS
<1>0. Numbers /\ NeverLater /\ initial \in [Stops -> 0 .. Infinity]
  BY NumberFacts DEF CsaInv, TypeOK
<1>1. CASE Scan
  <2>. PICK c : c = feed[scanned + 1]
    OBVIOUS
  <2>1. /\ UNCHANGED initial /\ c.arr_stop_id \in Stops /\ c.arr_time_s \in Nat
        /\ \/ UNCHANGED arrival
           \/ /\ c.arr_time_s < arrival[c.arr_stop_id]
              /\ arrival' = [arrival EXCEPT ![c.arr_stop_id] = c.arr_time_s]
    BY <1>0, <1>1, ScanFacts DEF Numbers, FeedOK
  <2>2. /\ arrival \in [Stops -> Nat] /\ initial \in [Stops -> Nat]
    BY <1>0 DEF Numbers, FeedOK
  <2>3. \A s \in Stops : arrival'[s] <= arrival[s] /\ arrival'[s] \in Nat
    BY <2>1, <2>2
  <2>. QED
    BY <1>0, <2>1, <2>2, <2>3 DEF NeverLater
<1>2. CASE StartTrace \/ TraceBack \/ TraceDone \/ OutOfMemory \/ UNCHANGED vars
  BY <1>0, <1>2
     DEF StartTrace, TraceBack, TraceDone, OutOfMemory, vars, input, scan, NeverLater
<1>. QED
  BY <1>1, <1>2 DEF Next

(* A connection that improves a stop cannot take away what the predecessors of *)
(* other stops were built on: their connections are boarded all the better     *)
(* when the stop is reached earlier. Where none leads back, no predecessor      *)
(* departs there at all: it would depart when the improved stop was not yet    *)
(* reached.                                                                    *)
LEMMA PredecessorStep == CsaInv /\ [Next]_vars => PredecessorsExplainArrivals'
<1>. SUFFICES ASSUME CsaInv, [Next]_vars PROVE PredecessorsExplainArrivals'
  OBVIOUS
<1>0. Numbers /\ PredecessorsExplainArrivals
  BY NumberFacts DEF CsaInv
<1>1. CASE Scan
  <2>. PICK n : n = scanned + 1
    OBVIOUS
  <2>. PICK c : c = feed[n]
    OBVIOUS
  <2>1. /\ n \in 1 .. Len(feed) /\ UNCHANGED <<feed, initial>>
        /\ c.dep_stop_id \in Stops /\ c.arr_stop_id \in Stops
        /\ c.dep_time_s \in Nat /\ c.arr_time_s \in 0 .. Infinity - 1
    BY <1>0, <1>1, ScanFacts DEF Numbers, FeedOK
  <2>2. CASE UNCHANGED <<arrival, prev>>
    BY <1>0, <2>1, <2>2 DEF PredecessorsExplainArrivals
  <2>3. CASE /\ arrival[c.dep_stop_id] <= c.dep_time_s
             /\ c.arr_time_s < arrival[c.arr_stop_id]
             /\ arrival' = [arrival EXCEPT ![c.arr_stop_id] = c.arr_time_s]
             /\ prev' = [prev EXCEPT ![c.arr_stop_id] = n]
    <3>1. ASSUME NoEarlierFeeder(feed) PROVE c.dep_stop_id # c.arr_stop_id
      <4>1. c.dep_stop_id = c.arr_stop_id => c.arr_time_s >= c.dep_time_s
        BY <2>1, <3>1 DEF NoEarlierFeeder
      <4>2. arrival[c.dep_stop_id] \in Nat
        BY <1>0, <2>1 DEF Numbers, FeedOK
      <4>. QED
        BY <2>1, <2>3, <4>1, <4>2
    <3>2. ASSUME NEW s \in Stops, s # c.arr_stop_id, prev[s] # 0
          PROVE /\ feed[prev[s]].dep_stop_id \in Stops /\ feed[prev[s]].dep_time_s \in Nat
                /\ arrival[feed[prev[s]].dep_stop_id] <= feed[prev[s]].dep_time_s
                /\ NoEarlierFeeder(feed) => feed[prev[s]].dep_stop_id # c.arr_stop_id
      <4>1. prev[s] \in 1 .. Len(feed) /\ prev[s] <= n
        BY <1>0, <2>1, <3>2 DEF Numbers
      <4>2. feed[prev[s]].dep_stop_id \in Stops /\ feed[prev[s]].dep_time_s \in Nat
        BY <1>0, <2>1, <4>1 DEF Numbers, FeedOK
      <4>3. arrival[feed[prev[s]].dep_stop_id] <= feed[prev[s]].dep_time_s
        BY <1>0, <3>2 DEF PredecessorsExplainArrivals
      <4>4. arrival[feed[prev[s]].dep_stop_id] \in Nat /\ arrival[c.arr_stop_id] \in Nat
        BY <1>0, <2>1, <4>2 DEF Numbers, FeedOK
      <4>5. ASSUME NoEarlierFeeder(feed), feed[prev[s]].dep_stop_id = c.arr_stop_id PROVE FALSE
        <5>1. c.arr_time_s >= feed[prev[s]].dep_time_s
          BY <2>1, <4>1, <4>5 DEF NoEarlierFeeder
        <5>. QED
          BY <2>1, <2>3, <4>2, <4>3, <4>4, <4>5, <5>1
      <4>. QED
        BY <4>2, <4>3, <4>5
    <3>3. ASSUME NEW s \in Stops, s # c.arr_stop_id
          PROVE arrival'[s] = arrival[s] /\ prev'[s] = prev[s]
      BY <1>0, <2>3, <3>3 DEF Numbers
    <3>4. /\ arrival'[c.arr_stop_id] = c.arr_time_s
          /\ prev'[c.arr_stop_id] = n
      BY <1>0, <2>1, <2>3 DEF Numbers
    <3>5. prev[c.dep_stop_id] < n /\ n # 0
      BY <1>0, <2>1 DEF Numbers
    <3>6. \A s \in Stops : arrival'[s] \in Nat /\ arrival[s] \in Nat /\ arrival'[s] <= arrival[s]
      BY <1>0, <2>1, <2>3, <3>3, <3>4 DEF Numbers, FeedOK
    <3>7. ASSUME NEW s \in Stops
          PROVE IF prev'[s] = 0
                THEN arrival'[s] = initial[s]
                ELSE /\ feed[prev'[s]].arr_stop_id = s
                     /\ feed[prev'[s]].arr_time_s = arrival'[s]
                     /\ arrival'[feed[prev'[s]].dep_stop_id] <= feed[prev'[s]].dep_time_s
                     /\ NoEarlierFeeder(feed) =>
                           prev'[feed[prev'[s]].dep_stop_id] < prev'[s]
      <4>1. CASE s = c.arr_stop_id
        <5>1. arrival'[c.dep_stop_id] <= c.dep_time_s
          BY <2>1, <2>3, <3>6
        <5>2. NoEarlierFeeder(feed) => prev'[c.dep_stop_id] < n
          BY <2>1, <3>1, <3>3, <3>5
        <5>. QED
          BY <2>1, <3>4, <3>5, <4>1, <5>1, <5>2
      <4>2. CASE s # c.arr_stop_id
        <5>1. CASE prev[s] = 0
          BY <1>0, <3>3, <4>2, <5>1 DEF PredecessorsExplainArrivals
        <5>2. CASE prev[s] # 0
          <6>. PICK d : d = feed[prev[s]]
            OBVIOUS
          <6>1. /\ d.arr_stop_id = s /\ d.arr_time_s = arrival[s]
                /\ NoEarlierFeeder(feed) => prev[d.dep_stop_id] < prev[s]
            BY <1>0, <5>2 DEF PredecessorsExplainArrivals
          <6>2. /\ d.dep_stop_id \in Stops /\ d.dep_time_s \in Nat
                /\ arrival[d.dep_stop_id] <= d.dep_time_s
                /\ NoEarlierFeeder(feed) => d.dep_stop_id # c.arr_stop_id
            BY <3>2, <4>2, <5>2
          <6>3. arrival'[d.dep_stop_id] <= d.dep_time_s
            BY <3>6, <6>2
          <6>. QED
            BY <3>3, <4>2, <5>2, <6>1, <6>2, <6>3
        <5>. QED
          BY <5>1, <5>2
      <4>. QED
        BY <4>1, <4>2
    <3>. QED
      BY <2>1, <3>7 DEF PredecessorsExplainArrivals
  <2>. QED
    BY <1>1, <2>2, <2>3, ScanFacts
<1>2. CASE StartTrace \/ TraceBack \/ TraceDone \/ OutOfMemory \/ UNCHANGED vars
  BY <1>0, <1>2
     DEF StartTrace, TraceBack, TraceDone, OutOfMemory, vars, input, scan,
         PredecessorsExplainArrivals
<1>. QED
  BY <1>1, <1>2 DEF Next

(* Putting a position in front of a sequence.                                  *)
LEMMA PrependFacts ==
    ASSUME NEW S, NEW q \in Seq(S), NEW k \in S, q # << >>
    PROVE  /\ Len(<<k>> \o q) = Len(q) + 1
           /\ Len(q) \in Nat \ {0}
           /\ <<k>> \o q # << >>
           /\ (<<k>> \o q)[1] = k
           /\ (<<k>> \o q)[2] = q[1]
           /\ (<<k>> \o q)[Len(q) + 1] = q[Len(q)]
           /\ \A i \in 1 .. Len(q) : (<<k>> \o q)[i + 1] = q[i]
<1>1. \A i \in 1 .. Len(q) : (<<k>> \o q)[i + 1] = q[i]
  OBVIOUS
<1>2. Len(q) \in Nat \ {0}
  OBVIOUS
<1>. QED
  BY <1>1, <1>2

LEMMA PartialStep == CsaInv /\ [Next]_vars => Partial'
<1>. SUFFICES ASSUME CsaInv, [Next]_vars PROVE Partial'
  OBVIOUS
<1>. USE DEF input, scan, trace
<1>1. CASE Scan
  BY <1>1 DEF Scan, Partial
<1>2. CASE StartTrace
  BY <1>2 DEF StartTrace, Partial, CsaInv, Shape
<1>3. CASE TraceBack
  <2>. DEFINE k == prev[cur]
  <2>1. /\ k \in 1 .. Len(feed) /\ out' = <<k>> \o out /\ cur' = feed[k].dep_stop_id
        /\ UNCHANGED <<feed, arrival, prev, dest, phase>> /\ phase = "trace" /\ cur \in Stops
    BY <1>3, NumberFacts DEF TraceBack, CsaInv, TypeOK, Numbers, FeedOK
  <2>2. /\ feed[k].arr_stop_id = cur /\ feed[k].arr_time_s = arrival[cur]
        /\ arrival[feed[k].dep_stop_id] <= feed[k].dep_time_s
        /\ NoEarlierFeeder(feed) => prev[feed[k].dep_stop_id] < k
    BY <1>3, <2>1 DEF CsaInv, PredecessorsExplainArrivals, TraceBack
  <2>3. out \in Seq(1 .. Len(feed))
    BY DEF CsaInv, TypeOK
  <2>4. CASE out = << >>
    <3>1. cur = dest /\ out' = <<k>> /\ Len(out') = 1
      BY <2>1, <2>3, <2>4 DEF CsaInv, Partial
    <3>. QED
      BY <2>1, <2>2, <3>1 DEF Partial
  <2>5. CASE out # << >>
    <3>. HIDE DEF k
    <3>1. /\ Len(out') = Len(out) + 1 /\ Len(out) \in Nat \ {0} /\ out' # << >>
          /\ out'[1] = k /\ out'[2] = out[1] /\ out'[Len(out')] = out[Len(out)]
          /\ \A i \in 1 .. Len(out) : out'[i + 1] = out[i]
      BY <2>1, <2>3, <2>5, PrependFacts
    <3>2. Partial /\ phase # "scan"
      BY <2>1 DEF CsaInv
    <3>3. ASSUME NEW i \in 1 .. Len(out') - 1
          PROVE /\ feed[out'[i]].arr_stop_id = feed[out'[i + 1]].dep_stop_id
                /\ feed[out'[i]].arr_time_s <= feed[out'[i + 1]].dep_time_s
      <4>1. CASE i = 1
        BY <2>2, <2>5, <3>1, <3>2, <4>1 DEF Partial
      <4>2. CASE i # 1
        <5>1. i - 1 \in 1 .. Len(out) - 1 /\ (i - 1) + 1 = i
          BY <3>1, <4>2
        <5>2. out'[i] = out[i - 1] /\ out'[i + 1] = out[i]
          BY <3>1, <5>1
        <5>. QED
          BY <2>5, <3>2, <5>1, <5>2 DEF Partial
      <4>. QED
        BY <4>1, <4>2
    <3>4. ASSUME NoEarlierFeeder(feed) PROVE Len(out') + out'[1] <= Len(feed) + 1
      <4>1. prev[cur] < out[1] /\ Len(out) + out[1] <= Len(feed) + 1
        BY <2>5, <3>2, <3>4 DEF Partial
      <4>2. k < out[1] /\ out[1] \in Nat /\ k \in Nat /\ Len(feed) \in Nat
        BY <2>1, <2>3, <2>5, <4>1, NumberFacts DEF k, Numbers, FeedOK
      <4>. QED
        BY <3>1, <4>1, <4>2
    <3>. QED
      BY <2>1, <2>2, <2>5, <3>1, <3>2, <3>3, <3>4 DEF Partial
  <2>. QED
    BY <2>4, <2>5
<1>4. CASE TraceDone \/ OutOfMemory
  BY <1>4 DEF TraceDone, OutOfMemory, CsaInv, Partial
<1>5. CASE UNCHANGED vars
  BY <1>5 DEF vars, CsaInv, Partial
<1>. QED
  BY <1>1, <1>2, <1>3, <1>4, <1>5 DEF Next

(* The memory is full only after more steps than the connections before the    *)
(* last one allow, when predecessors lead strictly back.                       *)
LEMMA WalkBackStep == CsaInv /\ [Next]_vars => WalkBackEnds'
<1>. SUFFICES ASSUME CsaInv, [Next]_vars PROVE WalkBackEnds'
  OBVIOUS
<1>1. CASE OutOfMemory
  <2>. SUFFICES ASSUME NoEarlierFeeder(feed) PROVE FALSE
    BY <1>1 DEF OutOfMemory, input, WalkBackEnds
  <2>1. /\ Len(feed) \in Nat /\ Len(feed) <= Memory /\ Memory \in Nat
        /\ Len(out) = Memory /\ out \in Seq(1 .. Len(feed))
        /\ prev[cur] \in 1 .. Len(feed)
    BY <1>1, NumberFacts, CsaAssumption
       DEF OutOfMemory, CsaInv, TypeOK, Shape, Numbers, FeedOK
  <2>2. out # << >>
    BY <2>1
  <2>3. prev[cur] < out[1] /\ Len(out) + out[1] <= Len(feed) + 1
    BY <1>1, <2>2 DEF OutOfMemory, CsaInv, Partial
  <2>4. out[1] \in 1 .. Len(feed)
    BY <2>1, <2>2
  <2>. QED
    BY <2>1, <2>3, <2>4
<1>2. CASE Scan \/ StartTrace \/ TraceBack \/ TraceDone \/ UNCHANGED vars
  BY <1>2 DEF Scan, StartTrace, TraceBack, TraceDone, vars, input, CsaInv, WalkBackEnds
<1>. QED
  BY <1>1, <1>2 DEF Next

LEMMA CsaStep == CsaInv /\ [Next]_vars => CsaInv'
BY TypeStep, NeverLaterStep, PredecessorStep, PartialStep, WalkBackStep DEF CsaInv

(* The search and the walk back keep their types on every feed.                *)
THEOREM CsaTypeCorrect == Spec => []TypeOK
<1>1. CsaInv => TypeOK
  BY DEF CsaInv
<1>. QED
  BY <1>1, CsaInit, CsaStep, PTL DEF Spec

(* On every sorted feed predecessors explain arrival times, and they form no   *)
(* cycle where no connection leads back before one it follows.                 *)
THEOREM PredecessorsHold == Spec => []PredecessorsExplainArrivals
<1>1. CsaInv => PredecessorsExplainArrivals
  BY DEF CsaInv
<1>. QED
  BY <1>1, CsaInit, CsaStep, PTL DEF Spec

(* Whatever reconstruct_connections returns can be travelled from an initial   *)
(* stop and arrives when the search said.                                      *)
THEOREM JourneyHolds == Spec => []JourneyCanBeTravelled
<1>1. CsaInv => JourneyCanBeTravelled
  BY DEF CsaInv, TypeOK, Shape, Partial, PredecessorsExplainArrivals, JourneyCanBeTravelled
<1>. QED
  BY <1>1, CsaInit, CsaStep, PTL DEF Spec

(* The walk back ends on every feed without a connection that leads back before *)
(* one it follows, however little memory there is beyond the feed itself.      *)
THEOREM WalkBackHolds == Spec => []WalkBackEnds
<1>1. CsaInv => WalkBackEnds
  BY DEF CsaInv
<1>. QED
  BY <1>1, CsaInit, CsaStep, PTL DEF Spec

-----------------------------------------------------------------------------
(* A connection that improves its arrival stop opens no connection scanned     *)
(* before it: it comes too late for those that depart there.                   *)
LEMMA OnePassStep ==
    ASSUME CsaInv, NoLateFeeder(feed), OnePassSuffices, [Next]_vars
    PROVE  OnePassSuffices'
<1>0. Numbers
  BY NumberFacts
<1>1. CASE Scan
  <2>. PICK n : n = scanned + 1
    OBVIOUS
  <2>. PICK c : c = feed[n]
    OBVIOUS
  <2>1. /\ n \in 1 .. Len(feed) /\ scanned' = n /\ UNCHANGED feed
        /\ c.dep_stop_id \in Stops /\ c.arr_stop_id \in Stops
        /\ c.dep_time_s \in Nat /\ c.arr_time_s \in 0 .. Infinity - 1
        /\ \A k \in 1 .. scanned :
              c.arr_stop_id = feed[k].dep_stop_id => c.arr_time_s > feed[k].dep_time_s
    <3>2. /\ n \in 1 .. Len(feed) /\ scanned' = n /\ UNCHANGED feed
          /\ c.dep_stop_id \in Stops /\ c.arr_stop_id \in Stops
          /\ c.dep_time_s \in Nat /\ c.arr_time_s \in 0 .. Infinity - 1
      BY <1>0, <1>1, ScanFacts DEF Numbers, FeedOK
    <3>3. \A k \in 1 .. scanned : k \in 1 .. Len(feed) /\ k < n
      BY <1>0 DEF Numbers, FeedOK
    <3>. QED
      BY <3>2, <3>3 DEF NoLateFeeder
  <2>2. CASE ~Improves(c) /\ UNCHANGED <<arrival, prev>>
    <3>1. arrival[c.dep_stop_id] <= c.dep_time_s => arrival[c.arr_stop_id] <= c.arr_time_s
      BY <1>0, <2>1, <2>2 DEF Improves, Numbers, FeedOK
    <3>2. \A k \in 1 .. n : k = n \/ k \in 1 .. scanned
      BY <1>0 DEF Numbers, FeedOK
    <3>. QED
      BY <2>1, <2>2, <3>1, <3>2 DEF OnePassSuffices
  <2>3. CASE /\ arrival[c.dep_stop_id] <= c.dep_time_s
             /\ c.arr_time_s < arrival[c.arr_stop_id]
             /\ arrival' = [arrival EXCEPT ![c.arr_stop_id] = c.arr_time_s]
    <3>1. /\ arrival'[c.arr_stop_id] = c.arr_time_s
          /\ \A s \in Stops \ {c.arr_stop_id} : arrival'[s] = arrival[s]
      BY <1>0, <2>1, <2>3 DEF Numbers
    <3>2. \A s \in Stops : arrival'[s] <= arrival[s] /\ arrival[s] \in Nat /\ arrival'[s] \in Nat
      BY <1>0, <2>1, <2>3, <3>1 DEF Numbers, FeedOK
    <3>3. ASSUME NEW k \in 1 .. scanned, arrival'[feed[k].dep_stop_id] <= feed[k].dep_time_s
          PROVE arrival'[feed[k].arr_stop_id] <= feed[k].arr_time_s
      <4>1. /\ feed[k].dep_stop_id \in Stops /\ feed[k].arr_stop_id \in Stops
            /\ feed[k].dep_time_s \in Nat /\ feed[k].arr_time_s \in Nat
        BY <1>0 DEF Numbers, FeedOK
      <4>2. feed[k].dep_stop_id # c.arr_stop_id
        BY <2>1, <3>1, <3>3, <4>1
      <4>3. arrival[feed[k].dep_stop_id] <= feed[k].dep_time_s
        BY <3>1, <3>3, <4>1, <4>2
      <4>4. arrival[feed[k].arr_stop_id] <= feed[k].arr_time_s
        BY <4>3 DEF OnePassSuffices
      <4>. QED
        BY <3>2, <4>1, <4>4
    <3>4. \A k \in 1 .. n : k = n \/ k \in 1 .. scanned
      BY <1>0 DEF Numbers, FeedOK
    <3>5. arrival'[c.arr_stop_id] <= c.arr_time_s
      BY <2>1, <3>1
    <3>. QED
      BY <2>1, <3>3, <3>4, <3>5 DEF OnePassSuffices
  <2>. QED
    BY <1>1, <2>2, <2>3, ScanFacts
<1>2. CASE StartTrace \/ TraceBack \/ TraceDone \/ OutOfMemory \/ UNCHANGED vars
  BY <1>2
     DEF StartTrace, TraceBack, TraceDone, OutOfMemory, vars, input, scan, OnePassSuffices
<1>. QED
  BY <1>1, <1>2 DEF Next

(* The feed never changes, so what holds of it goes on holding.                *)
OnePassInv == CsaInv /\ (NoLateFeeder(feed) => OnePassSuffices)

LEMMA FeedStays == [Next]_vars => UNCHANGED <<feed, initial>>
BY DEF Next, Scan, StartTrace, TraceBack, TraceDone, OutOfMemory, input, vars

LEMMA OnePassInvInit == Init => OnePassInv
BY CsaInit DEF OnePassInv, Init, OnePassSuffices

LEMMA OnePassInvStep == OnePassInv /\ [Next]_vars => OnePassInv'
BY CsaStep, OnePassStep, FeedStays DEF OnePassInv

(* One pass over the connections is enough on every feed without a late feeder.*)
THEOREM OnePassHolds == Spec => [](NoLateFeeder(feed) => OnePassSuffices)
<1>1. OnePassInv => (NoLateFeeder(feed) => OnePassSuffices)
  BY DEF OnePassInv
<1>. QED
  BY <1>1, OnePassInvInit, OnePassInvStep, PTL DEF Spec

-----------------------------------------------------------------------------
(* The traveller has not overtaken the search.                                 *)
TravelInv ==
    /\ OnePassInv
    /\ where \in Stops
    /\ time \in Nat
    /\ NoLateFeeder(feed) => arrival[where] <= time

LEMMA TravelStep == TravelInv /\ [TravelNext]_travelVars => TravelInv'
<1>. SUFFICES ASSUME TravelInv, [TravelNext]_travelVars PROVE TravelInv'
  OBVIOUS
<1>0. OnePassInv /\ CsaInv /\ Numbers
  BY NumberFacts DEF TravelInv, OnePassInv
<1>1. CASE Next /\ UNCHANGED <<where, time>>
  <2>1. OnePassInv' /\ UNCHANGED feed
    BY <1>0, <1>1, OnePassInvStep, FeedStays
  <2>2. arrival'[where] <= arrival[where]
    <3>1. CASE Scan
      <4>. PICK c : c = feed[scanned + 1]
        OBVIOUS
      <4>1. CASE UNCHANGED arrival
        BY <1>0, <4>1 DEF TravelInv, Numbers
      <4>2. CASE c.arr_time_s < arrival[c.arr_stop_id]
                 /\ arrival' = [arrival EXCEPT ![c.arr_stop_id] = c.arr_time_s]
        BY <1>0, <3>1, <4>2, ScanFacts DEF TravelInv, Numbers, FeedOK
      <4>. QED
        BY <1>0, <3>1, <4>1, <4>2, ScanFacts
    <3>2. CASE StartTrace \/ TraceBack \/ TraceDone \/ OutOfMemory
      BY <1>0, <3>2
         DEF StartTrace, TraceBack, TraceDone, OutOfMemory, scan, TravelInv, Numbers, FeedOK
    <3>. QED
      BY <1>1, <3>1, <3>2 DEF Next
  <2>3. arrival'[where] \in Nat /\ arrival[where] \in Nat
    BY <1>0, <2>1, NumberFacts DEF TravelInv, OnePassInv, Numbers, FeedOK, CsaInv, TypeOK
  <2>. QED
    BY <1>1, <2>1, <2>2, <2>3 DEF TravelInv
<1>2. ASSUME NEW k \in 1 .. Len(feed), Ride(k) PROVE TravelInv'
  <2>1. OnePassInv'
    BY <1>0, <1>2, OnePassInvStep DEF Ride
  <2>2. where' = feed[k].arr_stop_id /\ time' = feed[k].arr_time_s /\ UNCHANGED <<feed, arrival>>
    BY <1>2 DEF Ride, vars
  <2>3. /\ feed[k].dep_stop_id \in Stops /\ feed[k].arr_stop_id \in Stops
        /\ feed[k].dep_time_s \in Nat /\ feed[k].arr_time_s \in Nat
    BY <1>0 DEF Numbers, FeedOK
  <2>4. ASSUME NoLateFeeder(feed) PROVE arrival[feed[k].arr_stop_id] <= feed[k].arr_time_s
    <3>1. arrival[feed[k].dep_stop_id] <= feed[k].dep_time_s
      BY <1>0, <1>2, <2>3, <2>4 DEF Ride, TravelInv, Numbers, FeedOK
    <3>. QED
      BY <1>0, <1>2, <2>4, <3>1 DEF Ride, OnePassInv, OnePassSuffices
  <2>. QED
    BY <2>1, <2>2, <2>3, <2>4 DEF TravelInv
<1>3. CASE UNCHANGED travelVars
  <2>1. OnePassInv'
    BY <1>0, <1>3, OnePassInvStep DEF travelVars, vars
  <2>. QED
    BY <1>3, <2>1 DEF travelVars, TravelInv
<1>. QED
  BY <1>1, <1>2, <1>3 DEF TravelNext

(* The search is optimal on feeds without late feeders: nobody who leaves from *)
(* the initial stops reaches a stop earlier than the search says.              *)
THEOREM EarliestHolds == TravelSpec => []EarliestWithoutLateFeeder
<1>1. TravelInit => TravelInv
  <2>. SUFFICES ASSUME TravelInit PROVE TravelInv
    OBVIOUS
  <2>1. initial \in [Stops -> 0 .. Infinity] /\ Infinity \in Nat
    BY CsaAssumption DEF TravelInit, Init
  <2>. QED
    BY <2>1, OnePassInvInit DEF TravelInit, TravelInv, Init
<1>2. TravelInv => EarliestWithoutLateFeeder
  BY DEF TravelInv, EarliestWithoutLateFeeder, EarliestArrival
<1>. QED
  BY <1>1, <1>2, TravelStep, PTL DEF TravelSpec

-------------------------------------------------------------------------------
(* The planner: RoutePlan.                                                     *)
(* calculate_route searches as Csa does, whatever it does besides.             *)
LEMMA PlanStepSearches == [PlanNext]_allVars => [Next]_vars
BY DEF PlanNext, SearchStep, ChooseStop, WalkOnly, WalkToStop, RideOn,
       WalkToDestination, Next, allVars

-------------------------------------------------------------------------------
(* What the assumptions say of the request of a behaviour.                     *)
QueryOK ==
    /\ query \in Queries
    /\ Ticks \in Nat \ {0} /\ Dislike \in Nat
    /\ query.depart_at \in Nat /\ query.now \in Nat /\ query.direct \in Nat
    /\ query.access \in [Stops -> Nat \cup {NoWalk}]
    /\ query.egress \in [Stops -> Nat \cup {NoWalk}]

LEMMA QueryFacts == query \in Queries => QueryOK
BY RoutePlanAssumption DEF QueryOK

(* Dropping the fraction of a second twice loses less than two seconds.        *)
LEMMA WholeFacts ==
    ASSUME NEW t \in Nat
    PROVE  /\ Whole(t) \in Nat
           /\ Ticks * Whole(t) <= t
           /\ t < Ticks * Whole(t) + Ticks
BY RoutePlanAssumption DEF Whole

LEMMA ProductFacts == ASSUME NEW n \in Nat, NEW a \in Nat, NEW b \in Nat, a <= b
                      PROVE  n * a \in Nat /\ n * b \in Nat /\ n * a <= n * b
OBVIOUS

LEMMA InitialTimeFacts ==
    ASSUME QueryOK, NEW s \in Stops, NEW t \in Nat, InitialTimes(query)[s] <= t,
           t < Infinity
    PROVE  /\ query.access[s] \in Nat
           /\ query.depart_at + query.access[s] < Ticks * t + 2 * Ticks
<1>1. Infinity \in Nat /\ NoWalk \notin Nat
  BY CsaAssumption, RoutePlanAssumption
<1>2. query.access[s] \in Nat
  BY <1>1 DEF QueryOK, InitialTimes, Walkable, ServiceTime
<1>. DEFINE a == query.access[s]
            d == query.depart_at
            p == Penalty(query, a)
            w == Ticks * Whole(d) + a + p
<1>3. p \in Nat
  BY <1>2 DEF QueryOK, Penalty
<1>4. Whole(d) \in Nat /\ Ticks * Whole(d) \in Nat /\ d < Ticks * Whole(d) + Ticks
  BY WholeFacts, ProductFacts DEF QueryOK
<1>5. w \in Nat
  BY <1>2, <1>3, <1>4
<1>6. Whole(w) \in Nat /\ w < Ticks * Whole(w) + Ticks
  BY <1>5, WholeFacts
<1>7. Whole(w) <= t
  BY <1>1, <1>2 DEF InitialTimes, Walkable, ServiceTime
<1>8. Ticks * Whole(w) <= Ticks * t /\ Ticks * Whole(w) \in Nat /\ Ticks * t \in Nat
  BY <1>6, <1>7, ProductFacts DEF QueryOK
<1>9. w < Ticks * t + Ticks
  BY <1>5, <1>6, <1>8 DEF QueryOK
<1>. QED
  BY <1>2, <1>3, <1>4, <1>8, <1>9 DEF QueryOK

-------------------------------------------------------------------------------
(* A journey is made into legs only when it is complete, and it leads to the   *)
(* stop that was chosen.                                                       *)
Chosen ==
    /\ stage \in {"search", "legs", "route"}
    /\ phase # "scan" => Best(dest)
    /\ stage = "search" => ridden = 0 /\ legs = << >>
    /\ stage = "legs" => phase = "done" /\ out # << >>

(* The legs so far lead to where the last connection that was made into one    *)
(* arrives.                                                                    *)
LegsSoFar ==
    stage = "legs" =>
        /\ legs # << >>
        /\ legs[1].origin = Origin /\ legs[1].destination \in Stops
        /\ legs[1].arrive_at < Ticks * feed[out[1]].dep_time_s + 2 * Ticks
        /\ \A i \in 1 .. Len(legs) - 1 : legs[i].destination = legs[i + 1].origin
        /\ IF ridden = 0
           THEN Len(legs) = 1 /\ legs[1].destination = AccessStop
           ELSE /\ Len(legs) > 1
                /\ legs[Len(legs)].destination = feed[out[ridden]].arr_stop_id
                /\ legs[Len(legs)].arrive_at = Ticks * feed[out[ridden]].arr_time_s

PlanInv ==
    /\ CsaInv
    /\ OnePassInv
    /\ initial = InitialTimes(query)
    /\ Chosen
    /\ PlanTypeOK
    /\ LegsSoFar
    /\ LegsConnect
    /\ LegsInTime
    /\ FastestArrivesFirst

LEMMA PlanInitial == PlanInit => PlanInv
BY CsaInit, OnePassInvInit DEF PlanInit, Init, PlanInv, Chosen, PlanTypeOK, LegsSoFar, LegsConnect,
               LegsInTime, FastestArrivesFirst

(* The journey that was found, in the terms its legs are built from.           *)
Journey ==
    /\ QueryOK /\ Numbers /\ Len(out) \in Nat \ {0}
    /\ \A i \in 1 .. Len(out) :
          /\ out[i] \in 1 .. Len(feed)
          /\ feed[out[i]].dep_stop_id \in Stops /\ feed[out[i]].arr_stop_id \in Stops
          /\ feed[out[i]].dep_time_s \in Nat /\ feed[out[i]].arr_time_s \in Nat
    /\ \A i \in 1 .. Len(out) - 1 :
          /\ feed[out[i]].arr_stop_id = feed[out[i + 1]].dep_stop_id
          /\ feed[out[i]].arr_time_s <= feed[out[i + 1]].dep_time_s
    /\ feed[out[Len(out)]].arr_stop_id = dest
    /\ feed[out[Len(out)]].arr_time_s = arrival[dest]
    /\ AccessStop \in Stops
    /\ query.access[AccessStop] \in Nat
    /\ query.depart_at + query.access[AccessStop]
          < Ticks * feed[out[1]].dep_time_s + 2 * Ticks
    /\ dest \in Stops /\ query.egress[dest] \in Nat

LEMMA JourneyFacts ==
    ASSUME PlanInv, phase = "done", out # << >>
    PROVE  Journey
<1>1. QueryOK /\ Numbers
  BY QueryFacts, NumberFacts DEF PlanInv, PlanTypeOK
<1>2. out \in Seq(1 .. Len(feed)) /\ dest \in Stops /\ Len(out) \in Nat \ {0}
  BY DEF PlanInv, CsaInv, TypeOK
<1>3. \A i \in 1 .. Len(out) :
          /\ out[i] \in 1 .. Len(feed)
          /\ feed[out[i]].dep_stop_id \in Stops /\ feed[out[i]].arr_stop_id \in Stops
          /\ feed[out[i]].dep_time_s \in Nat /\ feed[out[i]].arr_time_s \in Nat
          /\ feed[out[i]].dep_time_s < Infinity
  <2>1. \A k \in 1 .. Len(feed) :
          /\ feed[k].dep_stop_id \in Stops /\ feed[k].arr_stop_id \in Stops
          /\ feed[k].dep_time_s \in Nat /\ feed[k].arr_time_s \in Nat
          /\ feed[k].dep_time_s < Infinity
    BY <1>1 DEF Numbers, FeedOK
  <2>. QED
    BY <1>2, <2>1
<1>4. JourneyCanBeTravelled
  BY DEF PlanInv, CsaInv, TypeOK, Shape, Partial, PredecessorsExplainArrivals,
         JourneyCanBeTravelled
<1>5. /\ initial[AccessStop] <= feed[out[1]].dep_time_s
      /\ \A i \in 1 .. Len(out) - 1 :
            /\ feed[out[i]].arr_stop_id = feed[out[i + 1]].dep_stop_id
            /\ feed[out[i]].arr_time_s <= feed[out[i + 1]].dep_time_s
      /\ feed[out[Len(out)]].arr_stop_id = dest
      /\ feed[out[Len(out)]].arr_time_s = arrival[dest]
  BY <1>4 DEF JourneyCanBeTravelled, AccessStop
<1>6. AccessStop \in Stops
  BY <1>2, <1>3 DEF AccessStop
<1>7. /\ query.access[AccessStop] \in Nat
      /\ query.depart_at + query.access[AccessStop]
            < Ticks * feed[out[1]].dep_time_s + 2 * Ticks
  BY <1>1, <1>2, <1>3, <1>5, <1>6, InitialTimeFacts DEF PlanInv
<1>8. query.egress[dest] \in Nat
  <2>1. Best(dest)
    BY DEF PlanInv, Chosen
  <2>. QED
    BY <1>1, <1>2, <2>1 DEF Best, Options, Walkable, QueryOK
<1>. QED
  BY <1>1, <1>2, <1>3, <1>5, <1>6, <1>7, <1>8 DEF Journey

-------------------------------------------------------------------------------
(* Any set of naturals that is not empty has a least member.                   *)
LEMMA LeastNat ==
    ASSUME NEW S \in SUBSET Nat, NEW n \in S
    PROVE  \E m \in S : \A k \in S : m <= k
<1>. DEFINE R == {p \in Nat \X Nat : p[1] < p[2]}
<1>1. IsWellFoundedOn(R, Nat)
  BY NatLessThanWellFounded DEF OpToRel
<1>2. PICK m \in S : \A k \in S : <<k, m>> \notin R
  <2>. HIDE DEF R
  <2>. QED
    BY <1>1, WFMin
<1>3. ASSUME NEW k \in S PROVE m <= k
  <2>1. ~(k < m)
    BY <1>2
  <2>. QED
    BY <2>1
<1>. QED
  BY <1>3

LEMMA ProductCancels == ASSUME NEW n \in Nat \ {0}, NEW a \in Nat, NEW b \in Nat,
                               n * a <= n * b
                        PROVE  a <= b
<1>. SUFFICES ASSUME b + 1 <= a PROVE FALSE
  OBVIOUS
<1>1. n * (b + 1) <= n * a
  BY ProductFacts
<1>2. n * (b + 1) = n * b + n /\ n * b \in Nat /\ n * a \in Nat
  OBVIOUS
<1>. QED
  BY <1>1, <1>2

(* With "fastest" the search starts no later than the walk to a stop ends.     *)
LEMMA BoardedInTime ==
    ASSUME QueryOK, query.preference = "fastest", NEW s \in Walkable(query.access),
           NEW t \in Nat, query.depart_at + query.access[s] <= Ticks * t
    PROVE  InitialTimes(query)[s] <= t
<1>. DEFINE d == query.depart_at
            a == query.access[s]
            w == Ticks * Whole(d) + a
<1>1. s \in Stops /\ a \in Nat /\ d \in Nat /\ Ticks \in Nat \ {0}
  BY DEF QueryOK, Walkable
<1>2. Whole(d) \in Nat /\ Ticks * Whole(d) <= d /\ Ticks * Whole(d) \in Nat
  BY <1>1, WholeFacts, ProductFacts
<1>3. w \in Nat /\ w <= d + a
  BY <1>1, <1>2
<1>4. Whole(w) \in Nat /\ Ticks * Whole(w) <= w
  BY <1>3, WholeFacts
<1>5. Ticks * Whole(w) <= Ticks * t /\ Ticks * t \in Nat /\ Ticks * Whole(w) \in Nat
  BY <1>1, <1>3, <1>4, ProductFacts
<1>6. Whole(w) <= t
  BY <1>1, <1>4, <1>5, ProductCancels
<1>7. InitialTimes(query)[s] = Whole(w + 0)
  BY <1>1 DEF InitialTimes, Walkable, ServiceTime, Penalty
<1>. QED
  BY <1>3, <1>6, <1>7

(* Along any ride the search has been everywhere no later than the passenger:  *)
(* the first connection the passenger would gain on it cannot be, because one  *)
(* pass was enough.                                                            *)
LEMMA RideFacts ==
    ASSUME PlanInv, phase # "scan", NoLateFeeder(feed), query.preference = "fastest",
           NEW r \in Rides, CanRide(r), NEW last, last = feed[r[Len(r)]]
    PROVE  /\ last.arr_stop_id \in Stops
           /\ last.arr_time_s \in Nat /\ last.arr_time_s < Infinity
           /\ arrival[last.arr_stop_id] \in Nat
           /\ arrival[last.arr_stop_id] <= last.arr_time_s
<1>1. /\ Numbers /\ QueryOK /\ OnePassSuffices /\ scanned = Len(feed) /\ NeverLater
      /\ initial = InitialTimes(query)
  BY NumberFacts, QueryFacts DEF PlanInv, PlanTypeOK, OnePassInv, CsaInv, Shape
<1>2. PICK n \in 1 .. Len(feed) : r \in [1 .. n -> 1 .. Len(feed)]
  BY DEF Rides
<1>3. Len(feed) \in Nat /\ n \in Nat \ {0} /\ Len(r) = n
  BY <1>1, <1>2 DEF Numbers, FeedOK
<1>4. \A k \in 1 .. Len(feed) :
         /\ feed[k].dep_stop_id \in Stops /\ feed[k].arr_stop_id \in Stops
         /\ feed[k].dep_time_s \in Nat /\ feed[k].arr_time_s \in Nat
         /\ feed[k].arr_time_s < Infinity
  BY <1>1 DEF Numbers, FeedOK
<1>5. \A i \in 1 .. n :
         /\ r[i] \in 1 .. Len(feed)
         /\ feed[r[i]].dep_stop_id \in Stops /\ feed[r[i]].arr_stop_id \in Stops
         /\ feed[r[i]].dep_time_s \in Nat /\ feed[r[i]].arr_time_s \in Nat
         /\ feed[r[i]].arr_time_s < Infinity
         /\ arrival[feed[r[i]].dep_stop_id] \in Nat /\ arrival[feed[r[i]].arr_stop_id] \in Nat
         /\ arrival[feed[r[i]].dep_stop_id] <= feed[r[i]].dep_time_s
               => arrival[feed[r[i]].arr_stop_id] <= feed[r[i]].arr_time_s
  <2>. SUFFICES ASSUME NEW i \in 1 .. n
                PROVE  /\ r[i] \in 1 .. Len(feed)
                       /\ feed[r[i]].dep_stop_id \in Stops /\ feed[r[i]].arr_stop_id \in Stops
                       /\ feed[r[i]].dep_time_s \in Nat /\ feed[r[i]].arr_time_s \in Nat
                       /\ feed[r[i]].arr_time_s < Infinity
                       /\ arrival[feed[r[i]].dep_stop_id] \in Nat
                       /\ arrival[feed[r[i]].arr_stop_id] \in Nat
                       /\ arrival[feed[r[i]].dep_stop_id] <= feed[r[i]].dep_time_s
                             => arrival[feed[r[i]].arr_stop_id] <= feed[r[i]].arr_time_s
    OBVIOUS
  <2>1. r[i] \in 1 .. Len(feed)
    BY <1>2
  <2>2. /\ feed[r[i]].dep_stop_id \in Stops /\ feed[r[i]].arr_stop_id \in Stops
        /\ feed[r[i]].dep_time_s \in Nat /\ feed[r[i]].arr_time_s \in Nat
        /\ feed[r[i]].arr_time_s < Infinity
    <3>. PICK k : k = r[i]
      OBVIOUS
    <3>1. k \in 1 .. Len(feed)
      BY <2>1
    <3>2. /\ feed[k].dep_stop_id \in Stops /\ feed[k].arr_stop_id \in Stops
          /\ feed[k].dep_time_s \in Nat /\ feed[k].arr_time_s \in Nat
          /\ feed[k].arr_time_s < Infinity
      BY <1>4, <3>1
    <3>. QED
      BY <3>2
  <2>3. arrival[feed[r[i]].dep_stop_id] \in Nat /\ arrival[feed[r[i]].arr_stop_id] \in Nat
    BY <1>1, <2>2 DEF Numbers, FeedOK
  <2>4. arrival[feed[r[i]].dep_stop_id] <= feed[r[i]].dep_time_s
           => arrival[feed[r[i]].arr_stop_id] <= feed[r[i]].arr_time_s
    BY <1>1, <2>1 DEF OnePassSuffices
  <2>. QED
    BY <2>1, <2>2, <2>3, <2>4
<1>. DEFINE Ahead == {i \in 1 .. n : ~(arrival[feed[r[i]].arr_stop_id] <= feed[r[i]].arr_time_s)}
<1>6. ASSUME NEW a \in Ahead PROVE FALSE
  <2>1. PICK m \in Ahead : \A k \in Ahead : m <= k
    <3>1. Ahead \in SUBSET Nat
      OBVIOUS
    <3>. HIDE DEF Ahead
    <3>. QED
      BY <1>6, <3>1, LeastNat
  <2>2. m \in 1 .. n
    BY <2>1
  <2>3. arrival[feed[r[m]].dep_stop_id] <= feed[r[m]].dep_time_s
    <3>1. CASE m = 1
      <4>. PICK c : c = feed[r[1]]
        OBVIOUS
      <4>1. /\ c.dep_stop_id \in Walkable(query.access) /\ c.dep_time_s \in Nat
            /\ c.dep_stop_id \in Stops
            /\ query.depart_at + query.access[c.dep_stop_id] <= Ticks * c.dep_time_s
        BY <1>5, <2>2, <3>1 DEF CanRide, ServiceTime
      <4>2. initial[c.dep_stop_id] <= c.dep_time_s
        BY <1>1, <4>1, BoardedInTime
      <4>3. arrival[c.dep_stop_id] <= initial[c.dep_stop_id]
        BY <1>1, <4>1 DEF NeverLater
      <4>4. initial[c.dep_stop_id] \in Nat /\ arrival[c.dep_stop_id] \in Nat
        BY <1>1, <4>1, CsaAssumption DEF PlanInv, CsaInv, TypeOK, Numbers, FeedOK
      <4>. QED
        BY <3>1, <4>1, <4>2, <4>3, <4>4
    <3>2. CASE m # 1
      <4>. PICK b : b = m - 1
        OBVIOUS
      <4>1. b \in 1 .. n - 1 /\ b \in 1 .. n /\ b + 1 = m /\ b < m
        BY <1>3, <2>2, <3>2
      <4>2. b \notin Ahead
        BY <2>1, <2>2, <4>1
      <4>3. arrival[feed[r[b]].arr_stop_id] <= feed[r[b]].arr_time_s
        BY <4>1, <4>2
      <4>4. /\ feed[r[b]].arr_stop_id = feed[r[m]].dep_stop_id
            /\ feed[r[b]].arr_time_s <= feed[r[m]].dep_time_s
        BY <1>3, <4>1 DEF CanRide
      <4>5. /\ feed[r[b]].arr_time_s \in Nat /\ feed[r[m]].dep_time_s \in Nat
            /\ arrival[feed[r[m]].dep_stop_id] \in Nat
        BY <1>5, <2>2, <4>1
      <4>. QED
        BY <4>3, <4>4, <4>5
    <3>. QED
      BY <3>1, <3>2
  <2>. QED
    BY <1>5, <2>1, <2>2, <2>3
<1>7. n \in 1 .. n /\ n \notin Ahead
  BY <1>3, <1>6
<1>. QED
  BY <1>3, <1>5, <1>7

-------------------------------------------------------------------------------
(* Steps that leave the legs alone.                                            *)
LEMMA SearchStepKeeps ==
    ASSUME PlanInv, SearchStep \/ ChooseStop \/ UNCHANGED allVars
    PROVE  PlanInv'
<1>1. CsaInv' /\ OnePassInv' /\ UNCHANGED planVars /\ UNCHANGED <<feed, initial>>
  <2>1. [Next]_vars
    BY PlanStepSearches DEF PlanNext
  <2>2. UNCHANGED planVars
    BY DEF SearchStep, ChooseStop, allVars
  <2>. QED
    BY <2>1, <2>2, FeedStays, CsaStep, OnePassInvStep DEF PlanInv
<1>2. CASE SearchStep
  <2>1. stage = "search"
    BY <1>2 DEF SearchStep
  <2>2. phase' # "scan" => phase # "scan" /\ UNCHANGED <<arrival, dest>>
    BY <1>2 DEF SearchStep, Scan, TraceBack, TraceDone, OutOfMemory, scan, trace
  <2>3. Chosen'
    BY <1>1, <2>1, <2>2
       DEF PlanInv, Chosen, planVars, Best, Options, Cost, Penalty
  <2>4. Len(out') \in Nat
    BY <1>1 DEF CsaInv, TypeOK
  <2>5. ridden' \in 0 .. Len(out')
    BY <1>1, <2>1, <2>4 DEF PlanInv, Chosen, planVars
  <2>. QED
    BY <1>1, <2>1, <2>3, <2>5
       DEF PlanInv, PlanTypeOK, Chosen, LegsSoFar, LegsConnect, LegsInTime,
           FastestArrivesFirst, planVars, InitialTimes, Penalty
<1>3. CASE ChooseStop
  <2>1. stage = "search" /\ UNCHANGED <<arrival, out>> /\ Best(dest')
    BY <1>3 DEF ChooseStop, StartTrace, scan
  <2>2. Best(dest)'
    BY <1>1, <2>1 DEF planVars, Best, Options, Cost, Penalty
  <2>. QED
    BY <1>1, <2>1, <2>2
       DEF PlanInv, PlanTypeOK, Chosen, LegsSoFar, LegsConnect, LegsInTime,
           FastestArrivesFirst, planVars, InitialTimes, Penalty
<1>4. CASE UNCHANGED allVars
  <2>1. FastestArrivesFirst'
    BY <1>4 DEF allVars, vars, planVars, PlanInv, FastestArrivesFirst, Rides, CanRide
  <2>. QED
    BY <1>1, <1>4, <2>1
       DEF allVars, vars, planVars, PlanInv, PlanTypeOK, Chosen, LegsSoFar, LegsConnect,
           LegsInTime, InitialTimes, Penalty, Best, Options, Cost, AccessStop
<1>. QED
  BY <1>2, <1>3, <1>4

LEMMA WalkOnlyKeeps == ASSUME PlanInv, WalkOnly PROVE PlanInv'
<1>1. UNCHANGED <<vars, query, ridden>> /\ stage' = "route"
  BY DEF WalkOnly
<1>2. CsaInv' /\ OnePassInv'
  BY <1>1, CsaStep, OnePassInvStep DEF PlanInv
<1>3. QueryOK
  BY QueryFacts DEF PlanInv, PlanTypeOK
<1>. DEFINE walk == [mode |-> "walk", origin |-> Origin, destination |-> Destination,
                     depart_at |-> query.now, arrive_at |-> query.now + query.direct]
<1>4. walk \in Legs /\ legs' = <<walk>>
  BY <1>3 DEF WalkOnly, Legs, Modes, Places, QueryOK
<1>5. legs' \in Seq(Legs) /\ Len(legs') = 1 /\ legs'[1] = walk
  BY <1>4
<1>6. LegsConnect' /\ LegsInTime' /\ FastestArrivesFirst'
  BY <1>1, <1>5 DEF LegsConnect, LegsInTime, FastestArrivesFirst
<1>. QED
  BY <1>1, <1>2, <1>5, <1>6
     DEF PlanInv, PlanTypeOK, Chosen, LegsSoFar, InitialTimes, Penalty, vars,
         Best, Options, Cost

LEMMA WalkToStopKeeps == ASSUME PlanInv, WalkToStop PROVE PlanInv'
<1>1. /\ UNCHANGED <<vars, query, ridden>> /\ stage' = "legs" /\ ridden = 0
      /\ phase = "done" /\ out # << >>
  BY DEF WalkToStop, PlanInv, Chosen
<1>2. CsaInv' /\ OnePassInv'
  BY <1>1, CsaStep, OnePassInvStep DEF PlanInv
<1>3. Journey
  BY <1>1, JourneyFacts
<1>. DEFINE walk == [mode |-> "walk", origin |-> Origin, destination |-> AccessStop,
                     depart_at |-> query.depart_at,
                     arrive_at |-> query.depart_at + query.access[AccessStop]]
<1>4. walk \in Legs /\ legs' = <<walk>>
  BY <1>3 DEF WalkToStop, Legs, Modes, Places, QueryOK, Journey
<1>5. legs' \in Seq(Legs) /\ Len(legs') = 1 /\ legs'[1] = walk /\ legs' # << >>
  BY <1>4
<1>6. LegsSoFar'
  BY <1>1, <1>3, <1>5 DEF LegsSoFar, Journey, vars, AccessStop
<1>. QED
  BY <1>1, <1>2, <1>5, <1>6
     DEF PlanInv, PlanTypeOK, Chosen, InitialTimes, Penalty, vars, Best, Options, Cost,
         LegsConnect, LegsInTime, FastestArrivesFirst

(* The legs before the last one stay, a leg is added or the last one goes on.  *)
LEMMA LastLeg ==
    ASSUME NEW q \in Seq(Legs), NEW l \in Legs
    PROVE  /\ Append(q, l) \in Seq(Legs) /\ Append(q, l) # << >>
           /\ Len(q) \in Nat /\ Len(Append(q, l)) = Len(q) + 1
           /\ Append(q, l)[Len(q) + 1] = l
           /\ \A i \in 1 .. Len(q) : Append(q, l)[i] = q[i] /\ q[i] \in Legs
OBVIOUS

LEMMA RideOnKeeps == ASSUME PlanInv, RideOn PROVE PlanInv'
<1>1. /\ UNCHANGED <<vars, query, stage>> /\ ridden' = ridden + 1 /\ stage = "legs"
      /\ phase = "done" /\ out # << >>
  BY DEF RideOn, PlanInv, Chosen
<1>2. CsaInv' /\ OnePassInv'
  BY <1>1, CsaStep, OnePassInvStep DEF PlanInv
<1>3. Journey
  BY <1>1, JourneyFacts
<1>. DEFINE n == Len(legs)
            k == ridden + 1
            c == feed[out[k]]
<1>4. /\ legs \in Seq(Legs) /\ n \in Nat \ {0} /\ ridden \in Nat
      /\ k \in 1 .. Len(out) /\ LegsSoFar /\ LegsInTime
      /\ \A i \in 1 .. n : legs[i] \in Legs
  <2>1. legs \in Seq(Legs) /\ legs # << >> /\ LegsSoFar /\ LegsInTime
        /\ ridden \in 0 .. Len(out) /\ ridden < Len(out)
    BY <1>1 DEF RideOn, PlanInv, PlanTypeOK, LegsSoFar
  <2>2. ridden \in Nat /\ k \in 1 .. Len(out)
    BY <1>3, <2>1 DEF Journey
  <2>. QED
    BY <2>1, <2>2
<1>5. /\ c.dep_stop_id \in Stops /\ c.arr_stop_id \in Stops
      /\ Ticks * c.dep_time_s \in Nat /\ Ticks * c.arr_time_s \in Nat
      /\ ridden > 0 => /\ legs[n].destination = c.dep_stop_id
                       /\ legs[n].arrive_at <= Ticks * c.dep_time_s
                       /\ n > 1
  <2>1. /\ c.dep_stop_id \in Stops /\ c.arr_stop_id \in Stops
        /\ c.dep_time_s \in Nat /\ c.arr_time_s \in Nat
    BY <1>3, <1>4 DEF Journey
  <2>2. Ticks * c.dep_time_s \in Nat /\ Ticks * c.arr_time_s \in Nat
    <3>1. /\ c.dep_time_s <= c.dep_time_s /\ c.arr_time_s <= c.arr_time_s /\ Ticks \in Nat
      BY <1>3, <2>1 DEF Journey, QueryOK
    <3>. QED
      BY <2>1, <3>1, ProductFacts
  <2>3. ASSUME ridden > 0 PROVE /\ legs[n].destination = c.dep_stop_id
                                /\ legs[n].arrive_at <= Ticks * c.dep_time_s
                                /\ n > 1
    <3>1. ridden \in 1 .. Len(out) - 1 /\ ridden \in 1 .. Len(out)
      BY <1>3, <1>4, <2>3 DEF Journey
    <3>2. /\ feed[out[ridden]].arr_stop_id = c.dep_stop_id
          /\ feed[out[ridden]].arr_time_s <= c.dep_time_s
          /\ feed[out[ridden]].arr_time_s \in Nat
      BY <1>3, <3>1 DEF Journey
    <3>3. Ticks * feed[out[ridden]].arr_time_s <= Ticks * c.dep_time_s
      BY <1>3, <2>1, <3>2, ProductFacts DEF Journey, QueryOK
    <3>. QED
      BY <1>1, <1>4, <2>3, <3>2, <3>3 DEF LegsSoFar
  <2>. QED
    BY <2>1, <2>2, <2>3
<1>6. CASE Board(c)
  <2>. DEFINE l == [mode |-> "bus", origin |-> c.dep_stop_id,
                    destination |-> c.arr_stop_id,
                    depart_at |-> Ticks * c.dep_time_s,
                    arrive_at |-> Ticks * c.arr_time_s]
  <2>1. l \in Legs
    BY <1>5 DEF Legs, Modes, Places
  <2>2. legs' = Append(legs, l)
    BY <1>6 DEF Board, ServiceTime
  <2>. HIDE DEF l
  <2>3. /\ legs' \in Seq(Legs) /\ legs' # << >> /\ Len(legs') = n + 1
        /\ legs'[n + 1] = l
        /\ \A i \in 1 .. n : legs'[i] = legs[i]
    BY <1>4, <2>1, <2>2, LastLeg
  <2>4. /\ l.origin = c.dep_stop_id /\ l.destination = c.arr_stop_id
        /\ l.depart_at = Ticks * c.dep_time_s /\ l.arrive_at = Ticks * c.arr_time_s
    BY DEF l
  <2>5. legs[n].destination = l.origin
    BY <1>1, <1>4, <1>5, <2>4 DEF LegsSoFar, AccessStop
  <2>6. \A i \in 1 .. Len(legs') - 1 : legs'[i].destination = legs'[i + 1].origin
    <3>1. ASSUME NEW i \in 1 .. Len(legs') - 1
          PROVE legs'[i].destination = legs'[i + 1].origin
      <4>1. CASE i = n
        BY <1>4, <2>3, <2>5, <4>1
      <4>2. CASE i # n
        <5>1. i \in 1 .. n - 1 /\ i \in 1 .. n /\ i + 1 \in 1 .. n
          BY <1>4, <2>3, <4>2
        <5>. QED
          BY <1>1, <1>4, <2>3, <5>1 DEF LegsSoFar
      <4>. QED
        BY <4>1, <4>2
    <3>. QED
      BY <3>1
  <2>7. LegsInTime'
    <3>1. ASSUME NEW i \in 1 .. Len(legs') - 1
          PROVE IF i = 1 THEN legs'[1].arrive_at < legs'[2].depart_at + 2 * Ticks
                ELSE legs'[i].arrive_at <= legs'[i + 1].depart_at
      <4>1. CASE i = n
        <5>1. CASE n = 1
          <6>1. ridden = 0
            BY <1>4, <1>5, <5>1
          <6>. QED
            BY <1>1, <1>4, <2>3, <2>4, <4>1, <5>1, <6>1 DEF LegsSoFar
        <5>2. CASE n # 1
          <6>1. ridden > 0
            BY <1>1, <1>4, <5>2 DEF LegsSoFar
          <6>. QED
            BY <1>4, <1>5, <2>3, <2>4, <4>1, <5>2, <6>1
        <5>. QED
          BY <5>1, <5>2
      <4>2. CASE i # n
        <5>1. i \in 1 .. n - 1 /\ i \in 1 .. n /\ i + 1 \in 1 .. n
          BY <1>4, <2>3, <4>2
        <5>2. i = 1 => 2 \in 1 .. n
          BY <5>1
        <5>. QED
          BY <1>4, <2>3, <5>1, <5>2 DEF LegsInTime
      <4>. QED
        BY <4>1, <4>2
    <3>. QED
      BY <1>1, <3>1 DEF LegsInTime
  <2>8. LegsSoFar'
    <3>1. legs'[1] = legs[1] /\ ridden' # 0 /\ Len(legs') > 1
      BY <1>1, <1>4, <2>3
    <3>. QED
      BY <1>1, <1>4, <2>3, <2>4, <2>6, <3>1 DEF LegsSoFar, vars
  <2>. QED
    BY <1>1, <1>2, <1>3, <1>4, <2>3, <2>7, <2>8
       DEF PlanInv, PlanTypeOK, Chosen, InitialTimes, Penalty, vars, Best, Options, Cost,
           LegsConnect, FastestArrivesFirst
<1>7. CASE ridden > 0 /\ StayOn(c)
  <2>1. legs' = [legs EXCEPT ![n].destination = c.arr_stop_id,
                             ![n].arrive_at = Ticks * c.arr_time_s]
    BY <1>7 DEF StayOn, ServiceTime
  <2>2. /\ n > 1 /\ n \in 1 .. n /\ legs[n] \in Legs
    BY <1>4, <1>5, <1>7
  <2>3. /\ legs' \in Seq(Legs) /\ Len(legs') = n /\ legs' # << >>
        /\ legs'[n].destination = c.arr_stop_id
        /\ legs'[n].arrive_at = Ticks * c.arr_time_s
        /\ legs'[n].origin = legs[n].origin /\ legs'[n].depart_at = legs[n].depart_at
        /\ \A i \in 1 .. n - 1 : legs'[i] = legs[i]
    <3>. DEFINE l == [legs[n] EXCEPT !.destination = c.arr_stop_id,
                                     !.arrive_at = Ticks * c.arr_time_s]
    <3>1. /\ l \in Legs
          /\ l.destination = c.arr_stop_id /\ l.arrive_at = Ticks * c.arr_time_s
          /\ l.origin = legs[n].origin /\ l.depart_at = legs[n].depart_at
      BY <1>5, <2>2 DEF Legs, Places
    <3>2. legs' = [legs EXCEPT ![n] = l]
      BY <1>4, <2>1, <2>2
    <3>. HIDE DEF l
    <3>3. legs' \in Seq(Legs) /\ Len(legs') = n
      BY <1>4, <2>2, <3>1, <3>2
    <3>4. legs'[n] = l /\ \A i \in 1 .. n - 1 : legs'[i] = legs[i]
      BY <1>4, <2>2, <3>2
    <3>. QED
      BY <1>4, <3>1, <3>3, <3>4
  <2>4. \A i \in 1 .. Len(legs') - 1 : legs'[i].destination = legs'[i + 1].origin
    <3>1. ASSUME NEW i \in 1 .. n - 1 PROVE legs'[i + 1].origin = legs[i + 1].origin
      <4>1. i + 1 = n \/ i + 1 \in 1 .. n - 1
        BY <1>4
      <4>. QED
        BY <2>3, <4>1
    <3>. QED
      BY <1>1, <1>4, <2>3, <3>1 DEF LegsSoFar
  <2>5. LegsInTime'
    <3>1. ASSUME NEW i \in 1 .. n - 1
          PROVE legs'[i + 1].depart_at = legs[i + 1].depart_at
      <4>1. i + 1 = n \/ i + 1 \in 1 .. n - 1
        BY <1>4
      <4>. QED
        BY <2>3, <4>1
    <3>2. 1 \in 1 .. n - 1 /\ 1 + 1 = 2
      BY <1>4, <2>2
    <3>3. legs'[2].depart_at = legs[2].depart_at /\ legs'[1] = legs[1]
      BY <2>3, <3>1, <3>2
    <3>. QED
      BY <1>1, <1>4, <2>3, <3>1, <3>3 DEF LegsInTime
  <2>6. LegsSoFar'
    <3>1. legs'[1] = legs[1] /\ ridden' # 0 /\ Len(legs') > 1
      BY <1>1, <1>4, <2>2, <2>3
    <3>. QED
      BY <1>1, <1>4, <2>3, <2>4, <3>1 DEF LegsSoFar, vars
  <2>. QED
    BY <1>1, <1>2, <1>3, <1>4, <2>3, <2>5, <2>6
       DEF PlanInv, PlanTypeOK, Chosen, InitialTimes, Penalty, vars, Best, Options, Cost,
           LegsConnect, FastestArrivesFirst
<1>. QED
  BY <1>6, <1>7 DEF RideOn

LEMMA WalkToDestinationKeeps == ASSUME PlanInv, WalkToDestination PROVE PlanInv'
<1>1. /\ UNCHANGED <<vars, query, ridden>> /\ stage' = "route" /\ stage = "legs"
      /\ ridden = Len(out) /\ phase = "done" /\ out # << >>
  BY DEF WalkToDestination, PlanInv, Chosen
<1>2. CsaInv' /\ OnePassInv'
  BY <1>1, CsaStep, OnePassInvStep DEF PlanInv
<1>3. Journey
  BY <1>1, JourneyFacts
<1>. DEFINE n == Len(legs)
            last == legs[n].arrive_at
            walk == [mode |-> "walk", origin |-> dest, destination |-> Destination,
                     depart_at |-> last, arrive_at |-> last + query.egress[dest]]
<1>4. /\ legs \in Seq(Legs) /\ LegsSoFar /\ LegsInTime /\ Best(dest)
      /\ n \in Nat /\ n > 1 /\ legs[n] \in Legs
      /\ legs[n].destination = dest
      /\ last = Ticks * arrival[dest] /\ last \in Nat
  <2>1. legs \in Seq(Legs) /\ legs # << >> /\ LegsSoFar /\ LegsInTime /\ Best(dest)
    BY <1>1 DEF PlanInv, PlanTypeOK, LegsSoFar, Chosen
  <2>2. Len(out) # 0
    BY <1>3 DEF Journey
  <2>3. /\ n > 1 /\ legs[n].destination = dest
        /\ last = Ticks * arrival[dest]
    BY <1>1, <1>3, <2>1, <2>2 DEF LegsSoFar, Journey
  <2>4. n \in Nat /\ legs[n] \in Legs
    BY <2>1, <2>3
  <2>5. last \in Nat
    BY <2>4 DEF Legs
  <2>. QED
    BY <2>1, <2>3, <2>4, <2>5
<1>5. walk \in Legs
  <2>1. /\ dest \in Places /\ Destination \in Places
        /\ query.egress[dest] \in Nat
    BY <1>3 DEF Journey, Places
  <2>2. last \in Nat /\ last + query.egress[dest] \in Nat
    BY <1>4, <2>1
  <2>. QED
    BY <2>1, <2>2 DEF Legs, Modes
<1>6. legs' = Append(legs, walk)
  BY DEF WalkToDestination
<1>7. /\ walk.origin = dest /\ walk.destination = Destination
      /\ walk.depart_at = last /\ walk.arrive_at = last + query.egress[dest]
  OBVIOUS
<1>. HIDE DEF walk
<1>8. /\ legs' \in Seq(Legs) /\ Len(legs') = n + 1 /\ legs'[n + 1] = walk
      /\ \A i \in 1 .. n : legs'[i] = legs[i]
  BY <1>4, <1>5, <1>6, LastLeg
<1>9. LegsConnect' /\ LegsInTime'
  <2>1. ASSUME NEW i \in 1 .. Len(legs') - 1
        PROVE /\ legs'[i].destination = legs'[i + 1].origin
              /\ IF i = 1 THEN legs'[1].arrive_at < legs'[2].depart_at + 2 * Ticks
                 ELSE legs'[i].arrive_at <= legs'[i + 1].depart_at
    <3>1. CASE i = n
      BY <1>4, <1>7, <1>8, <3>1
    <3>2. CASE i # n
      <4>1. i \in 1 .. n - 1 /\ i \in 1 .. n /\ i + 1 \in 1 .. n
        BY <1>4, <1>8, <3>2
      <4>2. legs'[i] = legs[i] /\ legs'[i + 1] = legs[i + 1]
        BY <1>8, <4>1
      <4>3. legs[i].destination = legs[i + 1].origin
        BY <1>1, <1>4, <4>1 DEF LegsSoFar
      <4>4. i = 1 => legs'[1] = legs[1] /\ legs'[2] = legs[2]
        BY <4>2
      <4>. QED
        BY <1>4, <4>1, <4>2, <4>3, <4>4 DEF LegsInTime
    <3>. QED
      BY <3>1, <3>2
  <2>2. legs'[1].origin = Origin
    BY <1>1, <1>4, <1>8 DEF LegsSoFar
  <2>. QED
    BY <1>1, <1>4, <1>7, <1>8, <2>1, <2>2 DEF LegsConnect, LegsInTime
<1>10. FastestArrivesFirst'
  <2>1. UNCHANGED <<feed, query>>
    BY <1>1 DEF vars
  <2>2. Len(legs') = n + 1
        /\ legs'[n + 1].arrive_at = Ticks * arrival[dest] + query.egress[dest]
    BY <1>4, <1>7, <1>8
  <2>3. ASSUME query.preference = "fastest", NoLateFeeder(feed), NEW r \in Rides, CanRide(r)
        PROVE Ticks * arrival[dest] + query.egress[dest]
                 <= Ticks * feed[r[Len(r)]].arr_time_s
                    + query.egress[feed[r[Len(r)]].arr_stop_id]
    <3>. PICK final : final = feed[r[Len(r)]]
      OBVIOUS
    <3>. PICK s : s = final.arr_stop_id
      OBVIOUS
    <3>1. /\ s \in Stops /\ final.arr_time_s \in Nat /\ final.arr_time_s < Infinity
          /\ arrival[s] \in Nat /\ arrival[s] <= final.arr_time_s
      BY <1>1, <2>3, RideFacts
    <3>2. s \in Walkable(query.egress) /\ query.egress[s] \in Nat
      BY <1>3, <2>3 DEF CanRide, Walkable, Journey, QueryOK
    <3>3. s \in Options
      <4>1. Infinity \in Nat /\ arrival[s] < Infinity
        BY <3>1, CsaAssumption
      <4>. QED
        BY <3>2, <4>1 DEF Options
    <3>4. Cost(dest) <= Cost(s)
      BY <1>4, <3>3 DEF Best
    <3>5. /\ Ticks * arrival[s] <= Ticks * final.arr_time_s
          /\ Ticks * arrival[s] \in Nat /\ Ticks * final.arr_time_s \in Nat
      BY <1>3, <3>1, ProductFacts DEF Journey, QueryOK
    <3>6. Ticks * arrival[dest] + query.egress[dest] <= Ticks * arrival[s] + query.egress[s]
      BY <1>3, <1>4, <2>3, <3>2, <3>4, <3>5 DEF Cost, ServiceTime, Penalty, Journey
    <3>7. query.egress[dest] \in Nat /\ Ticks * arrival[dest] \in Nat
      BY <1>3, <1>4 DEF Journey
    <3>. QED
      BY <3>2, <3>5, <3>6, <3>7
  <2>4. Rides' = Rides /\ \A r \in Rides : CanRide(r)' <=> CanRide(r)
    BY <2>1 DEF Rides, CanRide, Walkable
  <2>5. ASSUME (query.preference = "fastest" /\ NoLateFeeder(feed))', NEW r \in Rides', CanRide(r)'
        PROVE legs'[Len(legs')].arrive_at
                 <= Ticks * feed[r[Len(r)]].arr_time_s
                    + query.egress[feed[r[Len(r)]].arr_stop_id]
    BY <2>1, <2>2, <2>3, <2>4, <2>5
  <2>. QED
    BY <2>1, <2>5 DEF FastestArrivesFirst, ServiceTime
<1>. QED
  BY <1>1, <1>2, <1>4, <1>8, <1>9, <1>10
     DEF PlanInv, PlanTypeOK, Chosen, LegsSoFar, InitialTimes, Penalty, vars, Best,
         Options, Cost

LEMMA PlanStep == PlanInv /\ [PlanNext]_allVars => PlanInv'
BY SearchStepKeeps, WalkOnlyKeeps, WalkToStopKeeps, RideOnKeeps,
   WalkToDestinationKeeps DEF PlanNext

-------------------------------------------------------------------------------
(* A route is put together from the types calculate_route declares.            *)
THEOREM PlanTypeCorrect == PlanSpec => []PlanTypeOK
<1>1. PlanInv => PlanTypeOK
  BY DEF PlanInv
<1>. QED
  BY <1>1, PlanInitial, PlanStep, PTL DEF PlanSpec

(* The legs of every route lead from the origin to the destination.            *)
THEOREM LegsConnectHolds == PlanSpec => []LegsConnect
<1>1. PlanInv => LegsConnect
  BY DEF PlanInv
<1>. QED
  BY <1>1, PlanInitial, PlanStep, PTL DEF PlanSpec

(* Every leg leaves after the one before it arrives, to within two seconds for *)
(* the first bus and exactly for the others.                                   *)
THEOREM LegsInTimeHolds == PlanSpec => []LegsInTime
<1>1. PlanInv => LegsInTime
  BY DEF PlanInv
<1>. QED
  BY <1>1, PlanInitial, PlanStep, PTL DEF PlanSpec

(* The recomputing branch of calculate_route is never taken.                   *)
THEOREM AccessStopHolds == PlanSpec => []AccessStopKnown
<1>1. PlanInv => AccessStopKnown
  <2>. SUFFICES ASSUME PlanInv, phase = "done", out # << >>
                PROVE query.access[AccessStop] # NoWalk
    BY DEF AccessStopKnown
  <2>. QED
    BY JourneyFacts, RoutePlanAssumption DEF Journey
<1>. QED
  BY <1>1, PlanInitial, PlanStep, PTL DEF PlanSpec

(* With "fastest" a route by bus arrives no later than any passenger who walks *)
(* to a stop and rides the connections of the feed, if no late feeder is among *)
(* them.                                                                       *)
THEOREM FastestHolds == PlanSpec => []FastestArrivesFirst
<1>1. PlanInv => FastestArrivesFirst
  BY DEF PlanInv
<1>. QED
  BY <1>1, PlanInitial, PlanStep, PTL DEF PlanSpec
===============================================================================
