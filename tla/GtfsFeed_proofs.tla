---------------------------- MODULE GtfsFeed_proofs ----------------------------
(* Proofs about load_feed, for any files: whatever the number and the order of  *)
(* rows, trips and stops.                                                       *)
EXTENDS GtfsFeed, SequenceTheorems, FiniteSetTheorems, TLAPS

N == Len(files.stop_times)

(* What has been read and whether it was good.                                  *)
ReadOK ==
    /\ phase = "stops" => row = 0
    /\ phase \in {"stops", "read"} => pair = 0 /\ connections = << >>
    /\ phase \in {"join", "loaded"} => row = N
    /\ phase = "raised" => ~StopsParse \/ \E i \in 1 .. row : Kept(i) /\ ~Parses(i)
    /\ phase \in {"read", "join", "loaded"} =>
          StopsParse /\ \A i \in 1 .. row : Kept(i) => Parses(i)

(* The entries of a trip are its rows, each of them once.                       *)
EntriesOK ==
    \A t \in Ids :
        /\ \A n \in 1 .. Len(entries[t]), i \in 1 .. row :
              entries[t][n] = i => Kept(i) /\ Parses(i) /\ StopTime(i).trip_id = t
        /\ phase \in {"read", "join", "loaded"} =>
              \A i \in 1 .. row : Kept(i) /\ StopTime(i).trip_id = t =>
                 \E n \in 1 .. Len(entries[t]) : entries[t][n] = i

(* The trips still to join are those with entries that are not joined yet.      *)
InOrder(t) == \E n \in 1 .. Len(order) : order[n] = t
OrderOK ==
    /\ \A m, n \in 1 .. Len(order) : order[m] = order[n] => m = n
    /\ \A n \in 1 .. Len(order) : entries[order[n]] # << >>
    /\ phase \in {"stops", "read"} => \A t \in Ids : entries[t] # << >> => InOrder(t)
    /\ phase = "loaded" => order = << >>
    /\ pair = 0 \/ (phase = "join" /\ order # << >> /\ pair \in 1 .. Len(entries[Head(order)]))

(* Before its sort a trip has its rows in the order of the file, after it in    *)
(* that of the timetable.                                                       *)
Waiting(t) == \E n \in 1 .. Len(order) : order[n] = t /\ (n > 1 \/ pair = 0)
SortOK ==
    \A t \in Ids : \A m, n \in 1 .. Len(entries[t]) : m < n =>
        /\ Waiting(t) => entries[t][m] < entries[t][n]
        /\ ~Waiting(t) => \A i, j \in 1 .. row :
                             entries[t][m] = i /\ entries[t][n] = j => Precedes(i, j)

(* Every connection is a hop, and every hop behind is a connection.             *)
Behind(t, n) == InOrder(t) => order[1] = t /\ n < pair
JoinOK ==
    /\ \A k \in 1 .. Len(connections) : \E i, j \in 1 .. N :
          /\ FollowedBy(i, j) /\ Known(i) /\ Known(j)
          /\ connections[k] = Connection(StopTime(i).trip_id, i, j)
    /\ \A t \in Ids : \A n \in 1 .. Len(entries[t]) - 1, i, j \in 1 .. row :
          (entries[t][n] = i /\ entries[t][n + 1] = j /\ Known(i) /\ Known(j) /\ Behind(t, n)) =>
             \E k \in 1 .. Len(connections) : connections[k] = Connection(t, i, j)

FeedInv == FeedTypeOK /\ ReadOK /\ EntriesOK /\ OrderOK /\ SortOK /\ JoinOK

-----------------------------------------------------------------------------
(* The files do not change, nor does what is said of them.                      *)
LEMMA SameFiles ==
    ASSUME files' = files
    PROVE  /\ N' = N
           /\ StopsParse' <=> StopsParse
           /\ \A i : StopTime(i)' = StopTime(i)
           /\ \A i : Kept(i)' <=> Kept(i)
           /\ \A i : Parses(i)' <=> Parses(i)
           /\ \A i : Known(i)' <=> Known(i)
           /\ \A i, j : Precedes(i, j)' <=> Precedes(i, j)
           /\ \A i, j : FollowedBy(i, j)' <=> FollowedBy(i, j)
           /\ \A t, i, j : Connection(t, i, j)' = Connection(t, i, j)
<1>1. \A i : StopTime(i)' = StopTime(i)
  BY DEF StopTime
<1>2. \A i : Kept(i)' <=> Kept(i)
  BY DEF Kept, StopTime
<1>3. \A i, j : Precedes(i, j)' <=> Precedes(i, j)
  BY DEF Precedes, Kept, StopTime
<1>. QED
  BY <1>1, <1>2, <1>3 DEF N, StopsParse, Parses, Known, stops_by_id, ById, FollowedBy, Connection, StopTime, Precedes, Kept

(* What is used of sequences.                                                   *)
LEMMA SeqFacts ==
    ASSUME NEW S, NEW s \in Seq(S)
    PROVE  /\ Len(s) \in Nat
           /\ s = << >> <=> Len(s) = 0
           /\ \A n \in 1 .. Len(s) : s[n] \in S
           /\ s # << >> => Head(s) = s[1]
BY EmptySeq, LenProperties

LEMMA EntryFacts ==
    ASSUME FeedTypeOK, NEW t \in Ids
    PROVE  /\ entries[t] \in Seq(1 .. row)
           /\ Len(entries[t]) \in Nat
           /\ entries[t] = << >> <=> Len(entries[t]) = 0
           /\ \A n \in 1 .. Len(entries[t]) : entries[t][n] \in 1 .. row
<1>1. entries[t] \in Seq(1 .. row)
  BY DEF FeedTypeOK
<1>. QED
  BY <1>1, SeqFacts

LEMMA OrderFacts ==
    ASSUME FeedTypeOK
    PROVE  /\ Len(order) \in Nat
           /\ order = << >> <=> Len(order) = 0
           /\ \A n \in 1 .. Len(order) : order[n] \in Ids
           /\ order # << >> => Head(order) = order[1]
<1>1. order \in Seq(Ids)
  BY DEF FeedTypeOK
<1>. QED
  BY <1>1, SeqFacts

(* Rows as they are in the file.                                                *)
LEMMA RowTypes ==
    ASSUME files.stop_times \in Seq(StopTimes), NEW i \in 1 .. N
    PROVE  /\ StopTime(i).stop_sequence \in Nat
           /\ Kept(i) => StopTime(i).trip_id \in Ids /\ StopTime(i).stop_id \in Ids
           /\ Parses(i) => StopTime(i).arrival_time \in Nat /\ StopTime(i).departure_time \in Nat
<1>1. StopTime(i) \in StopTimes
  BY DEF StopTime, N
<1>. QED
  BY <1>1 DEF StopTimes, Kept, Parses

LEMMA PrecedesIsStrict ==
    ASSUME files.stop_times \in Seq(StopTimes), NEW i \in 1 .. N, NEW j \in 1 .. N, Precedes(i, j)
    PROVE  ~Precedes(j, i) /\ i # j
<1>1. StopTime(i).stop_sequence \in Nat /\ StopTime(j).stop_sequence \in Nat
  BY RowTypes
<1>. QED
  BY <1>1 DEF Precedes

LEMMA ConnectionTyped ==
    ASSUME files.stop_times \in Seq(StopTimes), NEW t \in Ids, NEW i \in 1 .. N, NEW j \in 1 .. N,
           Kept(i), Kept(j), Parses(i), Parses(j)
    PROVE  Connection(t, i, j) \in Connections
BY RowTypes DEF Connection, Connections

LEMMA FeedInvInit == FeedInit => FeedInv
<1>. SUFFICES ASSUME FeedInit PROVE FeedInv
  OBVIOUS
<1>1. files.stop_times \in Seq(StopTimes)
  BY FeedsAssumption DEF FeedInit
<1>. QED
  BY <1>1 DEF FeedInit, FeedInv, FeedTypeOK, ReadOK, EntriesOK, OrderOK, SortOK, JoinOK, InOrder

-----------------------------------------------------------------------------
LEMMA StopsStep == ASSUME FeedInv, ReadStops PROVE FeedInv'
<1>. USE SameFiles
<1>1. /\ UNCHANGED <<files, row, entries, order, pair, connections>>
      /\ phase = "stops" /\ row = 0 /\ phase' \in {"read", "raised"}
      /\ phase' = "read" <=> StopsParse
  BY DEF ReadStops, FeedInv, ReadOK
<1>2. FeedTypeOK'
  BY <1>1 DEF FeedInv, FeedTypeOK
<1>3. ReadOK'
  <2>1. pair = 0 /\ connections = << >>
    BY <1>1 DEF FeedInv, ReadOK, OrderOK
  <2>. QED
    BY <1>1, <2>1 DEF ReadOK
<1>4. EntriesOK'
  BY <1>1 DEF FeedInv, EntriesOK
<1>5. OrderOK'
  BY <1>1 DEF FeedInv, OrderOK, InOrder
<1>6. SortOK' /\ JoinOK'
  BY <1>1 DEF FeedInv, SortOK, JoinOK, Waiting, Behind, InOrder
<1>. QED
  BY <1>2, <1>3, <1>4, <1>5, <1>6 DEF FeedInv

LEMMA AllReadStep == ASSUME FeedInv, AllRead PROVE FeedInv'
<1>. USE SameFiles
<1>1. UNCHANGED <<files, row, entries, order, pair, connections>>
      /\ phase = "read" /\ phase' = "join" /\ row = N
  BY DEF AllRead, N
<1>2. FeedTypeOK'
  BY <1>1 DEF FeedInv, FeedTypeOK
<1>3. ReadOK'
  BY <1>1 DEF FeedInv, ReadOK
<1>4. EntriesOK'
  BY <1>1 DEF FeedInv, EntriesOK
<1>5. OrderOK'
  BY <1>1 DEF FeedInv, OrderOK
<1>6. SortOK'
  BY <1>1 DEF FeedInv, SortOK, InOrder, Waiting
<1>7. JoinOK'
  BY <1>1 DEF FeedInv, JoinOK, Behind, InOrder
<1>. QED
  BY <1>2, <1>3, <1>4, <1>5, <1>6, <1>7 DEF FeedInv
(* While rows are read every trip waits, in the order of the file.              *)
LEMMA AllWait ==
    ASSUME FeedInv, phase = "read", NEW t \in Ids
    PROVE  /\ entries[t] # << >> => InOrder(t) /\ Waiting(t)
           /\ \A m, n \in 1 .. Len(entries[t]) : m < n => entries[t][m] < entries[t][n]
<1>1. pair = 0
  BY DEF FeedInv, ReadOK
<1>2. entries[t] # << >> => InOrder(t) /\ Waiting(t)
  BY <1>1 DEF FeedInv, OrderOK, InOrder, Waiting
<1>3. Len(entries[t]) \in Nat /\ (entries[t] = << >> <=> Len(entries[t]) = 0)
  BY EntryFacts DEF FeedInv
<1>. QED
  BY <1>2, <1>3 DEF FeedInv, SortOK

(* A row is read: it adds nothing, fails the load, or ends the entries of its   *)
(* trip, still in the order of the file.                                        *)
LEMMA RowStep == ASSUME FeedInv, ReadStopTime PROVE FeedInv'
<1>. USE SameFiles
<1>1. /\ UNCHANGED <<files, pair, connections>>
      /\ phase = "read" /\ pair = 0 /\ connections = << >>
      /\ row \in Nat /\ row' = row + 1 /\ row' \in 1 .. N
      /\ files.stop_times \in Seq(StopTimes)
  BY DEF ReadStopTime, FeedInv, FeedTypeOK, ReadOK, N
<1>2. CASE /\ UNCHANGED <<entries, order>>
           /\ \/ ~Kept(row + 1) /\ phase' = phase
              \/ Kept(row + 1) /\ ~Parses(row + 1) /\ phase' = "raised"
  <2>1. FeedTypeOK'
    BY <1>1, <1>2 DEF FeedInv, FeedTypeOK, N
  <2>2. ReadOK'
    BY <1>1, <1>2 DEF FeedInv, ReadOK
  <2>3. \A u \in Ids : /\ Len(entries[u]) \in Nat
                       /\ \A n \in 1 .. Len(entries[u]) : entries[u][n] \in 1 .. row
    BY EntryFacts DEF FeedInv
  <2>4. EntriesOK'
    BY <1>1, <1>2, <2>3 DEF FeedInv, EntriesOK
  <2>5. OrderOK'
    BY <1>1, <1>2 DEF FeedInv, OrderOK, InOrder
  <2>6. SortOK'
    <3>1. ASSUME NEW u \in Ids, NEW m \in 1 .. Len(entries'[u]), NEW n \in 1 .. Len(entries'[u]), m < n
          PROVE  entries'[u][m] < entries'[u][n] /\ Waiting(u)'
      <4>1. entries[u] # << >>
        BY <1>2, <2>3, EntryFacts DEF FeedInv
      <4>2. entries[u][m] < entries[u][n] /\ Waiting(u)
        BY <4>1, <3>1, <1>1, <1>2, AllWait
      <4>. QED
        BY <4>2, <1>1, <1>2 DEF Waiting
    <3>. QED
      BY <3>1 DEF SortOK
  <2>7. JoinOK'
    <3>1. ASSUME NEW u \in Ids, NEW n \in 1 .. Len(entries'[u]) - 1 PROVE ~Behind(u, n)'
      <4>1. InOrder(u)
        BY <1>1, <1>2, <2>3, EntryFacts DEF FeedInv, OrderOK
      <4>. QED
        BY <4>1, <1>1, <1>2 DEF Behind, InOrder
    <3>. QED
      BY <3>1, <1>1, <1>2 DEF JoinOK
  <2>. QED
    BY <2>1, <2>2, <2>4, <2>5, <2>6, <2>7 DEF FeedInv
<1>3. CASE /\ Kept(row + 1) /\ Parses(row + 1)
           /\ entries' = [entries EXCEPT ![StopTime(row + 1).trip_id] = Append(@, row + 1)]
           /\ order' = IF entries[StopTime(row + 1).trip_id] = << >>
                       THEN Append(order, StopTime(row + 1).trip_id) ELSE order
           /\ UNCHANGED phase
  <2>. DEFINE t == StopTime(row + 1).trip_id
  <2>1. t \in Ids /\ entries[t] \in Seq(1 .. row) /\ order \in Seq(Ids)
        /\ entries \in [Ids -> Seq(1 .. row)]
    BY <1>1, <1>3, RowTypes DEF FeedInv, FeedTypeOK
  <2>2. /\ Kept(row + 1) /\ Parses(row + 1) /\ StopTime(row + 1).trip_id = t
        /\ entries' = [entries EXCEPT ![t] = Append(entries[t], row + 1)]
        /\ order' = IF entries[t] = << >> THEN Append(order, t) ELSE order
        /\ phase' = "read"
    BY <1>1, <1>3
  <2>. HIDE DEF t
  <2>3. \A u \in Ids : /\ entries[u] \in Seq(1 .. row)
                       /\ Len(entries[u]) \in Nat
                       /\ entries[u] = << >> <=> Len(entries[u]) = 0
                       /\ \A n \in 1 .. Len(entries[u]) : entries[u][n] \in 1 .. row
    BY EntryFacts DEF FeedInv
  <2>4. /\ \A u \in Ids : u # t => entries'[u] = entries[u]
        /\ entries'[t] = Append(entries[t], row + 1)
    BY <2>1, <2>2
  <2>5. /\ Len(entries'[t]) = Len(entries[t]) + 1
        /\ entries'[t] # << >>
        /\ \A n \in 1 .. Len(entries[t]) : entries'[t][n] = entries[t][n]
        /\ entries'[t][Len(entries[t]) + 1] = row + 1
    <3>1. entries[t] \in Seq(1 .. row + 1) /\ row + 1 \in 1 .. row + 1
      BY <2>1, <1>1
    <3>2. LET s == entries[t] IN
          /\ Append(s, row + 1) # << >> /\ Len(Append(s, row + 1)) = Len(s) + 1
          /\ \A n \in 1 .. Len(s) : Append(s, row + 1)[n] = s[n]
          /\ Append(s, row + 1)[Len(s) + 1] = row + 1
      BY <3>1, AppendProperties
    <3>. QED
      BY <3>2, <2>4
  <2>6. FeedTypeOK'
    <3>1. \A u \in Ids : entries[u] \in Seq(1 .. row + 1)
      BY <2>3, <1>1
    <3>2. entries' \in [Ids -> Seq(1 .. row + 1)]
      BY <3>1, <2>1, <2>2, <1>1
    <3>3. order' \in Seq(Ids)
      BY <2>1, <2>2
    <3>. QED
      BY <3>2, <3>3, <1>1, <2>2 DEF FeedInv, FeedTypeOK, N
  <2>7. ReadOK'
    BY <1>1, <2>2 DEF FeedInv, ReadOK
  <2>8. EntriesOK'
    <3>1. ASSUME NEW u \in Ids, u # t
          PROVE  /\ \A n \in 1 .. Len(entries'[u]), i \in 1 .. row' :
                       entries'[u][n] = i => Kept(i) /\ Parses(i) /\ StopTime(i).trip_id = u
                 /\ \A i \in 1 .. row' : Kept(i) /\ StopTime(i).trip_id = u =>
                       \E n \in 1 .. Len(entries'[u]) : entries'[u][n] = i
      BY <3>1, <2>2, <2>3, <2>4, <1>1 DEF FeedInv, EntriesOK
    <3>2. ASSUME NEW n \in 1 .. Len(entries'[t]), NEW i \in 1 .. row', entries'[t][n] = i
          PROVE  Kept(i) /\ Parses(i) /\ StopTime(i).trip_id = t
      <4>1. CASE n \in 1 .. Len(entries[t])
        <5>1. i \in 1 .. row /\ entries[t][n] = i
          BY <4>1, <3>2, <2>1, <2>3, <2>5
        <5>. QED
          BY <4>1, <5>1, <2>1, <1>1 DEF FeedInv, EntriesOK
      <4>2. CASE n = Len(entries[t]) + 1
        BY <4>2, <3>2, <2>2, <2>5
      <4>. QED
        BY <4>1, <4>2, <2>1, <2>3, <2>5
    <3>3. ASSUME NEW i \in 1 .. row', Kept(i), StopTime(i).trip_id = t
          PROVE  \E n \in 1 .. Len(entries'[t]) : entries'[t][n] = i
      <4>1. CASE i \in 1 .. row
        <5>1. PICK n \in 1 .. Len(entries[t]) : entries[t][n] = i
          BY <4>1, <3>3, <2>1, <1>1 DEF FeedInv, EntriesOK
        <5>2. entries'[t][n] = i /\ n \in 1 .. Len(entries'[t])
          <6>1. Len(entries[t]) \in Nat
            BY <2>1, <2>3
          <6>. QED
            BY <5>1, <6>1, <2>5
        <5>. QED
          BY <5>2
      <4>2. CASE i = row + 1
        BY <4>2, <2>1, <2>3, <2>5
      <4>. QED
        BY <4>1, <4>2, <1>1
    <3>. QED
      BY <3>1, <3>2, <3>3, <1>1 DEF EntriesOK
  <2>9. OrderOK'
    <3>1. Len(order) \in Nat /\ \A n \in 1 .. Len(order) : order[n] \in Ids /\ entries[order[n]] # << >>
      BY OrderFacts DEF FeedInv, OrderOK
    <3>2. \A u \in Ids : entries[u] # << >> => entries'[u] # << >> /\ InOrder(u)
      BY <2>4, <2>5, <1>1, AllWait
    <3>3. CASE entries[t] = << >>
      <4>1. /\ Len(order') = Len(order) + 1 /\ order'[Len(order) + 1] = t
            /\ \A n \in 1 .. Len(order) : order'[n] = order[n]
        BY <3>3, <2>1, <2>2, AppendProperties
      <4>2. \A n \in 1 .. Len(order) : order[n] # t
        BY <3>1, <3>3
      <4>3. \A m, n \in 1 .. Len(order') : order'[m] = order'[n] => m = n
        BY <4>1, <4>2, <3>1 DEF FeedInv, OrderOK
      <4>4. \A n \in 1 .. Len(order') : entries'[order'[n]] # << >>
        BY <4>1, <3>1, <3>2, <2>5
      <4>5. ASSUME NEW u \in Ids, entries'[u] # << >> PROVE InOrder(u)'
        <5>1. CASE u = t
          BY <5>1, <4>1, <3>1 DEF InOrder
        <5>2. CASE u # t
          <6>1. PICK n \in 1 .. Len(order) : order[n] = u
            BY <5>2, <4>5, <2>4, <3>2 DEF InOrder
          <6>. QED
            BY <6>1, <4>1, <3>1 DEF InOrder
        <5>. QED
          BY <5>1, <5>2
      <4>. QED
        BY <4>3, <4>4, <4>5, <1>1, <2>2 DEF OrderOK
    <3>4. CASE entries[t] # << >>
      <4>1. order' = order
        BY <3>4, <2>2
      <4>2. ASSUME NEW u \in Ids, entries'[u] # << >> PROVE InOrder(u)'
        <5>1. InOrder(u)
          BY <4>2, <3>2, <3>4, <2>4
        <5>. QED
          BY <5>1, <4>1 DEF InOrder
      <4>. QED
        BY <4>1, <4>2, <3>1, <3>2, <1>1, <2>2 DEF FeedInv, OrderOK
    <3>. QED
      BY <3>3, <3>4
  <2>10. SortOK'
    <3>1. ASSUME NEW u \in Ids, NEW m \in 1 .. Len(entries'[u]), NEW n \in 1 .. Len(entries'[u]), m < n
          PROVE  entries'[u][m] < entries'[u][n] /\ Waiting(u)'
      <4>1. entries'[u] # << >>
        BY <2>3, <2>4, <2>5
      <4>2. Waiting(u)'
        <5>1. InOrder(u)'
          BY <4>1, <2>9, <2>2 DEF OrderOK
        <5>. QED
          BY <5>1, <1>1 DEF InOrder, Waiting
      <4>3. CASE u # t
        BY <4>2, <4>3, <3>1, <2>4, <1>1, AllWait
      <4>4. CASE u = t
        <5>1. \A k, l \in 1 .. Len(entries[t]) : k < l => entries[t][k] < entries[t][l]
          BY <1>1, <2>1, AllWait
        <5>2. m \in 1 .. Len(entries[t])
          BY <4>4, <3>1, <2>1, <2>3, <2>5
        <5>3. CASE n \in 1 .. Len(entries[t])
          BY <5>1, <5>2, <5>3, <4>2, <4>4, <3>1, <2>5
        <5>4. CASE n = Len(entries[t]) + 1
          <6>1. entries'[t][m] \in 1 .. row /\ entries'[t][n] = row + 1
            BY <5>2, <5>4, <2>1, <2>3, <2>5
          <6>. QED
            BY <6>1, <4>2, <4>4, <1>1
        <5>. QED
          BY <5>3, <5>4, <4>4, <2>1, <2>3, <2>5
      <4>. QED
        BY <4>3, <4>4
    <3>. QED
      BY <3>1 DEF SortOK
  <2>11. JoinOK'
    <3>1. ASSUME NEW u \in Ids, NEW n \in 1 .. Len(entries'[u]) - 1 PROVE ~Behind(u, n)'
      <4>1. entries'[u] # << >>
        BY <2>3, <2>4, <2>5
      <4>2. InOrder(u)'
        BY <4>1, <2>9, <2>2 DEF OrderOK
      <4>. QED
        BY <4>2, <1>1 DEF Behind
    <3>. QED
      BY <3>1, <1>1 DEF JoinOK
  <2>. QED
    BY <2>6, <2>7, <2>8, <2>9, <2>10, <2>11 DEF FeedInv
<1>. QED
  BY <1>2, <1>3, <1>1 DEF ReadStopTime
-----------------------------------------------------------------------------
(* What list.sort does to positions with keys that are pairs of numbers: f      *)
(* lists each of them once, in the order of the keys.                           *)
Lists(positions, keys, f) ==
    /\ f \in [1 .. Cardinality(positions) -> positions]
    /\ \A i \in positions : \E n \in 1 .. Cardinality(positions) : f[n] = i
    /\ \A m, n \in 1 .. Cardinality(positions) : m < n => Before(keys, f[m], f[n])

(* Before is a strict total order, so the number of positions before one is a   *)
(* rank no other has, and every rank is taken.                                  *)
LEMMA BeforeIsAnOrder ==
    ASSUME NEW S \in SUBSET Nat, NEW keys \in [S -> Nat \X Nat],
           NEW i \in S, NEW j \in S, NEW k \in S
    PROVE  /\ ~Before(keys, i, i)
           /\ Before(keys, i, j) /\ Before(keys, j, k) => Before(keys, i, k)
           /\ i # j => Before(keys, i, j) \/ Before(keys, j, i)
<1>1. \A p \in Nat \X Nat : p[1] \in Nat /\ p[2] \in Nat /\ p = <<p[1], p[2]>>
  OBVIOUS
<1>2. PICK p \in Nat \X Nat, q \in Nat \X Nat, r \in Nat \X Nat :
         keys[i] = p /\ keys[j] = q /\ keys[k] = r
  OBVIOUS
<1>3. p[1] = q[1] /\ p[2] = q[2] => p = q
  BY <1>1
<1>4. q[1] = r[1] /\ q[2] = r[2] => q = r
  BY <1>1
<1>5. p[1] \in Nat /\ p[2] \in Nat /\ q[1] \in Nat /\ q[2] \in Nat /\ r[1] \in Nat /\ r[2] \in Nat
  BY <1>1
<1>. QED
  BY <1>2, <1>3, <1>4, <1>5 DEF Before, Less

LEMMA SortedFacts ==
    ASSUME NEW S \in SUBSET Nat, IsFiniteSet(S), NEW keys \in [S -> Nat \X Nat]
    PROVE  Lists(S, keys, Sorted(S, keys))
<1>. DEFINE before(i) == {j \in S : Before(keys, j, i)}
            N1 == Cardinality(S)
            rank == [i \in S |-> Cardinality(before(i)) + 1]
<1>1. N1 \in Nat /\ IsFiniteSet(1 .. N1) /\ Cardinality(1 .. N1) = N1
  BY FS_CardinalityType, FS_Interval
<1>2. ASSUME NEW i \in S
      PROVE  IsFiniteSet(before(i)) /\ Cardinality(before(i)) \in Nat /\ Cardinality(before(i)) < N1
  <2>1. before(i) \in SUBSET S /\ i \notin before(i)
    BY BeforeIsAnOrder
  <2>. HIDE DEF before
  <2>2. IsFiniteSet(before(i)) /\ Cardinality(before(i)) <= N1 /\ (N1 = Cardinality(before(i)) => S = before(i))
    BY <2>1, FS_Subset
  <2>. QED
    BY <2>1, <2>2, <1>1, FS_CardinalityType
<1>3. ASSUME NEW i \in S, NEW j \in S, Before(keys, i, j)
      PROVE  Cardinality(before(i)) < Cardinality(before(j))
  <2>1. before(i) \in SUBSET before(j) /\ i \in before(j) /\ i \notin before(i)
    BY <1>3, BeforeIsAnOrder
  <2>. HIDE DEF before
  <2>2. IsFiniteSet(before(j)) /\ Cardinality(before(i)) \in Nat /\ Cardinality(before(j)) \in Nat
    BY <1>2
  <2>. QED
    BY <2>1, <2>2, FS_Subset
<1>4. \A i \in S : rank[i] \in 1 .. N1 /\ rank[i] = Cardinality(before(i)) + 1
  <2>. HIDE DEF before
  <2>. QED
    BY <1>1, <1>2
<1>5. \A i, j \in S : /\ Before(keys, i, j) => rank[i] < rank[j]
                      /\ rank[i] < rank[j] => Before(keys, i, j)
                      /\ i # j => rank[i] # rank[j]
  <2>. HIDE DEF before
  <2>1. \A i, j \in S : Before(keys, i, j) => rank[i] < rank[j]
    BY <1>2, <1>3
  <2>2. \A i, j \in S : i # j => Before(keys, i, j) \/ Before(keys, j, i)
    BY BeforeIsAnOrder
  <2>. HIDE DEF rank, N1
  <2>. QED
    BY <2>1, <2>2, <1>1, <1>4
<1>6. rank \in Surjection(S, 1 .. N1)
  <2>. HIDE DEF before
  <2>1. rank \in [S -> 1 .. N1]
    BY <1>4
  <2>. HIDE DEF rank
  <2>2. rank \in Injection(S, 1 .. N1)
    BY <2>1, <1>5 DEF Injection, IsInjective
  <2>. QED
    BY <2>2, <1>1, FS_Injection
<1>. DEFINE f == Sorted(S, keys)
<1>7. ASSUME NEW n \in 1 .. N1 PROVE f[n] \in S /\ rank[f[n]] = n
  <2>1. PICK i \in S : rank[i] = n
    BY <1>6 DEF Surjection
  <2>2. f[n] = CHOOSE k \in S : Cardinality(before(k)) = n - 1
    BY DEF Sorted
  <2>. HIDE DEF before, f
  <2>3. Cardinality(before(i)) = n - 1
    BY <2>1, <1>2, <1>4, <1>1
  <2>4. f[n] \in S /\ Cardinality(before(f[n])) = n - 1
    BY <2>2, <2>3
  <2>. QED
    BY <2>4, <1>4, <1>1
<1>8. f = [n \in 1 .. N1 |-> CHOOSE k \in S : Cardinality(before(k)) = n - 1]
  BY DEF Sorted
<1>. HIDE DEF f, rank, before
<1>9. f \in [1 .. N1 -> S]
  BY <1>7, <1>8
<1>10. ASSUME NEW i \in S PROVE rank[i] \in 1 .. N1 /\ f[rank[i]] = i
  BY <1>4, <1>5, <1>7
<1>11. ASSUME NEW m \in 1 .. N1, NEW n \in 1 .. N1, m < n PROVE Before(keys, f[m], f[n])
  BY <1>5, <1>7, <1>11
<1>. QED
  BY <1>9, <1>10, <1>11 DEF Lists, f

(* A list s put in order by the keys of its elements.                           *)
Sorts(keys, s, f) ==
    /\ f \in [1 .. Len(s) -> 1 .. Len(s)]
    /\ \A i \in 1 .. Len(s) : \E n \in 1 .. Len(s) : f[n] = i
    /\ \A m, n \in 1 .. Len(s) : m < n =>
          Less(keys[f[m]], keys[f[n]]) \/ (keys[f[m]] = keys[f[n]] /\ f[m] < f[n])
    /\ Len(Reordered(s, f)) = Len(s)
    /\ \A n \in 1 .. Len(s) : Reordered(s, f)[n] = s[f[n]]

LEMMA OrderingFacts ==
    ASSUME NEW s, Len(s) \in Nat, NEW keys \in [1 .. Len(s) -> Nat \X Nat]
    PROVE  Sorts(keys, s, Sorted(1 .. Len(s), keys))
<1>. DEFINE f == Sorted(1 .. Len(s), keys)
<1>1. IsFiniteSet(1 .. Len(s)) /\ Cardinality(1 .. Len(s)) = Len(s)
  BY FS_Interval
<1>2. Lists(1 .. Len(s), keys, f)
  <2>1. 1 .. Len(s) \in SUBSET Nat
    OBVIOUS
  <2>. QED
    BY <1>1, <2>1, SortedFacts
<1>3. f \in [1 .. Len(s) -> 1 .. Len(s)] /\ \A i \in 1 .. Len(s) : \E n \in 1 .. Len(s) : f[n] = i
  BY <1>1, <1>2 DEF Lists
<1>4. \A m, n \in 1 .. Len(s) : m < n =>
         Less(keys[f[m]], keys[f[n]]) \/ (keys[f[m]] = keys[f[n]] /\ f[m] < f[n])
  BY <1>1, <1>2 DEF Lists, Before
<1>. HIDE DEF f
<1>5. Len(Reordered(s, f)) = Len(s) /\ \A n \in 1 .. Len(s) : Reordered(s, f)[n] = s[f[n]]
  BY DEF Reordered
<1>. QED
  BY <1>3, <1>4, <1>5 DEF Sorts, f

(* The first trip that is not joined, before and after its sort.                *)
LEMMA HeadFacts ==
    ASSUME FeedInv, phase = "join", order # << >>
    PROVE  /\ Head(order) \in Ids /\ Head(order) = order[1] /\ InOrder(Head(order))
           /\ Len(order) \in Nat \ {0}
           /\ Waiting(Head(order)) <=> pair = 0
           /\ \A u \in Ids : u # Head(order) => (Waiting(u) <=> InOrder(u))
           /\ Len(entries[Head(order)]) \in Nat \ {0}
<1>1. /\ Len(order) \in Nat \ {0} /\ Head(order) = order[1] /\ order[1] \in Ids
      /\ \A m, n \in 1 .. Len(order) : order[m] = order[n] => m = n
  BY OrderFacts DEF FeedInv, OrderOK
<1>2. Len(entries[order[1]]) \in Nat \ {0}
  BY <1>1, EntryFacts DEF FeedInv, OrderOK
<1>3. InOrder(order[1]) /\ (Waiting(order[1]) <=> pair = 0)
  BY <1>1 DEF InOrder, Waiting
<1>4. ASSUME NEW u \in Ids, u # order[1] PROVE Waiting(u) <=> InOrder(u)
  BY <1>1, <1>4 DEF InOrder, Waiting
<1>. QED
  BY <1>1, <1>2, <1>3, <1>4

LEMMA SortStep == ASSUME FeedInv, SortEntries PROVE FeedInv'
<1>1. /\ UNCHANGED <<files, row, order, connections, phase>>
      /\ phase = "join" /\ order # << >> /\ pair = 0 /\ pair' = 1 /\ row = N
  BY DEF SortEntries, FeedInv, ReadOK
<1>2. PICK t \in Ids : t = Head(order)
  BY <1>1, HeadFacts
<1>. DEFINE e == entries[t]
            keys == [n \in 1 .. Len(e) |-> <<StopTime(e[n]).stop_sequence, 0>>]
<1>3. /\ t = order[1] /\ InOrder(t) /\ Len(order) \in Nat \ {0} /\ Waiting(t)
      /\ \A u \in Ids : u # t => (Waiting(u) <=> InOrder(u))
      /\ Len(e) \in Nat \ {0}
  BY <1>1, <1>2, HeadFacts
<1>4. \A u \in Ids : /\ entries[u] \in Seq(1 .. row)
                     /\ Len(entries[u]) \in Nat
                     /\ entries[u] = << >> <=> Len(entries[u]) = 0
                     /\ \A n \in 1 .. Len(entries[u]) : entries[u][n] \in 1 .. row
  BY EntryFacts DEF FeedInv
<1>0. PICK f : f = Sorted(1 .. Len(e), keys) /\ entries' = [entries EXCEPT ![t] = Reordered(e, f)]
  BY <1>2 DEF SortEntries
<1>5. /\ f \in [1 .. Len(e) -> 1 .. Len(e)]
      /\ \A i \in 1 .. Len(e) : \E n \in 1 .. Len(e) : f[n] = i
      /\ \A m, n \in 1 .. Len(e) : m < n =>
            Less(keys[f[m]], keys[f[n]]) \/ (keys[f[m]] = keys[f[n]] /\ f[m] < f[n])
      /\ Len(Reordered(e, f)) = Len(e)
      /\ \A n \in 1 .. Len(e) : Reordered(e, f)[n] = e[f[n]]
  <2>1. \A n \in 1 .. Len(e) : <<StopTime(e[n]).stop_sequence, 0>> \in Nat \X Nat
    <3>1. \A n \in 1 .. Len(e) : e[n] \in 1 .. N
      BY <1>1, <1>4
    <3>. HIDE DEF e
    <3>. QED
      BY <3>1, RowTypes DEF FeedInv, FeedTypeOK
  <2>2. keys \in [1 .. Len(e) -> Nat \X Nat]
    <3>. HIDE DEF e
    <3>. QED
      BY <2>1
  <2>. HIDE DEF keys, e
  <2>3. Sorts(keys, e, f)
    BY <2>2, <1>0, <1>3, OrderingFacts DEF e
  <2>. QED
    BY <2>3 DEF Sorts
<1>6. /\ entries \in [Ids -> Seq(1 .. row)]
      /\ \A u \in Ids : u # t => entries'[u] = entries[u]
      /\ entries'[t] = Reordered(e, f)
  BY <1>0 DEF FeedInv, FeedTypeOK
<1>7. /\ Len(entries'[t]) = Len(entries[t])
      /\ \A n \in 1 .. Len(entries[t]) : f[n] \in 1 .. Len(entries[t]) /\ entries'[t][n] = entries[t][f[n]]
  BY <1>5, <1>6
<1>. USE <1>1, SameFiles
<1>8. FeedTypeOK'
  <2>1. Reordered(e, f) \in Seq(1 .. row)
    <3>1. \A n \in 1 .. Len(e) : e[f[n]] \in 1 .. row
      BY <1>3, <1>4, <1>5
    <3>. HIDE DEF e
    <3>. QED
      BY <3>1, <1>3, IsASeq DEF Reordered
  <2>2. entries' \in [Ids -> Seq(1 .. row)]
    BY <2>1, <1>0, <1>6
  <2>. QED
    BY <2>2, <1>1 DEF FeedInv, FeedTypeOK
<1>9. ReadOK'
  BY <1>1 DEF FeedInv, ReadOK
<1>. HIDE DEF e
<1>10. EntriesOK'
  <2>1. ASSUME NEW n \in 1 .. Len(entries'[t]), NEW i \in 1 .. row, entries'[t][n] = i
        PROVE  Kept(i) /\ Parses(i) /\ StopTime(i).trip_id = t
    <3>1. f[n] \in 1 .. Len(entries[t]) /\ entries[t][f[n]] = i
      BY <2>1, <1>7
    <3>. QED
      BY <3>1, <1>3 DEF FeedInv, EntriesOK
  <2>2. ASSUME NEW i \in 1 .. row, Kept(i), StopTime(i).trip_id = t
        PROVE  \E n \in 1 .. Len(entries'[t]) : entries'[t][n] = i
    <3>1. PICK k \in 1 .. Len(entries[t]) : entries[t][k] = i
      BY <2>2, <1>1, <1>3 DEF FeedInv, EntriesOK
    <3>2. PICK n \in 1 .. Len(entries[t]) : f[n] = k
      BY <3>1, <1>5 DEF e
    <3>. QED
      BY <3>1, <3>2, <1>7
  <2>3. ASSUME NEW u \in Ids, u # t
        PROVE  /\ \A n \in 1 .. Len(entries'[u]), i \in 1 .. row :
                     entries'[u][n] = i => Kept(i) /\ Parses(i) /\ StopTime(i).trip_id = u
               /\ \A i \in 1 .. row : Kept(i) /\ StopTime(i).trip_id = u =>
                     \E n \in 1 .. Len(entries'[u]) : entries'[u][n] = i
    BY <2>3, <1>1, <1>6 DEF FeedInv, EntriesOK
  <2>4. (\A u \in Ids : \A n \in 1 .. Len(entries[u]), i \in 1 .. row :
            entries[u][n] = i => Kept(i) /\ Parses(i) /\ StopTime(i).trip_id = u)'
    <3>1. \A i : (Kept(i)' <=> Kept(i)) /\ (Parses(i)' <=> Parses(i)) /\ StopTime(i)' = StopTime(i)
      BY <1>1, SameFiles
    <3>. QED
      BY <3>1, <2>1, <2>3, <1>1
  <2>5. (\A u \in Ids : \A i \in 1 .. row : Kept(i) /\ StopTime(i).trip_id = u =>
            \E n \in 1 .. Len(entries[u]) : entries[u][n] = i)'
    <3>1. \A i : (Kept(i)' <=> Kept(i)) /\ StopTime(i)' = StopTime(i)
      BY <1>1, SameFiles
    <3>. QED
      BY <3>1, <2>2, <2>3, <1>1
  <2>. QED
    BY <2>4, <2>5 DEF EntriesOK
<1>11. OrderOK'
  <2>1. \A u \in Ids : entries[u] # << >> => entries'[u] # << >>
    BY <1>4, <1>6, <1>7, <1>8, EmptySeq DEF FeedTypeOK
  <2>2. \A n \in 1 .. Len(order) : order[n] \in Ids
    BY OrderFacts DEF FeedInv
  <2>. QED
    BY <2>1, <2>2, <1>1, <1>2, <1>3, <1>7 DEF FeedInv, OrderOK, e
<1>12. \A u \in Ids : u # t => (Waiting(u)' <=> InOrder(u)) /\ (InOrder(u)' <=> InOrder(u))
  <2>1. ASSUME NEW u \in Ids, u # t PROVE (Waiting(u)' <=> InOrder(u)) /\ (InOrder(u)' <=> InOrder(u))
    BY <2>1, <1>1, <1>3 DEF Waiting, InOrder
  <2>. QED
    BY <2>1
<1>13. ~Waiting(t)' /\ InOrder(t)'
  <2>1. \A n \in 1 .. Len(order) : order[n] = t => n = 1
    BY <1>3 DEF FeedInv, OrderOK
  <2>. QED
    BY <2>1, <1>1, <1>3 DEF Waiting, InOrder
<1>14. SortOK'
  <2>1. ASSUME NEW m \in 1 .. Len(entries'[t]), NEW n \in 1 .. Len(entries'[t]), m < n,
               NEW i \in 1 .. row, NEW j \in 1 .. row, entries'[t][m] = i, entries'[t][n] = j
        PROVE  Precedes(i, j)
    <3>1. /\ f[m] \in 1 .. Len(entries[t]) /\ entries[t][f[m]] = i
          /\ f[n] \in 1 .. Len(entries[t]) /\ entries[t][f[n]] = j
      BY <2>1, <1>7
    <3>2. Kept(i) /\ Kept(j) /\ StopTime(i).trip_id = t /\ StopTime(j).trip_id = t
      BY <3>1, <1>3 DEF FeedInv, EntriesOK
    <3>3. StopTime(i).stop_sequence \in Nat /\ StopTime(j).stop_sequence \in Nat
      BY <1>1, RowTypes DEF FeedInv, FeedTypeOK
    <3>4. \/ StopTime(i).stop_sequence < StopTime(j).stop_sequence
          \/ StopTime(i).stop_sequence = StopTime(j).stop_sequence /\ f[m] < f[n]
      <4>1. Less(<<StopTime(i).stop_sequence, 0>>, <<StopTime(j).stop_sequence, 0>>)
            \/ (<<StopTime(i).stop_sequence, 0>> = <<StopTime(j).stop_sequence, 0>> /\ f[m] < f[n])
        <5>1. /\ keys[f[m]] = <<StopTime(i).stop_sequence, 0>>
              /\ keys[f[n]] = <<StopTime(j).stop_sequence, 0>>
          BY <3>1 DEF e
        <5>2. Less(keys[f[m]], keys[f[n]]) \/ (keys[f[m]] = keys[f[n]] /\ f[m] < f[n])
          <6>. HIDE DEF keys
          <6>. QED
            BY <2>1, <1>5, <1>7 DEF e
        <5>. HIDE DEF keys
        <5>. QED
          BY <5>1, <5>2
      <4>. QED
        BY <4>1, <3>3 DEF Less
    <3>5. f[m] < f[n] => i < j
      BY <3>1, <1>3 DEF FeedInv, SortOK
    <3>. QED
      BY <3>2, <3>4, <3>5 DEF Precedes
  <2>2. ASSUME NEW u \in Ids, u # t, NEW m \in 1 .. Len(entries'[u]), NEW n \in 1 .. Len(entries'[u]), m < n
        PROVE  /\ Waiting(u)' => entries'[u][m] < entries'[u][n]
               /\ ~Waiting(u)' => \A i, j \in 1 .. row :
                                     entries'[u][m] = i /\ entries'[u][n] = j => Precedes(i, j)
    BY <2>2, <1>3, <1>6, <1>12 DEF FeedInv, SortOK
  <2>. QED
    <3>1. ASSUME NEW u \in Ids, NEW m \in 1 .. Len(entries'[u]), NEW n \in 1 .. Len(entries'[u]), m < n
          PROVE  /\ Waiting(u)' => entries'[u][m] < entries'[u][n]
                 /\ ~Waiting(u)' => \A i, j \in 1 .. row :
                                       entries'[u][m] = i /\ entries'[u][n] = j => Precedes(i, j)
      <4>1. CASE u = t
        BY <4>1, <3>1, <2>1, <1>13
      <4>2. CASE u # t
        BY <4>2, <3>1, <2>2
      <4>. QED
        BY <4>1, <4>2
    <3>. QED
      BY <3>1, <1>1 DEF SortOK
<1>15. JoinOK'
  <2>1. ASSUME NEW u \in Ids, NEW n \in 1 .. Len(entries'[u]) - 1, Behind(u, n)'
        PROVE  u # t /\ ~InOrder(u)
    <3>1. InOrder(u)' => u = t /\ n < 1
      BY <2>1, <1>1, <1>3 DEF Behind
    <3>. QED
      BY <3>1, <1>12, <1>13
  <2>2. ASSUME NEW u \in Ids, NEW n \in 1 .. Len(entries'[u]) - 1, NEW i \in 1 .. row, NEW j \in 1 .. row,
               entries'[u][n] = i, entries'[u][n + 1] = j, Known(i), Known(j), Behind(u, n)'
        PROVE  \E k \in 1 .. Len(connections) : connections[k] = Connection(u, i, j)
    <3>1. u # t /\ Behind(u, n)
      BY <2>1, <2>2 DEF Behind
    <3>2. entries'[u] = entries[u]
      BY <3>1, <1>6
    <3>3. /\ n \in 1 .. Len(entries[u]) - 1
          /\ entries[u][n] = i /\ entries[u][n + 1] = j
      BY <3>2, <2>2
    <3>4. JoinOK
      BY DEF FeedInv
    <3>. QED
      BY <3>1, <3>3, <3>4, <2>2 DEF JoinOK
  <2>3. (\A k \in 1 .. Len(connections) : \E i, j \in 1 .. N :
            /\ FollowedBy(i, j) /\ Known(i) /\ Known(j)
            /\ connections[k] = Connection(StopTime(i).trip_id, i, j))'
    BY <1>1 DEF FeedInv, JoinOK
  <2>4. (\A u \in Ids : \A n \in 1 .. Len(entries[u]) - 1, i, j \in 1 .. row :
           (entries[u][n] = i /\ entries[u][n + 1] = j /\ Known(i) /\ Known(j) /\ Behind(u, n)) =>
              \E k \in 1 .. Len(connections) : connections[k] = Connection(u, i, j))'
    <3>1. \A i, j : (Known(i)' <=> Known(i)) /\ \A u : Connection(u, i, j)' = Connection(u, i, j)
      BY <1>1
    <3>. QED
      BY <3>1, <2>2, <1>1
  <2>. QED
    BY <2>3, <2>4 DEF JoinOK
<1>. QED
  BY <1>8, <1>9, <1>10, <1>11, <1>14, <1>15 DEF FeedInv

(* Two entries next to each other are next to each other in the timetable.      *)
LEMMA NextEntryFollows ==
    ASSUME FeedInv, phase = "join", NEW t \in Ids, ~Waiting(t),
           NEW p \in 1 .. Len(entries[t]), p + 1 \in 1 .. Len(entries[t]),
           NEW i \in 1 .. N, NEW j \in 1 .. N, entries[t][p] = i, entries[t][p + 1] = j
    PROVE  FollowedBy(i, j)
<1>1. row = N /\ files.stop_times \in Seq(StopTimes) /\ Len(entries[t]) \in Nat
  BY EntryFacts DEF FeedInv, ReadOK, FeedTypeOK
<1>2. \A m, n \in 1 .. Len(entries[t]), k, l \in 1 .. N :
         m < n /\ entries[t][m] = k /\ entries[t][n] = l => Precedes(k, l)
  BY <1>1 DEF FeedInv, SortOK
<1>3. Precedes(i, j)
  BY <1>1, <1>2
<1>4. ASSUME NEW k \in 1 .. N, Precedes(i, k), Precedes(k, j) PROVE FALSE
  <2>1. Kept(k) /\ StopTime(k).trip_id = t
    BY <1>1, <1>4 DEF Precedes, FeedInv, EntriesOK
  <2>2. PICK m \in 1 .. Len(entries[t]) : entries[t][m] = k
    BY <2>1, <1>1 DEF FeedInv, EntriesOK
  <2>3. /\ i # k /\ ~Precedes(k, i)
        /\ k # j /\ ~Precedes(j, k)
    BY <1>1, <1>4, PrecedesIsStrict
  <2>4. m < p \/ m = p \/ m = p + 1 \/ p + 1 < m
    BY <1>1, <2>2
  <2>. QED
    BY <2>2, <2>3, <2>4, <1>2
<1>. QED
  BY <1>3, <1>4 DEF FollowedBy, N

LEMMA JoinStep == ASSUME FeedInv, JoinPair PROVE FeedInv'
<1>1. /\ UNCHANGED <<files, row, entries, order, phase>>
      /\ phase = "join" /\ order # << >> /\ pair \in Nat \ {0} /\ pair' = pair + 1 /\ row = N
  BY DEF JoinPair, FeedInv, ReadOK, FeedTypeOK
<1>2. PICK t \in Ids : t = Head(order)
  BY <1>1, HeadFacts
<1>3. /\ t = order[1] /\ InOrder(t) /\ Len(order) \in Nat \ {0} /\ ~Waiting(t)
      /\ Len(entries[t]) \in Nat
      /\ pair \in 1 .. Len(entries[t]) /\ pair + 1 \in 1 .. Len(entries[t])
  <2>1. pair < Len(entries[t]) /\ Len(entries[t]) \in Nat
    BY <1>2, EntryFacts DEF JoinPair, FeedInv
  <2>. QED
    BY <2>1, <1>1, <1>2, HeadFacts
<1>4. PICK i \in 1 .. N : i = entries[t][pair]
  BY <1>1, <1>3, EntryFacts DEF FeedInv
<1>5. PICK j \in 1 .. N : j = entries[t][pair + 1]
  BY <1>1, <1>3, EntryFacts DEF FeedInv
<1>6. FollowedBy(i, j)
  BY <1>1, <1>3, <1>4, <1>5, NextEntryFollows
<1>7. /\ Kept(i) /\ Parses(i) /\ StopTime(i).trip_id = t
      /\ Kept(j) /\ Parses(j) /\ StopTime(j).trip_id = t
  BY <1>1, <1>3, <1>4, <1>5 DEF FeedInv, EntriesOK
<1>8. connections' = IF Known(i) /\ Known(j) THEN Append(connections, Connection(t, i, j)) ELSE connections
  BY <1>2, <1>4, <1>5 DEF JoinPair
<1>9. connections \in Seq(Connections) /\ files.stop_times \in Seq(StopTimes)
  BY DEF FeedInv, FeedTypeOK
<1>10. Connection(t, i, j) \in Connections
  BY <1>7, <1>9, ConnectionTyped
<1>11. /\ Len(connections) \in Nat /\ Len(connections') \in Nat
       /\ Len(connections) <= Len(connections') /\ Len(connections') <= Len(connections) + 1
       /\ connections' \in Seq(Connections)
       /\ \A k \in 1 .. Len(connections) : connections'[k] = connections[k]
       /\ \A k \in 1 .. Len(connections') : k = Len(connections) + 1 =>
             Known(i) /\ Known(j) /\ connections'[k] = Connection(t, i, j)
       /\ Known(i) /\ Known(j) => Len(connections') = Len(connections) + 1
  <2>1. CASE Known(i) /\ Known(j)
    BY <2>1, <1>8, <1>9, <1>10, AppendProperties, LenProperties
  <2>2. CASE ~(Known(i) /\ Known(j))
    BY <2>2, <1>8, <1>9, LenProperties
  <2>. QED
    BY <2>1, <2>2
<1>12. FeedTypeOK'
  BY <1>1, <1>11 DEF FeedInv, FeedTypeOK
<1>13. ReadOK' /\ EntriesOK'
  BY <1>1, SameFiles DEF FeedInv, ReadOK, EntriesOK
<1>14. OrderOK'
  BY <1>1, <1>2, <1>3 DEF FeedInv, OrderOK
<1>15. SortOK'
  <2>1. \A u : Waiting(u)' <=> Waiting(u)
    BY <1>1 DEF Waiting
  <2>. QED
    BY <2>1, <1>1, SameFiles DEF FeedInv, SortOK
<1>16. \A k, l : /\ (FollowedBy(k, l)' <=> FollowedBy(k, l)) /\ (Known(k)' <=> Known(k))
                 /\ StopTime(k)' = StopTime(k)
                 /\ \A u : Connection(u, k, l)' = Connection(u, k, l)
  BY <1>1, SameFiles
<1>17. ASSUME NEW c \in 1 .. Len(connections')
       PROVE  \E k, l \in 1 .. N : /\ FollowedBy(k, l) /\ Known(k) /\ Known(l)
                                   /\ connections'[c] = Connection(StopTime(k).trip_id, k, l)
  <2>1. CASE c \in 1 .. Len(connections)
    BY <2>1, <1>11 DEF FeedInv, JoinOK
  <2>2. CASE c = Len(connections) + 1
    BY <2>2, <1>6, <1>7, <1>11
  <2>. QED
    BY <2>1, <2>2, <1>11
<1>18. ASSUME NEW u \in Ids, NEW n \in 1 .. Len(entries[u]) - 1, NEW k \in 1 .. row, NEW l \in 1 .. row,
              entries[u][n] = k, entries[u][n + 1] = l, Known(k), Known(l), Behind(u, n)'
       PROVE  \E c \in 1 .. Len(connections') : connections'[c] = Connection(u, k, l)
  <2>1. CASE Behind(u, n)
    <3>1. PICK c \in 1 .. Len(connections) : connections[c] = Connection(u, k, l)
      BY <2>1, <1>18 DEF FeedInv, JoinOK
    <3>. QED
      BY <3>1, <1>11
  <2>2. CASE ~Behind(u, n)
    <3>1. u = t /\ n = pair
      <4>1. InOrder(u) /\ ~(order[1] = u /\ n < pair)
        BY <2>2 DEF Behind
      <4>2. order[1] = u /\ n < pair + 1
        BY <4>1, <1>1, <1>18 DEF Behind, InOrder
      <4>3. n \in Int
        BY <1>18
      <4>. QED
        BY <4>1, <4>2, <4>3, <1>1, <1>3
    <3>2. k = i /\ l = j
      BY <3>1, <1>4, <1>5, <1>18
    <3>3. Len(connections') = Len(connections) + 1 /\ Known(i) /\ Known(j)
      BY <3>2, <1>11, <1>18
    <3>4. Len(connections) + 1 \in 1 .. Len(connections')
      BY <3>3, <1>11
    <3>. QED
      BY <3>1, <3>2, <3>4, <1>11
  <2>. QED
    BY <2>1, <2>2
<1>19. JoinOK'
  <2>1. (\A c \in 1 .. Len(connections) : \E k, l \in 1 .. N :
            /\ FollowedBy(k, l) /\ Known(k) /\ Known(l)
            /\ connections[c] = Connection(StopTime(k).trip_id, k, l))'
    BY <1>1, <1>16, <1>17, SameFiles
  <2>2. (\A u \in Ids : \A n \in 1 .. Len(entries[u]) - 1, k, l \in 1 .. row :
           (entries[u][n] = k /\ entries[u][n + 1] = l /\ Known(k) /\ Known(l) /\ Behind(u, n)) =>
              \E c \in 1 .. Len(connections) : connections[c] = Connection(u, k, l))'
    <3>1. ASSUME NEW u \in Ids, NEW n \in 1 .. Len(entries'[u]) - 1, NEW k \in 1 .. row', NEW l \in 1 .. row',
                 entries'[u][n] = k, entries'[u][n + 1] = l, Known(k)', Known(l)', Behind(u, n)'
          PROVE  (\E c \in 1 .. Len(connections) : connections[c] = Connection(u, k, l))'
      <4>1. Known(k) /\ Known(l) /\ Connection(u, k, l)' = Connection(u, k, l)
        BY <3>1, <1>16
      <4>2. \E c \in 1 .. Len(connections') : connections'[c] = Connection(u, k, l)
        BY <3>1, <4>1, <1>1, <1>18
      <4>. QED
        BY <4>1, <4>2
    <3>. QED
      BY <3>1
  <2>. QED
    BY <2>1, <2>2 DEF JoinOK
<1>. QED
  BY <1>12, <1>13, <1>14, <1>15, <1>19 DEF FeedInv

LEMMA TripStep == ASSUME FeedInv, TripJoined PROVE FeedInv'
<1>1. /\ UNCHANGED <<files, row, entries, connections, phase>>
      /\ phase = "join" /\ order # << >> /\ pair \in Nat \ {0} /\ pair' = 0
      /\ order' = Tail(order) /\ order \in Seq(Ids)
  BY DEF TripJoined, FeedInv, FeedTypeOK
<1>2. PICK t \in Ids : t = Head(order)
  BY <1>1, HeadFacts
<1>3. /\ t = order[1] /\ InOrder(t) /\ Len(order) \in Nat \ {0} /\ ~Waiting(t)
      /\ pair = Len(entries[t])
      /\ \A u \in Ids : u # t => (Waiting(u) <=> InOrder(u))
  BY <1>1, <1>2, HeadFacts DEF TripJoined
<1>4. /\ order' \in Seq(Ids) /\ Len(order') = Len(order) - 1 /\ Len(order') \in Nat
      /\ \A n \in 1 .. Len(order') : order'[n] = order[n + 1] /\ n + 1 \in 1 .. Len(order)
  BY <1>1, <1>3, HeadTailProperties
<1>5. \A m, n \in 1 .. Len(order) : order[m] = order[n] => m = n
  BY DEF FeedInv, OrderOK
<1>6. ASSUME NEW u \in Ids PROVE InOrder(u)' <=> InOrder(u) /\ u # t
  <2>1. ASSUME InOrder(u)' PROVE InOrder(u) /\ u # t
    <3>1. PICK n \in 1 .. Len(order') : order'[n] = u
      BY <2>1 DEF InOrder
    <3>2. order[n + 1] = u /\ n + 1 \in 1 .. Len(order) /\ n + 1 # 1
      BY <3>1, <1>4
    <3>. QED
      BY <3>2, <1>3, <1>5 DEF InOrder
  <2>2. ASSUME InOrder(u), u # t PROVE InOrder(u)'
    <3>1. PICK n \in 1 .. Len(order) : order[n] = u
      BY <2>2 DEF InOrder
    <3>2. n - 1 \in 1 .. Len(order') /\ (n - 1) + 1 = n
      BY <3>1, <2>2, <1>3, <1>4
    <3>. QED
      BY <3>1, <3>2, <1>4 DEF InOrder
  <2>. QED
    BY <2>1, <2>2
<1>7. ASSUME NEW u \in Ids PROVE Waiting(u)' <=> Waiting(u)
  <2>1. Waiting(u)' <=> InOrder(u)'
    BY <1>1 DEF Waiting, InOrder
  <2>. QED
    BY <2>1, <1>3, <1>6
<1>8. FeedTypeOK'
  BY <1>1, <1>4 DEF FeedInv, FeedTypeOK
<1>9. ReadOK' /\ EntriesOK'
  BY <1>1, SameFiles DEF FeedInv, ReadOK, EntriesOK
<1>10. OrderOK'
  BY <1>1, <1>4, <1>5 DEF FeedInv, OrderOK
<1>11. SortOK'
  BY <1>1, <1>7, SameFiles DEF FeedInv, SortOK
<1>12. ASSUME NEW u \in Ids, NEW n \in 1 .. Len(entries[u]) - 1, Behind(u, n)' PROVE Behind(u, n)
  <2>1. InOrder(u)' => n < 0
    BY <1>1, <1>12 DEF Behind
  <2>2. ~InOrder(u)'
    BY <2>1
  <2>3. CASE u = t
    <3>1. Len(entries[t]) \in Nat
      BY EntryFacts DEF FeedInv
    <3>. QED
      BY <2>3, <3>1, <1>3 DEF Behind
  <2>. QED
    BY <2>2, <2>3, <1>6 DEF Behind
<1>13. JoinOK'
  <2>1. \A k, l : /\ (FollowedBy(k, l)' <=> FollowedBy(k, l)) /\ (Known(k)' <=> Known(k))
                  /\ StopTime(k)' = StopTime(k)
                  /\ \A u : Connection(u, k, l)' = Connection(u, k, l)
    BY <1>1, SameFiles
  <2>2. (\A c \in 1 .. Len(connections) : \E k, l \in 1 .. N :
            /\ FollowedBy(k, l) /\ Known(k) /\ Known(l)
            /\ connections[c] = Connection(StopTime(k).trip_id, k, l))'
    BY <1>1, <2>1, SameFiles DEF FeedInv, JoinOK
  <2>3. (\A u \in Ids : \A n \in 1 .. Len(entries[u]) - 1, k, l \in 1 .. row :
           (entries[u][n] = k /\ entries[u][n + 1] = l /\ Known(k) /\ Known(l) /\ Behind(u, n)) =>
              \E c \in 1 .. Len(connections) : connections[c] = Connection(u, k, l))'
    <3>1. ASSUME NEW u \in Ids, NEW n \in 1 .. Len(entries'[u]) - 1, NEW k \in 1 .. row', NEW l \in 1 .. row',
                 entries'[u][n] = k, entries'[u][n + 1] = l, Known(k)', Known(l)', Behind(u, n)'
          PROVE  (\E c \in 1 .. Len(connections) : connections[c] = Connection(u, k, l))'
      <4>1. Known(k) /\ Known(l) /\ Behind(u, n)
        BY <3>1, <1>1, <1>12, <2>1
      <4>2. \E c \in 1 .. Len(connections) : connections[c] = Connection(u, k, l)
        BY <3>1, <4>1, <1>1 DEF FeedInv, JoinOK
      <4>. QED
        BY <4>2, <1>1, <2>1
    <3>. QED
      BY <3>1
  <2>. QED
    BY <2>2, <2>3 DEF JoinOK
<1>. QED
  BY <1>8, <1>9, <1>10, <1>11, <1>13 DEF FeedInv

LEMMA ConnectionsStep == ASSUME FeedInv, SortConnections PROVE FeedInv'
<1>. DEFINE keys == [n \in 1 .. Len(connections) |->
                        <<connections[n].dep_time_s, connections[n].arr_time_s>>]
<1>1. /\ UNCHANGED <<files, row, entries, order, pair>>
      /\ phase = "join" /\ phase' = "loaded" /\ order = << >> /\ pair = 0
      /\ connections \in Seq(Connections) /\ Len(connections) \in Nat
  BY LenProperties DEF SortConnections, FeedInv, FeedTypeOK, OrderOK
<1>2. PICK f : f = Sorted(1 .. Len(connections), keys) /\ connections' = Reordered(connections, f)
  BY DEF SortConnections
<1>3. keys \in [1 .. Len(connections) -> Nat \X Nat]
  <2>1. \A n \in 1 .. Len(connections) :
           <<connections[n].dep_time_s, connections[n].arr_time_s>> \in Nat \X Nat
    <3>1. \A n \in 1 .. Len(connections) : connections[n] \in Connections
      BY <1>1, ElementOfSeq
    <3>. QED
      BY <3>1 DEF Connections
  <2>. QED
    BY <2>1
<1>4. Sorts(keys, connections, f)
  <2>. HIDE DEF keys
  <2>. QED
    BY <1>1, <1>2, <1>3, OrderingFacts
<1>5. /\ f \in [1 .. Len(connections) -> 1 .. Len(connections)]
      /\ \A i \in 1 .. Len(connections) : \E n \in 1 .. Len(connections) : f[n] = i
      /\ Len(connections') = Len(connections)
      /\ \A n \in 1 .. Len(connections) : connections'[n] = connections[f[n]]
  BY <1>2, <1>4 DEF Sorts
<1>6. connections' \in Seq(Connections)
  <2>1. \A n \in 1 .. Len(connections) : connections[f[n]] \in Connections
    BY <1>1, <1>5, ElementOfSeq
  <2>. QED
    BY <2>1, <1>1, <1>2, IsASeq DEF Reordered
<1>7. ASSUME NEW m \in 1 .. Len(connections'), NEW n \in 1 .. Len(connections'), m <= n
      PROVE  connections'[m].dep_time_s <= connections'[n].dep_time_s
  <2>1. /\ connections[f[m]] \in Connections /\ connections[f[n]] \in Connections
        /\ f[m] \in 1 .. Len(connections) /\ f[n] \in 1 .. Len(connections)
    BY <1>1, <1>5, <1>7, ElementOfSeq
  <2>2. /\ connections[f[m]].dep_time_s \in Nat /\ connections[f[n]].dep_time_s \in Nat
    BY <2>1 DEF Connections
  <2>3. CASE m = n
    <3>1. connections'[m] = connections'[n] /\ connections'[m] = connections[f[m]]
      BY <2>3, <1>5, <1>7
    <3>. QED
      BY <3>1, <2>2
  <2>4. CASE m < n
    <3>1. Less(keys[f[m]], keys[f[n]]) \/ keys[f[m]] = keys[f[n]]
      <4>. HIDE DEF keys
      <4>. QED
        BY <2>4, <1>4, <1>5, <1>7 DEF Sorts
    <3>2. /\ keys[f[m]] = <<connections[f[m]].dep_time_s, connections[f[m]].arr_time_s>>
          /\ keys[f[n]] = <<connections[f[n]].dep_time_s, connections[f[n]].arr_time_s>>
      BY <2>1
    <3>. HIDE DEF keys
    <3>3. \/ Less(<<connections[f[m]].dep_time_s, connections[f[m]].arr_time_s>>,
                  <<connections[f[n]].dep_time_s, connections[f[n]].arr_time_s>>)
          \/ <<connections[f[m]].dep_time_s, connections[f[m]].arr_time_s>> =
                <<connections[f[n]].dep_time_s, connections[f[n]].arr_time_s>>
      BY <3>1, <3>2
    <3>4. connections[f[m]].dep_time_s <= connections[f[n]].dep_time_s
      BY <3>3, <2>2 DEF Less
    <3>. QED
      BY <3>4, <1>5, <1>7
  <2>. QED
    BY <2>3, <2>4, <1>1, <1>5, <1>7
<1>8. FeedTypeOK'
  BY <1>1, <1>6, <1>7 DEF FeedInv, FeedTypeOK
<1>9. ReadOK' /\ EntriesOK'
  BY <1>1, SameFiles DEF FeedInv, ReadOK, EntriesOK
<1>10. OrderOK'
  BY <1>1 DEF FeedInv, OrderOK
<1>11. SortOK'
  <2>1. \A u : Waiting(u)' <=> Waiting(u)
    BY <1>1 DEF Waiting
  <2>. QED
    BY <2>1, <1>1, SameFiles DEF FeedInv, SortOK
<1>12. JoinOK'
  <2>1. \A k, l : /\ (FollowedBy(k, l)' <=> FollowedBy(k, l)) /\ (Known(k)' <=> Known(k))
                  /\ StopTime(k)' = StopTime(k)
                  /\ \A u : /\ Connection(u, k, l)' = Connection(u, k, l)
                            /\ Behind(u, k)' <=> Behind(u, k)
    BY <1>1, SameFiles DEF Behind, InOrder
  <2>2. (\A c \in 1 .. Len(connections) : \E k, l \in 1 .. N :
            /\ FollowedBy(k, l) /\ Known(k) /\ Known(l)
            /\ connections[c] = Connection(StopTime(k).trip_id, k, l))'
    <3>1. ASSUME NEW c \in 1 .. Len(connections')
          PROVE  \E k, l \in 1 .. N :
                    /\ FollowedBy(k, l) /\ Known(k) /\ Known(l)
                    /\ connections'[c] = Connection(StopTime(k).trip_id, k, l)
      <4>1. f[c] \in 1 .. Len(connections) /\ connections'[c] = connections[f[c]]
        BY <3>1, <1>5
      <4>. QED
        BY <4>1 DEF FeedInv, JoinOK
    <3>. QED
      BY <3>1, <1>1, <2>1, SameFiles
  <2>3. (\A u \in Ids : \A n \in 1 .. Len(entries[u]) - 1, k, l \in 1 .. row :
           (entries[u][n] = k /\ entries[u][n + 1] = l /\ Known(k) /\ Known(l) /\ Behind(u, n)) =>
              \E c \in 1 .. Len(connections) : connections[c] = Connection(u, k, l))'
    <3>1. ASSUME NEW u \in Ids, NEW n \in 1 .. Len(entries[u]) - 1, NEW k \in 1 .. row, NEW l \in 1 .. row,
                 entries[u][n] = k, entries[u][n + 1] = l, Known(k), Known(l), Behind(u, n)
          PROVE  \E c \in 1 .. Len(connections') : connections'[c] = Connection(u, k, l)
      <4>1. PICK c \in 1 .. Len(connections) : connections[c] = Connection(u, k, l)
        BY <3>1 DEF FeedInv, JoinOK
      <4>2. PICK b \in 1 .. Len(connections) : f[b] = c
        BY <1>5, <4>1
      <4>. QED
        BY <4>1, <4>2, <1>5
    <3>2. ASSUME NEW u \in Ids, NEW n \in 1 .. Len(entries'[u]) - 1, NEW k \in 1 .. row', NEW l \in 1 .. row',
                 entries'[u][n] = k, entries'[u][n + 1] = l, Known(k)', Known(l)', Behind(u, n)'
          PROVE  (\E c \in 1 .. Len(connections) : connections[c] = Connection(u, k, l))'
      <4>1. Known(k) /\ Known(l) /\ Behind(u, n)
        BY <3>2, <2>1
      <4>. QED
        BY <4>1, <3>1, <3>2, <1>1, <2>1
    <3>. QED
      BY <3>2
  <2>. QED
    BY <2>2, <2>3 DEF JoinOK
<1>. QED
  BY <1>8, <1>9, <1>10, <1>11, <1>12 DEF FeedInv

-----------------------------------------------------------------------------
LEMMA FeedInvStep == FeedInv /\ [FeedNext]_feedVars => FeedInv'
<1>. SUFFICES ASSUME FeedInv, [FeedNext]_feedVars PROVE FeedInv'
  OBVIOUS
<1>1. CASE ReadStops
  BY <1>1, StopsStep
<1>2. CASE ReadStopTime
  BY <1>2, RowStep
<1>3. CASE AllRead
  BY <1>3, AllReadStep
<1>4. CASE SortEntries
  BY <1>4, SortStep
<1>5. CASE JoinPair
  BY <1>5, JoinStep
<1>6. CASE TripJoined
  BY <1>6, TripStep
<1>7. CASE SortConnections
  BY <1>7, ConnectionsStep
<1>8. CASE UNCHANGED feedVars
  <2>1. UNCHANGED <<files, row, entries, order, pair, connections, phase>>
    BY <1>8 DEF feedVars
  <2>2. FeedTypeOK'
    BY <2>1 DEF FeedInv, FeedTypeOK
  <2>3. ReadOK' /\ EntriesOK' /\ OrderOK'
    BY <2>1, SameFiles DEF FeedInv, ReadOK, EntriesOK, OrderOK, InOrder
  <2>4. SortOK'
    BY <2>1, SameFiles DEF FeedInv, SortOK, Waiting
  <2>5. JoinOK'
    <3>1. \A k, l : /\ (FollowedBy(k, l)' <=> FollowedBy(k, l)) /\ (Known(k)' <=> Known(k))
                    /\ StopTime(k)' = StopTime(k)
                    /\ \A u : /\ Connection(u, k, l)' = Connection(u, k, l)
                              /\ Behind(u, k)' <=> Behind(u, k)
      BY <2>1, SameFiles DEF Behind, InOrder
    <3>2. (\A c \in 1 .. Len(connections) : \E k, l \in 1 .. N :
              /\ FollowedBy(k, l) /\ Known(k) /\ Known(l)
              /\ connections[c] = Connection(StopTime(k).trip_id, k, l))'
      BY <2>1, <3>1, SameFiles DEF FeedInv, JoinOK
    <3>3. (\A u \in Ids : \A n \in 1 .. Len(entries[u]) - 1, k, l \in 1 .. row :
             (entries[u][n] = k /\ entries[u][n + 1] = l /\ Known(k) /\ Known(l) /\ Behind(u, n)) =>
                \E c \in 1 .. Len(connections) : connections[c] = Connection(u, k, l))'
      <4>1. ASSUME NEW u \in Ids, NEW n \in 1 .. Len(entries'[u]) - 1, NEW k \in 1 .. row', NEW l \in 1 .. row',
                   entries'[u][n] = k, entries'[u][n + 1] = l, Known(k)', Known(l)', Behind(u, n)'
            PROVE  (\E c \in 1 .. Len(connections) : connections[c] = Connection(u, k, l))'
        <5>1. Known(k) /\ Known(l) /\ Behind(u, n) /\ Connection(u, k, l)' = Connection(u, k, l)
          BY <4>1, <3>1
        <5>2. \E c \in 1 .. Len(connections) : connections[c] = Connection(u, k, l)
          BY <4>1, <5>1, <2>1 DEF FeedInv, JoinOK
        <5>. QED
          BY <5>1, <5>2, <2>1
      <4>. QED
        BY <4>1
    <3>. QED
      BY <3>2, <3>3 DEF JoinOK
  <2>. QED
    BY <2>2, <2>3, <2>4, <2>5 DEF FeedInv
<1>. QED
  BY <1>1, <1>2, <1>3, <1>4, <1>5, <1>6, <1>7, <1>8 DEF FeedNext

LEMMA FeedInvariance == FeedSpec => []FeedInv
BY FeedInvInit, FeedInvStep, PTL DEF FeedSpec

(* The state of load_feed keeps its types, and a loaded feed is in the order of *)
(* departures that earliest_arrival scans it in.                                *)
THEOREM FeedTypeCorrect == FeedSpec => []FeedTypeOK
<1>1. FeedInv => FeedTypeOK
  BY DEF FeedInv
<1>. QED
  BY <1>1, FeedInvariance, PTL

(* What FeedInv says once everything is joined is the timetable.                *)
LEMMA InvLoads == FeedInv => LoadsTheTimetable
<1>. SUFFICES ASSUME FeedInv PROVE LoadsTheTimetable
  OBVIOUS
<1>. DEFINE hops == {p \in (1 .. N) \X (1 .. N) : FollowedBy(p[1], p[2]) /\ Known(p[1]) /\ Known(p[2])}
            timetable == {Connection(StopTime(p[1]).trip_id, p[1], p[2]) : p \in hops}
            made == {connections[n] : n \in 1 .. Len(connections)}
<1>1. files.stop_times \in Seq(StopTimes)
  BY DEF FeedInv, FeedTypeOK
<1>2. ASSUME phase = "loaded" PROVE made = timetable
  <2>1. row = N /\ order = << >>
    BY <1>2 DEF FeedInv, ReadOK, OrderOK
  <2>2. \A t \in Ids : ~InOrder(t) /\ ~Waiting(t)
    BY <2>1, OrderFacts DEF FeedInv, InOrder, Waiting
  <2>3. ASSUME NEW c \in made PROVE c \in timetable
    <3>1. PICK n \in 1 .. Len(connections) : c = connections[n]
      BY <2>3
    <3>2. PICK i \in 1 .. N, j \in 1 .. N :
             /\ FollowedBy(i, j) /\ Known(i) /\ Known(j)
             /\ connections[n] = Connection(StopTime(i).trip_id, i, j)
      BY <3>1 DEF FeedInv, JoinOK
    <3>3. <<i, j>> \in hops
      BY <3>2
    <3>. QED
      BY <3>1, <3>2, <3>3
  <2>4. ASSUME NEW c \in timetable PROVE c \in made
    <3>1. PICK p \in hops : c = Connection(StopTime(p[1]).trip_id, p[1], p[2])
      BY <2>4
    <3>2. PICK i \in 1 .. N, j \in 1 .. N : i = p[1] /\ j = p[2]
      BY <3>1
    <3>3. /\ FollowedBy(i, j) /\ Known(i) /\ Known(j)
          /\ c = Connection(StopTime(i).trip_id, i, j)
      BY <3>1, <3>2
    <3>4. PICK t \in Ids : t = StopTime(i).trip_id
      BY <3>3, <1>1, RowTypes DEF FollowedBy, Precedes
    <3>5. Kept(i) /\ Kept(j) /\ StopTime(j).trip_id = t /\ Precedes(i, j)
      BY <3>3, <3>4 DEF FollowedBy, Precedes
    <3>6. PICK m \in 1 .. Len(entries[t]) : entries[t][m] = i
      BY <3>4, <3>5, <2>1, <1>2 DEF FeedInv, EntriesOK
    <3>7. PICK n \in 1 .. Len(entries[t]) : entries[t][n] = j
      BY <3>4, <3>5, <2>1, <1>2 DEF FeedInv, EntriesOK
    <3>8. /\ Len(entries[t]) \in Nat
          /\ \A k \in 1 .. Len(entries[t]) : entries[t][k] \in 1 .. N
      BY <2>1, EntryFacts DEF FeedInv
    <3>9. \A a, b \in 1 .. Len(entries[t]), k, l \in 1 .. N :
             a < b /\ entries[t][a] = k /\ entries[t][b] = l => Precedes(k, l)
      BY <2>1, <2>2 DEF FeedInv, SortOK
    <3>10. ~Precedes(j, i) /\ i # j
      BY <1>1, <3>5, PrecedesIsStrict
    <3>11. m < n
      <4>1. ~(n < m)
        BY <3>6, <3>7, <3>9, <3>10
      <4>2. n # m
        BY <3>6, <3>7, <3>10
      <4>. QED
        BY <4>1, <4>2, <3>8
    <3>12. n = m + 1
      <4>1. SUFFICES ASSUME n # m + 1 PROVE FALSE
        OBVIOUS
      <4>2. m + 1 \in 1 .. Len(entries[t]) /\ m < m + 1 /\ m + 1 < n
        BY <4>1, <3>8, <3>11
      <4>3. PICK k \in 1 .. N : k = entries[t][m + 1]
        BY <4>2, <3>8
      <4>4. Precedes(i, k) /\ Precedes(k, j)
        BY <4>2, <4>3, <3>6, <3>7, <3>9
      <4>. QED
        BY <4>4, <3>3 DEF FollowedBy, N
    <3>13. m \in 1 .. Len(entries[t]) - 1 /\ entries[t][m + 1] = j /\ Behind(t, m)
      BY <3>7, <3>8, <3>12, <2>2 DEF Behind
    <3>14. PICK k \in 1 .. Len(connections) : connections[k] = Connection(t, i, j)
      BY <3>3, <3>6, <3>13, <2>1 DEF FeedInv, JoinOK
    <3>. QED
      BY <3>3, <3>4, <3>14
  <2>. QED
    BY <2>3, <2>4
<1>3. phase # "stops" => (phase = "raised" <=> ~StopsParse \/ \E i \in 1 .. row : Kept(i) /\ ~Parses(i))
  BY DEF FeedInv, FeedTypeOK, ReadOK
<1>. QED
  BY <1>2, <1>3 DEF LoadsTheTimetable, N

(* However rows, trips and stops are ordered, and whatever ids they lack, a     *)
(* loaded feed has the hops of the timetable and no others, and load_feed fails *)
(* only on a place or a time that does not parse.                               *)
THEOREM LoadsTheTimetableHolds == FeedSpec => []LoadsTheTimetable
BY InvLoads, FeedInvariance, PTL
=============================================================================
