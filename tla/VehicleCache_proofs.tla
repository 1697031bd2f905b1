------------------------- MODULE VehicleCache_proofs -------------------------
(* What the cache of a realtime vehicle provider promises for any number of    *)
(* requests and providers, any way to share them, any TTL and any failures.    *)
EXTENDS VehicleCache, SequenceTheorems, TLAPS

(* The coroutine between check and store is the head of its provider's queue.  *)
HolderFetches ==
    \A r \in Requests : Fetching(r) =>
        queue[owner[r]] # <<>> /\ Head(queue[owner[r]]) = r

(* A cached feed is as new as all answers given, as old as the one under way.  *)
FeedsInOrder ==
    /\ \A p \in Providers : cache[p].feed.seen <= now
    /\ \A r \in Requests :
          /\ pc[r] = "answered" => answer[r].seen <= cache[owner[r]].feed.seen
          /\ pc[r] = "parsing" => cache[owner[r]].feed.seen <= content[r].seen
                                  /\ content[r].seen <= now

IInv == TypeOK /\ HolderFetches /\ FeedsInOrder

(* The operations of a queue on its head.                                      *)
LEMMA QueueFacts ==
    ASSUME NEW S, NEW q \in Seq(S), NEW s \in S
    PROVE  /\ Append(q, s) \in Seq(S) /\ Append(q, s) # <<>>
           /\ q # <<>> => Head(Append(q, s)) = Head(q) /\ Tail(q) \in Seq(S)
BY AppendProperties, HeadTailAppend, HeadTailProperties

(* The initial state satisfies the inductive invariant.                        *)
LEMMA InitIInv == Init => IInv
<1> SUFFICES ASSUME Init PROVE IInv
  OBVIOUS
<1> USE VehicleCacheAssumption DEF Init, Times, Feeds, NoVehicles, Steps, Never
<1>1. TypeOK
  BY DEF TypeOK
<1>2. HolderFetches
  BY DEF HolderFetches, Fetching
<1>3. FeedsInOrder
  BY DEF FeedsInOrder
<1> QED
  BY <1>1, <1>2, <1>3 DEF IInv

(* Every step of a request or of the clock preserves the types.                *)
LEMMA TypeStep == IInv /\ [Next]_vars => TypeOK'
<1> SUFFICES ASSUME IInv, [Next]_vars PROVE TypeOK'
  OBVIOUS
<1> USE VehicleCacheAssumption DEF IInv, TypeOK, Goto, Steps
<1>1. ASSUME NEW r \in Requests, Call(r) PROVE TypeOK'
  BY <1>1, QueueFacts DEF Call
<1>2. ASSUME NEW r \in Requests, Hit(r) PROVE TypeOK'
  <2>1. queue' \in [Providers -> Seq(Requests)]
    BY <1>2, QueueFacts DEF Hit, HasLock, Release
  <2>2. answer' \in [Requests -> Feeds]
    BY <1>2 DEF Hit
  <2> QED BY <1>2, <2>1, <2>2 DEF Hit
<1>3. ASSUME NEW r \in Requests, Miss(r) PROVE TypeOK'
  BY <1>3 DEF Miss
<1>4. ASSUME NEW r \in Requests, Respond(r) PROVE TypeOK'
  BY <1>4 DEF Respond, Feeds
<1>5. ASSUME NEW r \in Requests, FetchFails(r) PROVE TypeOK'
  <2>1. queue' \in [Providers -> Seq(Requests)]
    BY <1>5, QueueFacts DEF FetchFails, HolderFetches, Fetching, Release
  <2> QED BY <1>5, <2>1 DEF FetchFails
<1>6. ASSUME NEW r \in Requests, Store(r) PROVE TypeOK'
  <2>1. queue' \in [Providers -> Seq(Requests)]
    BY <1>6, QueueFacts DEF Store, HolderFetches, Fetching, Release
  <2>2. cache' \in [Providers -> [feed : Feeds, at : Times]]
    BY <1>6 DEF Store
  <2>4. \A p \in Providers : cache'[p].feed.seen <= cache'[p].at /\ cache'[p].at <= now'
    <3> SUFFICES ASSUME NEW p \in Providers
                 PROVE  cache'[p].feed.seen <= cache'[p].at /\ cache'[p].at <= now'
      OBVIOUS
    <3>1. CASE p = owner[r]
      <4>1. cache'[p] = [feed |-> content[r], at |-> now] /\ now' = now
        BY <1>6, <3>1 DEF Store
      <4>2. content[r].seen <= now
        BY <1>6 DEF Store, FeedsInOrder
      <4> QED BY <4>1, <4>2 DEF Times
    <3>2. CASE p # owner[r]
      BY <1>6, <3>2 DEF Store
    <3> QED BY <3>1, <3>2
  <2>3. answer' \in [Requests -> Feeds] /\ lastGood' \in Times \cup {Never}
    BY <1>6 DEF Store
  <2> QED BY <1>6, <2>1, <2>2, <2>3, <2>4 DEF Store
<1>7. CASE Tick
  BY <1>7 DEF Tick, Times
<1>8. CASE UNCHANGED vars
  BY <1>8 DEF vars
<1> QED
  BY <1>1, <1>2, <1>3, <1>4, <1>5, <1>6, <1>7, <1>8 DEF Next

(* Only its holder gives a lock up, and nobody enters at the head of a queue   *)
(* that has one.                                                               *)
LEMMA HolderStep == IInv /\ [Next]_vars => HolderFetches'
<1> SUFFICES ASSUME IInv, [Next]_vars PROVE HolderFetches'
  OBVIOUS
<1> USE DEF IInv, TypeOK, HolderFetches, Fetching, Goto
<1>1. ASSUME NEW r \in Requests, Call(r) PROVE HolderFetches'
  <2> SUFFICES ASSUME NEW s \in Requests, pc'[s] \in {"fetching", "parsing"}
               PROVE  queue'[owner'[s]] # <<>> /\ Head(queue'[owner'[s]]) = s
    OBVIOUS
  <2>1. s # r /\ pc[s] = pc'[s] /\ owner'[s] = owner[s]
    BY <1>1 DEF Call
  <2>2. queue[owner[s]] # <<>> /\ Head(queue[owner[s]]) = s
    BY <2>1
  <2>3. CASE owner[s] = owner[r]
    <3>1. queue'[owner[s]] = Append(queue[owner[s]], r)
      BY <1>1, <2>3 DEF Call
    <3>2. queue[owner[s]] \in Seq(Requests)
      OBVIOUS
    <3>3. /\ Append(queue[owner[s]], r) # <<>>
          /\ Head(Append(queue[owner[s]], r)) = Head(queue[owner[s]])
      <4> HIDE DEF IInv, TypeOK, HolderFetches
      <4> QED BY <2>2, <3>2, QueueFacts
    <3> QED BY <2>1, <2>2, <3>1, <3>3
  <2>4. CASE owner[s] # owner[r]
    BY <1>1, <2>1, <2>2, <2>4 DEF Call
  <2> QED BY <2>3, <2>4
<1>2. ASSUME NEW r \in Requests, Hit(r) PROVE HolderFetches'
  BY <1>2 DEF Hit, HasLock, Release
<1>3. ASSUME NEW r \in Requests, Miss(r) PROVE HolderFetches'
  BY <1>3 DEF Miss, HasLock
<1>4. ASSUME NEW r \in Requests, Respond(r) PROVE HolderFetches'
  BY <1>4 DEF Respond
<1>5. ASSUME NEW r \in Requests, FetchFails(r) PROVE HolderFetches'
  BY <1>5 DEF FetchFails, Release
<1>6. ASSUME NEW r \in Requests, Store(r) PROVE HolderFetches'
  BY <1>6 DEF Store, Release
<1>7. CASE Tick
  BY <1>7 DEF Tick
<1>8. CASE UNCHANGED vars
  BY <1>8 DEF vars
<1> QED
  BY <1>1, <1>2, <1>3, <1>4, <1>5, <1>6, <1>7, <1>8 DEF Next

(* A store replaces a feed by a later one: the fetch began after the previous  *)
(* store, since both held the lock.                                            *)
LEMMA FeedsStep == IInv /\ [Next]_vars => FeedsInOrder'
<1> SUFFICES ASSUME IInv, [Next]_vars PROVE FeedsInOrder'
  OBVIOUS
<1> USE VehicleCacheAssumption DEF IInv, TypeOK, FeedsInOrder, Goto, Feeds, Times
<1>1. ASSUME NEW r \in Requests, Call(r) PROVE FeedsInOrder'
  BY <1>1 DEF Call
<1>2. ASSUME NEW r \in Requests, Hit(r) PROVE FeedsInOrder'
  BY <1>2 DEF Hit
<1>3. ASSUME NEW r \in Requests, Miss(r) PROVE FeedsInOrder'
  BY <1>3 DEF Miss
<1>4. ASSUME NEW r \in Requests, Respond(r) PROVE FeedsInOrder'
  BY <1>4 DEF Respond
<1>5. ASSUME NEW r \in Requests, FetchFails(r) PROVE FeedsInOrder'
  BY <1>5 DEF FetchFails
<1>6. ASSUME NEW r \in Requests, Store(r) PROVE FeedsInOrder'
  <2>1. /\ cache[owner[r]].feed.seen <= content[r].seen
        /\ content[r].seen <= now
    BY <1>6 DEF Store
  <2>2. \A s \in Requests \ {r} : owner[s] = owner[r] => pc[s] # "parsing"
    BY <1>6 DEF Store, HolderFetches, Fetching
  <2>3. \A p \in Providers : cache'[p].feed.seen =
            IF p = owner[r] THEN content[r].seen ELSE cache[p].feed.seen
    BY <1>6 DEF Store
  <2>4. \A p \in Providers : cache'[p].feed.seen <= now'
    BY <1>6, <2>1, <2>3 DEF Store
  <2>5. ASSUME NEW s \in Requests
        PROVE  /\ pc'[s] = "answered" =>
                      answer'[s].seen <= cache'[owner'[s]].feed.seen
               /\ pc'[s] = "parsing" =>
                      cache'[owner'[s]].feed.seen <= content'[s].seen
                      /\ content'[s].seen <= now'
    <3>1. CASE s = r
      BY <1>6, <2>3, <3>1 DEF Store
    <3>2. CASE s # r
      <4>1. pc'[s] = pc[s] /\ answer'[s] = answer[s] /\ content'[s] = content[s]
        BY <1>6, <3>2 DEF Store
      <4>2. owner'[s] = owner[s] /\ now' = now
        BY <1>6 DEF Store
      <4>3. /\ answer[s].seen \in Int /\ content[r].seen \in Int
            /\ cache[owner[r]].feed.seen \in Int
        OBVIOUS
      <4>4. CASE owner[s] = owner[r]
        BY <2>1, <2>2, <2>3, <3>2, <4>1, <4>2, <4>3, <4>4
      <4>5. CASE owner[s] # owner[r]
        BY <2>3, <4>1, <4>2, <4>5
      <4> QED BY <4>4, <4>5
    <3> QED BY <3>1, <3>2
  <2> QED BY <2>4, <2>5
<1>7. CASE Tick
  BY <1>7 DEF Tick
<1>8. CASE UNCHANGED vars
  BY <1>8 DEF vars
<1> QED
  BY <1>1, <1>2, <1>3, <1>4, <1>5, <1>6, <1>7, <1>8 DEF Next

(* The inductive invariant holds in every reachable state.                     *)
LEMMA Inductive == Spec => []IInv
<1>1. IInv /\ [Next]_vars => IInv'
  BY TypeStep, HolderStep, FeedsStep DEF IInv
<1> QED
  BY InitIInv, <1>1, PTL DEF Spec

(* The state keeps its types for every set of requests, providers and wirings. *)
THEOREM CacheTypeCorrect == Spec => []TypeOK
<1>1. IInv => TypeOK
  BY DEF IInv
<1> QED
  BY Inductive, <1>1, PTL

(* list_vehicles: one provider never has two fetches under way.                *)
THEOREM OneFetchHolds == Spec => []OneFetchAtATime
<1>1. IInv => OneFetchAtATime
  BY DEF IInv, HolderFetches, OneFetchAtATime
<1> QED
  BY Inductive, <1>1, PTL

(* list_vehicles: the answers of one provider never go back in time.           *)
THEOREM AnswersInOrderHolds == Spec => AnswersInOrder
<1> DEFINE Ordered == \A r, s \in Requests :
          (pc[s] = "answered" /\ pc[r] # "answered" /\ pc'[r] = "answered"
            /\ owner[r] = owner[s])
          => answer'[r].seen >= answer[s].seen
<1>1. ASSUME IInv, IInv', [Next]_vars PROVE [Ordered]_vars
  <2> SUFFICES ASSUME NEW r \in Requests, NEW s \in Requests, Next,
                      pc[s] = "answered", pc[r] # "answered",
                      pc'[r] = "answered", owner[r] = owner[s]
               PROVE  answer'[r].seen >= answer[s].seen
    BY <1>1
  <2>1. Hit(r) \/ Store(r)
    <3>1. pc \in [Requests -> Steps]
      BY <1>1 DEF IInv, TypeOK
    <3>2. ASSUME NEW q \in Requests, Call(q) \/ Miss(q) \/ Respond(q) \/ FetchFails(q) PROVE FALSE
      BY <3>1, <3>2 DEF Call, Miss, Respond, FetchFails, Goto
    <3>3. ASSUME NEW q \in Requests, q # r, Hit(q) \/ Store(q) PROVE FALSE
      BY <3>1, <3>3 DEF Hit, Store, Goto
    <3>4. ASSUME Tick PROVE FALSE
      BY <3>4 DEF Tick
    <3> QED
      BY <3>2, <3>3, <3>4 DEF Next
  <2> USE VehicleCacheAssumption DEF IInv, TypeOK, FeedsInOrder, Goto, Feeds, Times
  <2>2. answer[s].seen <= cache[owner[r]].feed.seen
    BY <1>1
  <2>3. answer[s].seen \in Int /\ cache[owner[r]].feed.seen \in Int
    BY <1>1
  <2>4. CASE Hit(r)
    BY <1>1, <2>2, <2>3, <2>4 DEF Hit
  <2>5. CASE Store(r)
    <3>1. answer'[r] = content[r] /\ content[r].seen \in Int
      BY <1>1, <2>5 DEF Store
    <3>2. cache[owner[r]].feed.seen <= content[r].seen
      BY <1>1, <2>5 DEF Store
    <3> QED BY <2>2, <2>3, <3>1, <3>2
  <2> QED BY <2>1, <2>4, <2>5
<1>2. Spec => [][Ordered]_vars
  BY Inductive, <1>1, PTL DEF Spec
<1> QED
  BY <1>2 DEF AnswersInOrder

(* list_vehicles: an answer was stored less than TTL before it is given.       *)
THEOREM FreshHolds == Spec => AnswersAreFresh
<1> DEFINE Fresh == \A r \in Requests :
          (pc[r] # "answered" /\ pc'[r] = "answered")
          => /\ answer'[r] = cache'[owner[r]].feed
             /\ cache'[owner[r]].at = now \/ now - cache'[owner[r]].at < TTL
<1>1. ASSUME IInv, [Next]_vars PROVE [Fresh]_vars
  <2> SUFFICES ASSUME NEW r \in Requests, Next, pc[r] # "answered", pc'[r] = "answered"
               PROVE  /\ answer'[r] = cache'[owner[r]].feed
                      /\ cache'[owner[r]].at = now \/ now - cache'[owner[r]].at < TTL
    BY <1>1
  <2> USE DEF IInv, TypeOK, Goto
  <2>1. Hit(r) \/ Store(r)
    BY <1>1 DEF Next, Call, Hit, Miss, Respond, FetchFails, Store, Tick
  <2>2. CASE Hit(r)
    BY <1>1, <2>2 DEF Hit, Usable
  <2>3. CASE Store(r)
    BY <1>1, <2>3 DEF Store
  <2> QED BY <2>1, <2>2, <2>3
<1>2. Spec => [][Fresh]_vars
  BY Inductive, <1>1, PTL DEF Spec
<1> QED
  BY <1>2 DEF AnswersAreFresh
===============================================================================
