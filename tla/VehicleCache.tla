----------------------------- MODULE VehicleCache -----------------------------
(* HttpGtfsRealtimeVehicleProvider.list_vehicles: coroutines of one event loop *)
(* that ask for the vehicles of a GTFS-Realtime feed, each through the         *)
(* provider its RealtimeViewService was given. A provider serialises them with *)
(* an asyncio.Lock and keeps the last answer for TTL. A step runs from one     *)
(* await to the next; vehicles are reduced to when the agency published them   *)
(* and whether there are any. GTFS_RT_VEHICLE_POSITIONS_URL is set: without it *)
(* get_realtime_view_service makes no provider.                                *)
EXTENDS Integers, Sequences

CONSTANTS
    Requests,     \* calls of GET /realtime/vehicles
    Providers,    \* HttpGtfsRealtimeVehicleProvider objects
    Wirings,      \* which provider a request may get: a set of functions
    TTL,          \* GTFS_RT_CACHE_TTL_S
    MaxTime,      \* bound on the clock
    MaxFaults     \* bound on failed fetches

ASSUME VehicleCacheAssumption ==
    /\ Wirings \subseteq [Requests -> Providers]
    /\ TTL \in Nat
    /\ MaxTime \in Nat
    /\ MaxFaults \in Nat

VARIABLES
    now,          \* time.monotonic()
    owner,        \* the provider a request uses
    queue,        \* the _lock of a provider: its holder, then the waiters in order
    pc,           \* where a request is in list_vehicles
    content,      \* the response a request has received
    cache,        \* _cached_vehicles and _cached_at_monotonic of a provider
    answer,       \* what a request returned
    faults,       \* failed fetches so far (bound)
    lastGood      \* history: when any provider last stored a non-empty feed

vars == <<now, owner, queue, pc, content, cache, answer, faults, lastGood>>

Never == -1
Times == 0..MaxTime
Steps == {"new", "waiting", "fetching", "parsing", "answered", "raised"}
Feeds == [seen : Times, any : BOOLEAN]
NoVehicles == [seen |-> 0, any |-> FALSE]

Init ==
    /\ now = 0
    /\ owner \in Wirings
    /\ queue = [p \in Providers |-> <<>>]
    /\ pc = [r \in Requests |-> "new"]
    /\ content = [r \in Requests |-> NoVehicles]
    /\ cache = [p \in Providers |-> [feed |-> NoVehicles, at |-> 0]]
    /\ answer = [r \in Requests |-> NoVehicles]
    /\ faults = 0
    /\ lastGood = Never

Goto(r, step) == pc' = [pc EXCEPT ![r] = step]

(* Definitions named ..._<Fault> are mutants of the definition below them.     *)
HasLock_Unlocked(r) == pc[r] = "waiting"
HasLock(r) ==
    pc[r] = "waiting" /\ queue[owner[r]] # <<>> /\ Head(queue[owner[r]]) = r

(* asyncio.Lock wakes its waiters in the order in which they came, and no      *)
(* newcomer overtakes a waiter.                                                *)
Release_Kept(r) == UNCHANGED queue
Release(r) == queue' = [queue EXCEPT ![owner[r]] = Tail(@)]

Call(r) ==
    /\ pc[r] = "new"
    /\ queue' = [queue EXCEPT ![owner[r]] = Append(@, r)]
    /\ Goto(r, "waiting")
    /\ UNCHANGED <<now, owner, content, cache, answer, faults, lastGood>>

(* An empty tuple is falsy: a feed without vehicles is never served from the   *)
(* cache.                                                                      *)
Usable_OneLater(p) == cache[p].feed.any /\ now - cache[p].at <= TTL
Usable(p) == cache[p].feed.any /\ now - cache[p].at < TTL

Hit(r) ==
    /\ HasLock(r) /\ Usable(owner[r])
    /\ answer' = [answer EXCEPT ![r] = cache[owner[r]].feed]
    /\ Goto(r, "answered")
    /\ Release(r)
    /\ UNCHANGED <<now, owner, content, cache, faults, lastGood>>

Miss(r) ==
    /\ HasLock(r) /\ ~Usable(owner[r])
    /\ Goto(r, "fetching")
    /\ UNCHANGED <<now, owner, queue, content, cache, answer, faults, lastGood>>

(* The agency answers with what it knows at that moment; without the protobuf  *)
(* package the parser returns no vehicles for whatever it is given.            *)
Respond(r) ==
    /\ pc[r] = "fetching"
    /\ \E any \in BOOLEAN :
          content' = [content EXCEPT ![r] = [seen |-> now, any |-> any]]
    /\ Goto(r, "parsing")
    /\ UNCHANGED <<now, owner, queue, cache, answer, faults, lastGood>>

(* A timeout, an HTTP error, a malformed feed: the exception leaves the async  *)
(* with block, which releases the lock; an old answer in the cache stays.      *)
FetchFails(r) ==
    /\ pc[r] \in {"fetching", "parsing"}
    /\ faults < MaxFaults
    /\ faults' = faults + 1
    /\ Goto(r, "raised")
    /\ Release(r)
    /\ UNCHANGED <<now, owner, content, cache, answer, lastGood>>

(* The cache is dated when the response has been parsed, not when it was made. *)
Store_DatedByExpiry(r) ==
    /\ pc[r] = "parsing"
    /\ cache' = [cache EXCEPT ![owner[r]] = [feed |-> content[r], at |-> now + TTL]]
    /\ answer' = [answer EXCEPT ![r] = content[r]]
    /\ Goto(r, "answered")
    /\ Release(r)
    /\ lastGood' = IF content[r].any THEN now ELSE lastGood
    /\ UNCHANGED <<now, owner, content, faults>>
Store(r) ==
    /\ pc[r] = "parsing"
    /\ cache' = [cache EXCEPT ![owner[r]] = [feed |-> content[r], at |-> now]]
    /\ answer' = [answer EXCEPT ![r] = content[r]]
    /\ Goto(r, "answered")
    /\ Release(r)
    /\ lastGood' = IF content[r].any THEN now ELSE lastGood
    /\ UNCHANGED <<now, owner, content, faults>>

Tick ==
    /\ now < MaxTime
    /\ now' = now + 1
    /\ UNCHANGED <<owner, queue, pc, content, cache, answer, faults, lastGood>>

Next ==
    \/ \E r \in Requests :
          Call(r) \/ Hit(r) \/ Miss(r) \/ Respond(r) \/ FetchFails(r) \/ Store(r)
    \/ Tick

Spec == Init /\ [][Next]_vars

(* The event loop runs every coroutine that can go on, and httpx gives up on a *)
(* silent server after GTFS_RT_TIMEOUT_S, so a fetch always comes to an end.   *)
Ended(r) == Respond(r) \/ FetchFails(r)
FairSpec ==
    /\ Spec
    /\ \A r \in Requests :
          /\ WF_vars(Hit(r)) /\ WF_vars(Miss(r))
          /\ WF_vars(Ended(r)) /\ WF_vars(Store(r) \/ FetchFails(r))

-------------------------------------------------------------------------------
(* The state a provider and its callers can be in. A cached feed is dated no    *)
(* earlier than what it holds was published, and never in the future.          *)
TypeOK ==
    /\ now \in Times
    /\ owner \in [Requests -> Providers]
    /\ queue \in [Providers -> Seq(Requests)]
    /\ pc \in [Requests -> Steps]
    /\ content \in [Requests -> Feeds]
    /\ cache \in [Providers -> [feed : Feeds, at : Times]]
    /\ \A p \in Providers : cache[p].feed.seen <= cache[p].at /\ cache[p].at <= now
    /\ answer \in [Requests -> Feeds]
    /\ faults \in 0..MaxFaults
    /\ lastGood \in Times \cup {Never}

(* However many requests wait while the agency is slow, a provider has one     *)
(* fetch under way: the check of the cache and the store are one critical      *)
(* section although the coroutine is suspended between them.                   *)
Fetching(r) == pc[r] \in {"fetching", "parsing"}
OneFetchAtATime ==
    \A r, s \in Requests :
        Fetching(r) /\ Fetching(s) /\ owner[r] = owner[s] => r = s

(* Answers of one provider never go back in time: who is answered later sees   *)
(* vehicles at least as recent as anybody answered before, whether from the    *)
(* cache or from a fetch of his own.                                           *)
AnswersInOrder ==
    [][ \A r, s \in Requests :
          (pc[s] = "answered" /\ pc[r] # "answered" /\ pc'[r] = "answered"
            /\ owner[r] = owner[s])
          => answer'[r].seen >= answer[s].seen ]_vars

(* The delay that a request sees is at most TTL plus the transfer of the one   *)
(* fetch: an answer was stored less than TTL before, also for a request that   *)
(* waited for the lock; only an empty answer or a zero TTL forces a fetch.     *)
AnswersAreFresh ==
    [][ \A r \in Requests :
          (pc[r] # "answered" /\ pc'[r] = "answered")
          => /\ answer'[r] = cache'[owner[r]].feed
             /\ cache'[owner[r]].at = now \/ now - cache'[owner[r]].at < TTL ]_vars

(* A request that has begun is answered or fails, whatever the failures of     *)
(* those before it in the queue.                                               *)
EveryRequestEnds ==
    \A r \in Requests : pc[r] = "waiting" ~> pc[r] \in {"answered", "raised"}

(* The docstring of the provider: the cache is shared across requests, so no   *)
(* request fetches within TTL of a non-empty answer to any other.              *)
SharedCache ==
    [][ \A r \in Requests :
          (pc[r] # "fetching" /\ pc'[r] = "fetching")
          => lastGood = Never \/ now - lastGood >= TTL ]_vars
===============================================================================
