# Verification of graph-transport-lpa (UrbanPath)

TLA+ models of the route planner in this repository, the TLC configurations
that check them on small instances, and TLAPS proofs about them. Paths are
written as in `PROJECT.json`, with the root of the repository as `src/`.

## The system

| Component | Code | State it keeps | Operations |
|---|---|---|---|
| Asynchronous route jobs | `src/src/app/services/route_jobs_service.py`, `src/src/adapters/api/controllers/routes.py`, `src/src/worker.py`, `src/src/adapters/messaging/sqs_queue_adapter.py`, `src/src/adapters/persistence/dynamodb_route_result_repository.py` | the items of a DynamoDB table, the messages of an SQS queue, the batch in a worker's memory | submit (put_pending, publish_request), consume_request, put_success, put_error, get |
| Earliest arrival search | `src/src/domain/algorithms/csa.py` | arrival times and predecessor connections of one search | earliest_arrival, reconstruct_connections |
| Route planner | `src/src/app/services/multimodal_routing_service.py`, `src/src/app/services/routing_helpers.py`, `src/src/domain/models/route.py` | none between calls | calculate_route, walking fallback |
| GTFS feed | `src/src/adapters/persistence/local_gtfs_repository.py` | none between calls | load_feed: tables by id, shapes, connections in order of departure |
| Prebuilt street graph | `src/src/adapters/maps/osmnx_map_adapter.py` | the GraphML file, its temporary file and its lock file, shared by the API and the workers | build or download once, load |
| Street graph cache | `src/src/adapters/maps/s3_cached_map_adapter.py` | objects in an S3 bucket, shared by the API and the workers | get, ask upstream on a miss, put, answer |
| Realtime vehicles provider | `src/src/adapters/realtime/http_gtfs_realtime_vehicle_provider.py`, `src/src/adapters/api/dependencies.py` | a cache with its time, an asyncio lock | list_vehicles |
| Realtime view | `src/src/app/services/realtime_view_service.py`, `src/src/adapters/api/controllers/realtime.py` | none between calls | routes, shapes, stops and vehicles of lines, by schedule or from a provider |
| Web client, route view | `src/web/app.js` | markers, the route on the map, the output box, the status timer, the handlers under way | compute at once, submit and poll, ask for a job, clear, switch views |
| Web client, realtime view | `src/web/app.js` | the list of lines, the selection, the layers on the map, the refresh timer, the handlers under way | select lines, draw shapes and stops, refresh vehicles, clear |
| Configuration and wiring | `src/src/adapters/aws.py`, `src/src/main.py`, schemas | none | clients, exception handlers, conversion to JSON |

How they interact: the browser posts a route request to the API, which either
computes it at once (synchronous path: planner, GTFS feed, street graph) or
writes a `PENDING` item and publishes a message (asynchronous path). Worker
processes take batches of messages, delete each from the queue *before*
processing it, run the same planner and update the item. The browser polls the
item. FastAPI runs the synchronous endpoints in a thread pool, so requests of
one API process run concurrently; API and worker processes share the prebuilt
graph file through a volume and the cached graphs through S3. Independently
the browser refreshes vehicles on a timer while the user changes the selection.

Hard behaviours: failures between two calls to different services (table and
queue), at-least-once delivery against delete-before-process, the races of
several processes to build one file, concurrent cache misses, handlers of the
web client that continue after an `await` in a state that has changed, and the
arithmetic of the timetable at its edges: files in any order, rows with holes,
stops where a vehicle waits, times beyond midnight, shapes that turn back.

What makes a component correct, in one line each; the modules state it exactly:

- jobs: an accepted job has its item and keeps its payload, an outcome is never
  taken back, and no job is lost without a failure that destroyed its message;
- search: the arrival times are the earliest, the walk back ends and is a journey
  a passenger can make;
- planner: a route comes out, its legs meet in place and time;
- GTFS feed: the connections are those of the timetable, in order of departure;
- street graph and its cache: readers see a whole file, built once; a request
  fails only for a reason of its own, one answer warms the cache, and nobody
  waits for ever;
- realtime view: a vehicle is on the map when and where its timetable and the
  drawn line say, and never goes back;
- vehicles: one fetch at a time, answers fresh and in order;
- web client: the map, the itinerary, the selection and the timer agree once the
  handlers have ended, in whatever order their answers came.

## Plan

The modules, in the order in which they were written:

| | Module | Builds on | State |
|---|---|---|---|
| 1 | `RouteJobs` | `JobBoard`, the abstract promise it implements | checked, proved |
| 2 | `Csa`, `CsaTraveller` | `CsaTraveller` adds an arbitrary passenger to `Csa` | checked, proved |
| 3 | `StreetGraphFile` | | checked as part of 8, proved |
| 4 | `VehicleCache` | | checked, proved |
| 5 | `RealtimeMap` | | checked, proved |
| 6 | `RoutePlan` | runs `Csa` as its search, and refines it | checked, proved |
| 7 | `RoutePage` | runs over `JobBoard`, hence over anything that implements it | checked, proved |
| 8 | `StreetGraphCache` | runs `StreetGraphFile` as its upstream, and refines it | checked, proved |
| 9 | `GtfsFeed` | gives `Csa` its feeds, in order of departure | checked as part of 10, proved |
| 10 | `VehiclesBySchedule` | runs `GtfsFeed`, and refines it; `Polylines` for the geometry | checked, proved |

Every safety and action property of the passing runs has a theorem. Left:
speeds, and the bearing of the line in two dimensions.

## How the models correspond to the code

Every definition that models code is listed with its lines under `map` in
`PROJECT.json`. Operators named `X_<Fault>` stand directly above `X` and are
wrong variants of it, each breaking one property; no specification uses them.

**RouteJobs.** One step is one call to SQS or DynamoDB. `table` is the DynamoDB
item reduced to its status and to which attributes it has; `box` and `body` are
the SQS messages; `pc`, `received`, `bodies`, `current` the position and memory
of each worker in `main` and `consume_request`. Each call has a variant that
fails before or after it took effect (`...Fails`), bounded by `MaxFaults`. A
batch is a set because SQS promises no order. `EnqueueRouteRequest` is
`enqueue_route_request`, which sends a message without an id. `lost` remembers
the ids of messages that a failure destroyed.

**JobBoard.** The same jobs seen from the API: `Post`, `Accept`, `Reject`,
`Finish`. `ImplementsBoard` maps the status of an item and the reply of `submit`
to it.

**Csa.** `Scan` is one iteration of `earliest_arrival`, `TraceBack` one of
`reconstruct_connections`; a missing key is `Infinity` or 0. `Feeds` and
`Initials` are the inputs; the assumption on them is what `load_feed` gives, that
feeds are sorted by departure. It does not reject a connection whose arrival is
written before its departure, and neither does `Csa`: the predecessors may then
form a cycle, and the walk back appends to its list until the process is out of
memory (`OutOfMemory`, at `Memory` connections, which is at least the length of
the feed). Two conditions name the feeds on which a property holds:
`NoEarlierFeeder`, no connection leads back before one it follows, which fails
only where one arrives before it departs; and the stricter `NoLateFeeder`, which
ties of no duration break too. `CsaTraveller` adds a passenger who rides any
connection that can be boarded.

**RoutePlan.** Extends `Csa`: its initial times come from the walks of a request
(`InitialTimes`, with the two truncations of the code), `ChooseStop` takes the
cheapest stop, and `WalkToStop`, `RideOn`, `WalkToDestination` make the legs.
Every exception `NoPathFound` leads to `WalkOnly`. Walks are durations in ticks,
`Ticks` to the second; their distance is a multiple, so the penalty of
`least_walking`, 2 s per metre at 1.4 m/s, is a factor `Dislike` of the
duration (2.8 in the code). Which connections share a trip is left open. `Rides`
are the journeys of anybody else, which `FastestArrivesFirst` compares with.

**StreetGraphFile.** One step is one system call or one long computation of
`get_street_graph`; `mode` says whether a caller is in the download or in the
build method. `path`, `tmp` and `lock` are the three files; open descriptors
follow a renamed file, as they do on Unix. `hit` remembers the callers a failure
has hit.

**StreetGraphCache.** Extends `StreetGraphFile`, which is its upstream: a request
(`req`) goes from the get (`Hit`, `Miss`, `GetFails`) through `Call` and the steps
of the file to `Put` or `PutFails`. `object` is what lies under the one key, which
an earlier version or an interrupted upload may have left `bad` or with numbers
as `text`; `bucket` is the wiring. `unstored` and `warm` are history: who failed
in its own put, and who began after an answer.

**VehicleCache.** A step runs from one `await` of `list_vehicles` to the next.
`queue` is an `asyncio.Lock`: its holder and its waiters in order. A feed is its
age and whether it has vehicles, because an empty tuple is falsy and never
served from the cache. `owner` gives every request its provider.

**GtfsFeed.** The rows of `stop_times.txt` are read one a step, then every trip
is sorted and joined pair by pair, then the connections are sorted; the tables
before them are operators (`trips_by_id`, `stops_by_id`, `ShapePoints`).
`entries` holds positions in the file instead of tuples, `order` the keys of the
dict that are left. A Python sort keeps equal keys in order: the n-th of a
sorted list is the position that has n - 1 before it (`Sorted`). An id is
`Blank` where the code skips a row, a number `Unparsed` where the conversion
raises.

**VehiclesBySchedule.** Extends `GtfsFeed` by a clock and by the requests of the
map: `ActiveByTrip` is the scan of `list_vehicles`, `Vehicle` the interpolation,
on the shape or straight, `Answer` the two together; `RouteStops` and
`RouteShapes` are what the other endpoints draw. `Polylines` has the geometry of
the realtime view and of the planner (`Slice`), on a line: a point is an
integer, so distances are exact and positions can be compared. Times are
integers over the duration of the hop.

**RealtimeMap.** The handlers of the realtime view as tasks suspended at their
awaits. `lines`, `stops` and `vehicles` are the keys of the three Maps, `leaked`
the layers on the map that none of them refers to. `vehicles` gives each bus
(`Buses`) the line its marker was made for, which the marker keeps when its bus
is answered with another line. A line that is not in `drawable` is answered with
a shape too short to draw, or none: it never enters `lines`, and every sync asks
for it again. A loop over a live `Set` is `over = Live` with the visited members;
replacing the `Set` leaves running loops on the old one.

**RoutePage.** A handler is named by its click: `sync`, `post`/`poll`/`sleep`
(the async button and its polling loop) or `look` (the poll button). All write
to one map (`drawn`), one output box and one timer. `answer` keeps the answer a
handler ended with. `hasty` and `last` are history: a user is hasty once he has
acted while a handler waited, and `last` is his latest click if he has done
nothing since. The fields can be edited at
any time, so a click may name any job or find a field missing (`Refuse`). The
API under it is `JobBoard`, and `RouteJobs` implements that, so what holds of
the page holds of it over the queue, for as many jobs as there are clicks.

## What the runs show

| Run | Instance | Distinct states | Shows |
|---|---|---|---|
| `RouteJobs_jobs` | 2 requests, 2 messages, 2 workers, batches of 2, 1 failure | 258,432 | `RowsComplete`, `StatusMatchesAttributes`, `NoSilentLoss`, `ImplementsBoard`, `Served` |
| `RouteJobs_finishes` | 1 request, 1 message, 1 worker that is restarted, 1 failure | violated | `EveryJobFinishes` fails |
| `Csa_search` | 3 stops, times 0 to 2, all feeds of up to 3 connections, of which 1 may arrive before it departs, 1 or 2 initial stops, memory for 3 | 2,079,850 | `PredecessorsExplainArrivals`, `JourneyCanBeTravelled`, `WalkBackEnds`, `EarliestWithoutLateFeeder` |
| `Csa_ties` | 3 stops, times 0 and 1, 2 connections, none of which arrives before it departs | violated | `EarliestArrival` fails |
| `RoutePlan_plan` | 3 stops, all feeds of up to 2 connections, of which 1 may arrive before it departs, walks to at most 1 stop and from 2, ticks of half a second, both preferences, memory for 2 | 1,356,372 | `LegsConnect`, `LegsInTime`, `FastestArrivesFirst`, `AlwaysARoute` |
| `StreetGraphCache_requests` | 3 processes, with and without a bucket, every configuration and object, 1 failure or kill around the file, 1 failure of S3 | 677,678 | `NeverTorn`, `PublishedOnce`, `FailsForAReason`, `OneAnswerWarmsTheCache`, `EveryRequestEnds` |
| `VehiclesBySchedule_day` | all timetables of a trip over 3 stops with times 0 to 5, in every file order, on straight, turning, reversed and too short shapes, with 6 defects; 2 trips on one line or two; a day of 4 seconds | 133,843 | `LoadsTheTimetable`, `MissingForAReason`, `VehiclesKeepToTheTimetable`, `VehiclesNeverGoBack` |
| `VehicleCache_shared` | 3 requests, 2 providers shared in every way, TTL 1, clock to 2, 1 failed fetch | 96,986 | `OneFetchAtATime`, `AnswersInOrder`, `AnswersAreFresh`, `EveryRequestEnds` |
| `VehicleCache_wiring` | 2 requests with a provider each | violated | `SharedCache` fails |
| `RealtimeMap_map` | 2 lines with a shape or without, 1 bus, 3 tasks at a time, 4 clicks | 713,137 | `QuietMapShowsSelection`, `LeaksNeedOverlap`, `SyncDrawsSelection` |
| `RealtimeMap_overlap` | 1 line, 1 bus, 2 tasks, 6 clicks | violated | `SyncRemovesUnselected` fails |
| `RoutePage_clicks` | 2 clicks, 2 polling rounds, 1 load of the lines at a time | 253,835 | `MapAgreesWithItinerary`, `TimerStops`, `PatientUserSeesLatest`, `EveryClickEnds` |

Each passing run but `Csa_search` also checks one type invariant; that of `Csa`
is proved only. Four of them say more than types: a loaded feed is in order
(`GtfsFeed`), no graph with text for numbers is handed out (`StreetGraphCache`),
a cached feed is dated between its publication and now (`VehicleCache`), and no
request for vehicles goes out without a line, which the API would answer with
the buses of all (`RealtimeMap`).

**Why the bounds are enough.** Every hazard needs few actors: two deliveries of
one request to two workers beside a second request, a holder and two waiters of
a lock, two overlapping handlers and a third to clean up after them. Two
messages are one request sent twice or two requests in a batch. Three connections
over three stops give a journey with a change, a detour that improves a stop
already reached, the tie of `Csa_ties`, and a cycle of predecessors: a ride out
and one back that arrives before the ride out began. One such connection is
enough for that, and the process is killed in both runs; any larger `Memory`
only delays it. In `RoutePlan_plan` a feed of two connections suffices, because
the length of a journey is the search's business; walks of one and three half
seconds make both truncations bite. In `RealtimeMap_map` one bus suffices, since
each marker is treated by itself. One
failure is any failure at any step; the cache run has one around the file and
one of S3, so that one can strike the work of recovering from the other.
`EveryRequestEnds` of the cache watches one process; the others are free, and
processes are interchangeable.

In `VehiclesBySchedule_day` three stops are two hops and the stop between them;
times 0 to 5 on a day of 4 give hops of no duration, waits, trips that end after
midnight and trips that lie wholly beyond it. One shape of each kind decides
whether it is followed: in the direction of the trip, against it, with a turn
that passes a place twice, with one point, and none. Two trips share the line
or not. The defects are a stop missing in `stops.txt`, a trip missing in
`trips.txt`, rows without ids, a place and a time that do not parse, and times
that go back beside a trip of one row.

The proofs, below, remove the bounds for all safety and action properties.

**Deadlock** is checked for `RouteJobs` and `StreetGraphCache`, which run for
ever. The other systems really stop: a search and a route end, or the search has
filled the memory; a load that raised has no next step; requests and clicks are
used up by the bound; the clock of the cache reaches its bound.

**Fairness.**
- `RouteJobs`: a worker that runs takes its next step, and SQS makes an
  unacknowledged message visible again. Nothing obliges a failure, a submission
  or, except in `RestartedSpec`, a restart to happen.
- `StreetGraphCache`: a process goes on when it can, in its request as in the file
  below it; downloads, builds and calls to S3 end, and the kernel grants a free
  lock to a caller that waits for it. With a bounded number of failures and
  callers that find the file once it is there, weak fairness does. Nobody has to
  make a request or to restart a process.
- `VehicleCache`: the event loop resumes what can go on, the lock is first come
  first served, and `httpx` has a timeout, so a fetch ends one way or the other.
- `RoutePage`: the browser settles each request and runs each callback and
  timeout, stated per click; it need not favour one outcome over another.
- `RoutePlan`: the call is sequential and takes its next step when it can.

## Where the code and its words disagree

1. A crash between `delete_message` and `put_success` leaves an accepted job
   `PENDING` for ever (`RouteJobs_finishes`), although
   `src/docs/architecture.md:72` has the worker update each item.
2. With connections of no duration that tie, one pass does not find the earliest
   arrival (`Csa_ties`), although `csa.py:17` says so and `csa.py:20` assumes
   sorted connections only. The shipped feed has 1301 connections of no duration
   but no such tie.
3. `get_realtime_view_service` makes a provider per request, so the cache that
   is "shared across requests" is not (`VehicleCache_wiring`).
4. Two overlapping syncs draw the same line twice and can never remove one of
   the two (`RealtimeMap_overlap`, `src/web/app.js:635`).

Met on the way, stated by no document and so no finding: `load_feed` admits
connections whose times go back, as a trip over midnight has them when its later
times are written with an hour below 24, and on such a feed the `while` loop at
`csa.py:48` may never end: from A at 5, A to B from 5 to 3 and B to A from 5 to 4
make each the predecessor of the other. None of the 148,193 connections of the
shipped feed goes back. Then `calculate_route` never returns, and a worker that runs it
never reaches its next job; `RouteJobs` takes it as a call that ends.
A line without a shape to draw is asked for at every sync, and no message says
that there is none. A bus that changes lines keeps the marker, and so the line,
it had: if its old line is unselected a sync removes it although its new line is
selected, until the next refresh, and if its new line is unselected it stays
after a refresh that fails. Answers that come after the realtime view was left
are drawn into the route view. A click that finds no route leaves the route of an
earlier one on the map. The first bus of a
route may leave just under two seconds before the walk to it ends (`LegsInTime`
says exactly how much); the branch at line 134 of the planner is unreachable
(`AccessStopKnown`); "fastest" is never compared with walking all the way; the
walking fallback leaves at `datetime.now()`, not at `depart_at`; a vehicle by
schedule vanishes while it waits at a stop and from midnight on
(`MissingForAReason` lists the cases); of a line the two most common shapes are
chosen before those too short to draw are left out; one time that does not
parse makes the whole feed unusable; a put that fails makes the request fail
although its graph is at hand.

## What is proved

`*_proofs.tla` hold TLAPS proofs for every value of the constants that satisfies
the named assumption of each module: any number of requests, workers, stops,
connections, rows, trips, callers, lines, handlers and failures.

- **RouteJobs_proofs**: the safety properties and the refinement
  `Spec => ImplementsBoard`; also `NoRegression`, that an outcome is never taken
  back. The invariant adds to the types what a worker holds at
  each step of its loop (`HandsOK`), that a message with an id was sent after its
  item was written (`SentOK`), that an item is never partial (`RowsOK`), and that
  a `PENDING` published id has a reachable message unless lost (`Lossless`);
  `NoSilentLoss` alone is not inductive, since it says nothing of an id that is
  published but not yet accepted.
- **RoutePlan_proofs**, the search: all properties of `Csa` and `CsaTraveller`,
  with `OnePassSuffices`, under which one pass is all the work. On every sorted
  feed predecessors explain the arrival times, and with the part of the journey
  rebuilt so far (`Partial`) that makes it a journey, if the walk back ends.
  `PredecessorsHold` and `WalkBackHolds` show that it does on feeds with
  `NoEarlierFeeder`: the scan cannot improve a stop any more that a connection it
  has passed was boarded at, so predecessors lead strictly back in the scan.
  `OnePassHolds` and `EarliestHolds` are for feeds with
  `NoLateFeeder`, exactly what `Csa_ties` drops.
- **RoutePlan_proofs**, the plan: `PlanSpec` refines the search, and on its
  invariant stand `LegsConnect`, `LegsInTime`, `AccessStopKnown`,
  `FastestArrivesFirst`. The invariant says the chosen stop is a best one
  (`Chosen`) and that the legs so far follow the journey (`LegsSoFar`); for
  `FastestArrivesFirst`, no ride of any length reaches a stop before the search
  does (`RideFacts`).
- **StreetGraph_proofs**: `NeverTorn`, `PublishedOnce` and `RaisesForAReason` of
  the file; that the cache over it is a behaviour of the file
  (`CacheRunsFile`), so that these hold in the composition too; then
  `FailsForAReason`, `OneAnswerWarmsTheCache` and the types of the cache. All
  assume `LockWorks` but the refinement. The invariant of the file ties lock,
  position and open file of the one holder together; that of the cache says
  that an answer leaves a readable object behind, which nothing takes away
  (`WarmOK`). Without a working lock the theorems do not hold; the code calls
  that case best-effort.
- **GtfsFeed_proofs**: `FeedTypeOK` and `LoadsTheTimetable`, for every feed. The
  invariant follows a row through the load: a trip has exactly its rows
  (`EntriesOK`), it waits for its sort in the order of the file and has the
  order of the timetable after it (`SortOK`), so that two neighbours have
  nothing between them (`NextEntryFollows`), and what is joined is exactly the
  hops behind (`JoinOK`). The stability of both sorts is needed: equal sequence
  numbers keep the order of the file.
- **VehiclesBySchedule_proofs**: that the realtime view is a behaviour of the load
  (`ViewRunsLoad`), so that its connections are the timetable, and on that
  `MissingForAReason`, `VehiclesKeepToTheTimetable` and `VehiclesNeverGoBack`,
  for every feed, length of day and selection. The invariant adds to that of
  the load that every answer follows from the last connection of each trip that
  is under way (`ShowsLastRides`): the scan keeps, of the connections up to any
  place, the last of those that depart last (`ActiveFacts`). `OnAHop` finds for
  every moment of a ride the hop it falls in; `AlongFacts` says that a point
  found by its distance lies on the segment where the distance runs out, and
  `SliceFacts` that what the planner draws has that segment. For
  `VehiclesNeverGoBack` a later answer is on a later hop, or further on the
  same one (`SameHop`, `WayGrows`).
- **VehicleCache_proofs**: the type invariant, `OneFetchAtATime`, `AnswersInOrder`,
  `AnswersAreFresh`. Only the head of the queue fetches (`HolderFetches`), and a
  cached feed is at least as new as every answer given and no newer than the
  response under way (`FeedsInOrder`).
- **RealtimeMap_proofs**: the types, `QuietMapShowsSelection`, because whenever
  something unselected is drawn a task that will clean up is under way
  (`UnselectedIsTemporary`); `LeaksNeedOverlap`, because a layer that is drawn
  over was asked for twice at once (`TwoWaited`); and the action property
  `SyncDrawsSelection`, because every selected line that an undisturbed sync has
  passed is drawn, as far as it can be, or is the one it waits for
  (`SyncKeepsUp`).
- **RoutePage_proofs**: all safety properties, `ShownOutcomesStand` among them (a
  job shown with an outcome keeps one), and that the page is a behaviour
  of `JobBoard` (`BoardHolds`). The invariant says what a handler knows while it
  waits (`Tracked`), that shown outcomes are of jobs that have one
  (`ShownIsKnown`), that without haste one handler waits at most (`OneAtATime`),
  and that a job asked about is named in the output box until it has an outcome
  (`PollingIsShown`), so that a polling loop that gives up leaves a word.

The definitions of the vehicles are recursive functions over a feed or a
polyline: the scan for the active connection, the length of a shape, the search
for a segment; and the rides of `RideFacts` are sequences of any length. The induction theorems of the library take an operator as a
parameter, which the provers cannot instantiate, so these proofs go by least
counterexample instead: a set of numbers has a least member (`LeastNat`, from
the well-foundedness of <), and a function defined by its previous value exists
(`RecursionExists`). Where a loop of the code is steps of a module, as in `Csa`
and `GtfsFeed`, the invariant is the induction.

Attempts that failed showed where the model or a property was wrong, and both
now say what the code does. A row of `shapes.txt` without an id had counted as
a point of a shape. A trip of a single row had counted as on its way, though it
has no connection. How far a vehicle may be off the ride the planner draws is
the distance of the stops from the shape, since the planner starts the ride at
the stop and the vehicle at the vertex. And a trip whose times go back may
really go back on the map, so `VehiclesNeverGoBack` speaks of the others.

Only model-checked: the liveness properties `Served`, `EveryRequestEnds` of the
cache and of the vehicles provider, `EveryClickEnds` and `AlwaysARoute`, and the
violated `EveryJobFinishes` (fairness and `ENABLED` are outside the prover).

## What is not modelled

- Of the realtime view: the filter over a provider's vehicles, the list of lines
  (a sort for display), speeds; of the feed: `routes.txt` and missing files.
- Geometry on the globe: points lie on a line, where the order of vertices,
  turns and distances can still go wrong; names, colours, street names and
  distances of bus legs are left out.
- Other keys of the bucket: requests with different coordinates do not meet in
  S3; they share the graph file, which is modelled.
- Exceptions of the map provider or of the feed inside the planner: they end the
  call before it has changed anything, and are the failed outcome of a job in
  `RouteJobs` and of a click in `RoutePage`.
- The calendar: `depart_at` reaches the service in UTC and is read as local
  time; times of day are inputs here.
- A call whose effect comes after the client has given up on it and gone on
  (an SDK retry overtaken by the worker): the models let a call take effect
  during the call.
- Wiring, schemas, exception handlers and deployment: no state.

`tlc -config <cfg> <module>` repeats a run, with the pairs as listed under `runs`
in `PROJECT.json`; `tlapm <Module>_proofs.tla` repeats a proof.
