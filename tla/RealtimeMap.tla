------------------------------ MODULE RealtimeMap ------------------------------
(* The realtime view of web/app.js: check boxes select lines, and event        *)
(* handlers draw their shapes, stops and vehicles from the answers of the API. *)
(* JavaScript runs one handler at a time but a handler is suspended at every   *)
(* await, so clicks, timer ticks and responses come in between. Coordinates,   *)
(* colours and labels are left out; a route stands for its polylines and for   *)
(* its stop markers.                                                           *)
EXTENDS Naturals

CONSTANTS
    Routes,       \* route ids the API lists
    NoRoute,      \* a task that is drawing nothing, a bus without a marker
    Buses,        \* keys of vehicles, vehicleKey
    Live,         \* a loop that runs over the selection of this moment
    Tasks,        \* handlers and timer callbacks under way at a time (bound)
    MaxActions    \* clicks of the user (bound)

ASSUME RealtimeMapAssumption ==
    /\ NoRoute \notin Routes
    /\ \A s \in SUBSET Routes : Live # s
    /\ MaxActions \in Nat

VARIABLES
    active,       \* realtimeViewActive
    timer,        \* rtPollTimer is set
    list,         \* the check boxes: "none" yet, "shown", "lost" to an error
    selected,     \* rtSelectedRouteIds
    lines,        \* keys of rtLineLayers, whose polylines are on the map
    stops,        \* keys of rtStopMarkersByRoute, whose markers are on the map
    vehicles,     \* rtVehicleMarkers: the _rtRouteId of the marker of a bus
    drawable,     \* routes whose shape holds two points to draw a line through
    leaked,       \* routes with layers on the map that no variable refers to
    pc,           \* where a task is
    rid,          \* the route a task is drawing
    visited,      \* what a task's loop over the selection has visited
    over,         \* the Set a task's loop runs over: Live, or an abandoned one
    query,        \* the routes a task has asked vehicles of
    overlapped,   \* history: routes two tasks have asked the same layers of
    smooth,       \* history: no error and no clearing since a task's sync began
    actions       \* clicks so far (bound)

view == <<active, timer, list>>
layers == <<lines, stops, vehicles, leaked>>
loop == <<rid, visited, over, query>>
vars == <<active, timer, list, selected, lines, stops, vehicles, leaked, drawable,
          pc, rid, visited, over, query, overlapped, smooth, actions>>

Steps == {"idle", "load", "loop", "shape", "stops", "refresh", "vehicles"}

NoMarkers == [v \in Buses |-> NoRoute]

Init ==
    /\ active = FALSE /\ timer = FALSE /\ list = "none"
    /\ selected = {}
    /\ lines = {} /\ stops = {} /\ leaked = {}
    /\ vehicles = NoMarkers
    /\ drawable \in SUBSET Routes
    /\ pc = [t \in Tasks |-> "idle"]
    /\ rid = [t \in Tasks |-> NoRoute]
    /\ visited = [t \in Tasks |-> {}]
    /\ over = [t \in Tasks |-> Live]
    /\ query = [t \in Tasks |-> {}]
    /\ overlapped = {}
    /\ smooth = [t \in Tasks |-> FALSE]
    /\ actions = 0

Goto(t, step) == pc' = [pc EXCEPT ![t] = step]

(* What is not waiting runs on, as a microtask, before the browser takes the   *)
(* next click, tick or response.                                               *)
NoneRunsOn == \A t \in Tasks : pc[t] \notin {"loop", "refresh"}

Waits(t, steps) == NoneRunsOn /\ pc[t] \in steps

Click ==
    /\ NoneRunsOn
    /\ actions < MaxActions
    /\ actions' = actions + 1

(* Definitions named ..._<Fault> are mutants of the definition below them.     *)
(* syncRealtimeLayers: its loop holds on to the Set of the selection itself,   *)
(* so it visits what is added meanwhile and skips what is deleted.             *)
BeginSync_OnACopy(t) ==
    /\ over' = [over EXCEPT ![t] = selected']
    /\ smooth' = [smooth EXCEPT ![t] = TRUE]
BeginSync(t) ==
    /\ over' = [over EXCEPT ![t] = Live]
    /\ smooth' = [smooth EXCEPT ![t] = TRUE]

Iterated(t) == IF over[t] = Live THEN selected ELSE over[t]

(* clearRealtimeLayers removes what the three Maps refer to, nothing else.     *)
ClearRealtimeLayers ==
    lines' = {} /\ stops' = {} /\ vehicles' = NoMarkers /\ UNCHANGED leaked

NothingSmooth == smooth' = [t \in Tasks |-> FALSE]

(* setActiveView('realtime'): a refresh at once and every 30 seconds, and the  *)
(* list of lines the first time.                                               *)
ShowRealtime ==
    /\ Click
    /\ active' = TRUE /\ timer' = TRUE /\ UNCHANGED selected
    /\ \E t \in Tasks :
          /\ pc[t] = "idle"
          /\ \/ /\ list # "none"
                /\ Goto(t, "refresh")
                /\ UNCHANGED <<over, smooth>>
             \/ /\ list = "none"
                /\ \E u \in Tasks \ {t} :
                      /\ pc[u] = "idle"
                      /\ pc' = [pc EXCEPT ![t] = "refresh", ![u] = "load"]
                      /\ BeginSync(u)
    /\ UNCHANGED <<list, layers, rid, visited, query, overlapped>>

(* setActiveView('route') clears the map but keeps the selection.              *)
ShowRoute ==
    /\ Click
    /\ active' = FALSE /\ timer' = FALSE
    /\ ClearRealtimeLayers
    /\ NothingSmooth
    /\ UNCHANGED <<list, selected, pc, loop, overlapped>>

(* A check box: what is deleted from a Set and added again is visited again by *)
(* the loops that run over it.                                                 *)
Toggle(r) ==
    /\ Click /\ active /\ list = "shown"
    /\ selected' = IF r \in selected THEN selected \ {r} ELSE selected \cup {r}
    /\ visited' = [t \in Tasks |->
          IF over[t] = Live THEN visited[t] \ {r} ELSE visited[t]]
    /\ \E t \in Tasks : pc[t] = "idle" /\ Goto(t, "loop") /\ BeginSync(t)
    /\ UNCHANGED <<view, layers, rid, query, overlapped>>

ClickRefresh ==
    /\ Click /\ active
    /\ UNCHANGED selected
    /\ \E t \in Tasks : pc[t] = "idle" /\ Goto(t, "loop") /\ BeginSync(t)
    /\ UNCHANGED <<view, layers, rid, visited, query, overlapped>>

(* "Quitar capas" puts a new Set in the place of the selection; loops that run *)
(* go on over the old one.                                                     *)
ClickClearLayers ==
    /\ Click /\ active
    /\ selected' = {}
    /\ ClearRealtimeLayers
    /\ over' = [t \in Tasks |->
          IF pc[t] \in {"loop", "shape", "stops"} THEN Iterated(t) ELSE Live]
    /\ NothingSmooth
    /\ UNCHANGED <<view, pc, rid, visited, query, overlapped>>

(* "Limpiar", a button of the route view (clearAll).                           *)
ClickClearAll ==
    /\ Click /\ ~active
    /\ timer' = FALSE
    /\ ClearRealtimeLayers
    /\ NothingSmooth
    /\ UNCHANGED <<active, list, selected, pc, loop, overlapped>>

TimerFires(t) ==
    /\ timer /\ Waits(t, {"idle"})
    /\ Goto(t, "refresh")
    /\ UNCHANGED <<view, selected, layers, loop, overlapped, smooth, actions>>

(* loadRealtimeRoutes, then the sync whether or not it failed.                 *)
LoadEnds(t) ==
    /\ Waits(t, {"load"})
    /\ \/ list' = "shown"
       \/ list' = IF list = "none" THEN "none" ELSE "lost"
    /\ Goto(t, "loop")
    /\ UNCHANGED <<active, timer, selected, layers, loop, overlapped, smooth, actions>>

NoteOverlap(t) ==
    overlapped' = overlapped \cup
        {r \in {rid'[t]} : pc'[t] \in {"shape", "stops"}
                          /\ \E u \in Tasks \ {t} : pc[u] = pc'[t] /\ rid[u] = r}

(* ensureRouteShape and ensureRouteStops ask the API only for what the Maps    *)
(* do not hold yet.                                                            *)
Visit_Always(t) ==
    /\ pc[t] = "loop"
    /\ \E r \in Iterated(t) \ visited[t] :
          /\ rid' = [rid EXCEPT ![t] = r]
          /\ visited' = [visited EXCEPT ![t] = @ \cup {r}]
          /\ Goto(t, "shape")
    /\ UNCHANGED <<view, selected, layers, over, query, smooth, actions>>
    /\ NoteOverlap(t)
Visit(t) ==
    /\ pc[t] = "loop"
    /\ \E r \in Iterated(t) \ visited[t] :
          /\ rid' = [rid EXCEPT ![t] = r]
          /\ visited' = [visited EXCEPT ![t] = @ \cup {r}]
          /\ Goto(t, IF r \notin lines THEN "shape"
                     ELSE IF r \notin stops THEN "stops" ELSE "loop")
    /\ UNCHANGED <<view, selected, layers, over, query, smooth, actions>>
    /\ NoteOverlap(t)

(* The answer is drawn and entered under the route, over an entry that another *)
(* task may have made since: the layers of that one stay on the map for ever.  *)
(* A line with nothing to draw is answered all the same: it gets no entry, and *)
(* every sync asks for its shape again.                                        *)
ShapeArrives(t) ==
    /\ Waits(t, {"shape"})
    /\ leaked' = leaked \cup ({rid[t]} \cap lines \cap drawable)
    /\ lines' = lines \cup ({rid[t]} \cap drawable)
    /\ Goto(t, IF rid[t] \in stops THEN "loop" ELSE "stops")
    /\ UNCHANGED <<view, selected, stops, vehicles, loop, smooth, actions>>
    /\ NoteOverlap(t)

StopsArrive(t) ==
    /\ Waits(t, {"stops"})
    /\ leaked' = IF rid[t] \in stops THEN leaked \cup {rid[t]} ELSE leaked
    /\ stops' = stops \cup {rid[t]}
    /\ Goto(t, "loop")
    /\ UNCHANGED <<view, selected, lines, vehicles, loop, overlapped, smooth, actions>>

(* "ignore per-route errors": the loop goes on with the next route.            *)
DrawFails_Rejects(t) ==
    /\ Waits(t, {"shape", "stops"})
    /\ Goto(t, "idle")
    /\ smooth' = [smooth EXCEPT ![t] = FALSE]
    /\ UNCHANGED <<view, selected, layers, loop, overlapped, actions>>
DrawFails(t) ==
    /\ Waits(t, {"shape", "stops"})
    /\ Goto(t, "loop")
    /\ smooth' = [smooth EXCEPT ![t] = FALSE]
    /\ UNCHANGED <<view, selected, layers, loop, overlapped, actions>>

(* The last part of syncRealtimeLayers has no await.                           *)
SyncEnds(t) ==
    /\ pc[t] = "loop" /\ Iterated(t) \subseteq visited[t]
    /\ lines' = lines \cap selected
    /\ stops' = stops \cap selected
    /\ vehicles' = [v \in Buses |-> IF vehicles[v] \in selected THEN vehicles[v] ELSE NoRoute]
    /\ visited' = [visited EXCEPT ![t] = {}]
    /\ over' = [over EXCEPT ![t] = Live]
    /\ rid' = [rid EXCEPT ![t] = NoRoute]
    /\ Goto(t, "refresh")
    /\ UNCHANGED <<view, selected, leaked, query, overlapped, smooth, actions>>

(* refreshRealtimeVehicles up to its request: nothing in the route view, no    *)
(* vehicles when nothing is selected.                                          *)
Refresh_Anyway(t) ==
    /\ pc[t] = "refresh"
    /\ IF active
       THEN /\ query' = [query EXCEPT ![t] = selected]
            /\ Goto(t, "vehicles")
       ELSE /\ Goto(t, "idle")
            /\ UNCHANGED query
    /\ UNCHANGED <<view, selected, layers, rid, visited, over, overlapped, smooth, actions>>
Refresh(t) ==
    /\ pc[t] = "refresh"
    /\ IF active /\ selected # {}
       THEN /\ query' = [query EXCEPT ![t] = selected]
            /\ Goto(t, "vehicles")
            /\ UNCHANGED vehicles
       ELSE /\ vehicles' = IF active THEN NoMarkers ELSE vehicles
            /\ Goto(t, "idle")
            /\ UNCHANGED query
    /\ UNCHANGED <<view, selected, lines, stops, leaked, rid, visited, over,
                   overlapped, smooth, actions>>

(* Those of the answered buses whose line is selected now are on the map, and  *)
(* no others; the view is not looked at again. A marker that is there already  *)
(* is moved and keeps its _rtRouteId, also when its bus has changed lines.     *)
VehiclesArrive(t) ==
    /\ Waits(t, {"vehicles"})
    /\ \E answer \in [Buses -> query[t] \cup {NoRoute}] :
          vehicles' = [v \in Buses |->
              IF answer[v] \notin selected THEN NoRoute
              ELSE IF vehicles[v] # NoRoute THEN vehicles[v] ELSE answer[v]]
    /\ query' = [query EXCEPT ![t] = {}]
    /\ Goto(t, "idle")
    /\ UNCHANGED <<view, selected, lines, stops, leaked, rid, visited, over,
                   overlapped, smooth, actions>>

VehiclesFail(t) ==
    /\ Waits(t, {"vehicles"})
    /\ query' = [query EXCEPT ![t] = {}]
    /\ Goto(t, "idle")
    /\ UNCHANGED <<view, selected, layers, rid, visited, over, overlapped, smooth, actions>>

Response(t) ==
    \/ LoadEnds(t) \/ ShapeArrives(t) \/ StopsArrive(t) \/ DrawFails(t)
    \/ VehiclesArrive(t) \/ VehiclesFail(t)

User ==
    \/ ShowRealtime \/ ShowRoute \/ \E r \in Routes : Toggle(r)
    \/ ClickRefresh \/ ClickClearLayers \/ ClickClearAll

RunsOn(t) == Visit(t) \/ SyncEnds(t) \/ Refresh(t)

Next ==
    /\ User \/ \E t \in Tasks : TimerFires(t) \/ Response(t) \/ RunsOn(t)
    /\ UNCHANGED drawable

Spec == Init /\ [][Next]_vars

-------------------------------------------------------------------------------
(* The state of the page and of the handlers under way. A request for vehicles *)
(* names at least one line: one without any would be answered with the buses   *)
(* of all lines.                                                               *)
TypeOK ==
    /\ active \in BOOLEAN /\ timer \in BOOLEAN
    /\ list \in {"none", "shown", "lost"}
    /\ selected \subseteq Routes /\ leaked \subseteq Routes
    /\ lines \subseteq drawable /\ stops \subseteq Routes /\ drawable \subseteq Routes
    /\ vehicles \in [Buses -> Routes \cup {NoRoute}]
    /\ pc \in [Tasks -> Steps]
    /\ rid \in [Tasks -> Routes \cup {NoRoute}]
    /\ visited \in [Tasks -> SUBSET Routes]
    /\ query \in [Tasks -> SUBSET Routes]
    /\ \A t \in Tasks : pc[t] = "vehicles" => query[t] # {}
    /\ over \in [Tasks -> {Live} \cup SUBSET Routes]
    /\ overlapped \subseteq Routes
    /\ smooth \in [Tasks -> BOOLEAN]
    /\ actions \in 0..MaxActions

(* The lines the markers of buses are held for.                                *)
Tags == {vehicles[v] : v \in Buses} \ {NoRoute}

(* Once all handlers have ended, the Maps hold nothing of a line that is not   *)
(* selected, though each handler draws from answers to what was selected when  *)
(* it asked, in any order: a later handler removes what an earlier one drew    *)
(* late, or the earlier one itself does.                                       *)
QuietMapShowsSelection ==
    (\A t \in Tasks : pc[t] = "idle")
    => lines \cup stops \cup Tags \subseteq selected

(* A sync that met no error and no clearing leaves the stops of every line that *)
(* is selected at its end on the map, and its shape if there is one to draw,    *)
(* also of the lines checked, or unchecked and checked again, while it was      *)
(* waiting, and of those visited after a line without a shape.                  *)
SyncDrawsSelection ==
    [][ \A t \in Tasks :
          (pc[t] = "loop" /\ pc'[t] = "refresh" /\ smooth[t])
          => selected \subseteq stops' /\ selected \cap drawable \subseteq lines' ]_vars

(* Layers are left behind on the map only of lines that two handlers have      *)
(* waited for at once, never for switching views, clearing, unchecking or an   *)
(* error while one waits.                                                      *)
LeaksNeedOverlap == leaked \subseteq overlapped

(* The comments "Remove unselected shapes" and "Remove vehicle markers for     *)
(* deselected routes even if refresh fails" of syncRealtimeLayers: what is on  *)
(* the map when a sync ends is of selected lines.                              *)
SyncRemovesUnselected ==
    [][ \A t \in Tasks :
          (pc[t] = "loop" /\ pc'[t] = "refresh")
          => (lines \cup stops \cup Tags \cup leaked)' \subseteq selected' ]_vars
===============================================================================
