-------------------------- MODULE RealtimeMap_proofs --------------------------
(* What the realtime view keeps to for any lines and any number of handlers    *)
(* under way: induction over the steps of the event loop.                      *)
EXTENDS RealtimeMap, TLAPS

HeldIsSelected ==
    /\ lines \cup stops \subseteq selected
    /\ \A v \in Buses : vehicles[v] \in selected \cup {NoRoute}

(* What is drawn of an unselected line is temporary: a handler is under way    *)
(* that will remove it, the one that drew it if no other.                      *)
Cleaning(t) == pc[t] \in {"load", "loop", "shape", "stops"}
UnselectedIsTemporary == HeldIsSelected \/ \E t \in Tasks : Cleaning(t)

(* A layer that arrives for a line that has one already was waited for by two. *)
Waiting == {"shape", "stops"}
Drawn(step) == IF step = "shape" THEN lines ELSE stops
TwoWaited ==
    \A t \in Tasks : pc[t] \in Waiting =>
        /\ rid[t] \in Routes
        /\ rid[t] \in Drawn(pc[t]) => rid[t] \in overlapped
        /\ \A u \in Tasks \ {t} :
              pc[u] = pc[t] /\ rid[u] = rid[t] => rid[t] \in overlapped

(* A sync that met no error and no clearing runs over the selection itself,    *)
(* and what it has visited is drawn as far as it can be, or it is waiting to   *)
(* draw it, as long as it is selected. Between two syncs a handler has visited *)
(* nothing.                                                                    *)
Syncing == {"loop", "shape", "stops"}
DrawnOrAwaited(t, r) ==
    \/ r \in stops /\ (r \in drawable => r \in lines)
    \/ rid[t] = r /\ pc[t] = "shape"
    \/ rid[t] = r /\ pc[t] = "stops" /\ (r \in drawable => r \in lines)
SyncKeepsUp ==
    \A t \in Tasks :
        /\ pc[t] \notin Syncing => visited[t] = {}
        /\ smooth[t] /\ pc[t] \in Syncing \cup {"load"} => over[t] = Live
        /\ smooth[t] /\ pc[t] \in Syncing =>
              \A r \in visited[t] \cap selected : DrawnOrAwaited(t, r)

IInv == TypeOK /\ UnselectedIsTemporary /\ TwoWaited /\ LeaksNeedOverlap /\ SyncKeepsUp

(* The page as it is loaded satisfies the inductive invariant.                 *)
LEMMA InitIInv == Init => IInv
<1> SUFFICES ASSUME Init PROVE IInv
  OBVIOUS
<1>1. TypeOK
  <2>1. smooth \in [Tasks -> BOOLEAN]
    BY DEF Init
  <2>2. /\ pc \in [Tasks -> Steps] /\ rid \in [Tasks -> Routes \cup {NoRoute}]
        /\ visited \in [Tasks -> SUBSET Routes] /\ query \in [Tasks -> SUBSET Routes]
        /\ over \in [Tasks -> {Live} \cup SUBSET Routes]
    BY DEF Init, Steps
  <2>3. active \in BOOLEAN /\ timer \in BOOLEAN
    BY DEF Init
  <2>4. /\ list \in {"none", "shown", "lost"} /\ actions \in 0 .. MaxActions
        /\ selected = {} /\ lines = {} /\ stops = {} /\ drawable \subseteq Routes
        /\ leaked = {} /\ overlapped = {}
        /\ \A t \in Tasks : pc[t] # "vehicles"
        /\ vehicles \in [Buses -> Routes \cup {NoRoute}]
    BY RealtimeMapAssumption DEF Init, NoMarkers
  <2> QED BY <2>1, <2>2, <2>3, <2>4 DEF TypeOK
<1>2. UnselectedIsTemporary /\ LeaksNeedOverlap
  BY DEF Init, NoMarkers, UnselectedIsTemporary, HeldIsSelected, LeaksNeedOverlap
<1>3. TwoWaited
  BY DEF Init, TwoWaited, Waiting
<1>4. SyncKeepsUp
  BY DEF Init, SyncKeepsUp, Syncing
<1> QED
  BY <1>1, <1>2, <1>3, <1>4 DEF IInv

(* The events of the event loop, one after the other.                          *)
LEMMA ShapesStay == [Next]_vars => UNCHANGED drawable
BY DEF Next, vars

LEMMA StepCases ==
    ASSUME [Next]_vars, NEW P,
           ShowRealtime => P, ShowRoute => P, \A r \in Routes : Toggle(r) => P,
           ClickRefresh => P, ClickClearLayers => P, ClickClearAll => P,
           \A t \in Tasks :
              /\ TimerFires(t) => P
              /\ LoadEnds(t) => P
              /\ Visit(t) => P
              /\ ShapeArrives(t) => P
              /\ StopsArrive(t) => P
              /\ DrawFails(t) => P
              /\ SyncEnds(t) => P
              /\ Refresh(t) => P
              /\ VehiclesArrive(t) => P
              /\ VehiclesFail(t) => P,
           UNCHANGED vars => P
    PROVE  P
  BY DEF Next, User, Response, RunsOn

(* Every event keeps the types.                                                *)
LEMMA TypeStep == IInv /\ [Next]_vars => TypeOK'
<1> SUFFICES ASSUME IInv, [Next]_vars PROVE TypeOK'
  OBVIOUS
<1> USE RealtimeMapAssumption, ShapesStay DEF IInv, TypeOK, Steps, Goto, view, layers, loop, Click, Waits, NoMarkers
<1>1. ShowRealtime => TypeOK'
  <2> SUFFICES ASSUME ShowRealtime PROVE TypeOK'
    OBVIOUS
  <2>1. PICK t \in Tasks : pc[t] = "idle" /\
           (\/ pc' = [pc EXCEPT ![t] = "refresh"] /\ UNCHANGED <<over, smooth>>
            \/ \E u \in Tasks \ {t} :
                  /\ pc' = [pc EXCEPT ![t] = "refresh", ![u] = "load"]
                  /\ BeginSync(u))
    BY DEF ShowRealtime
  <2>2. /\ pc' \in [Tasks -> Steps] /\ over' \in [Tasks -> {Live} \cup SUBSET Routes]
        /\ smooth' \in [Tasks -> BOOLEAN]
    BY <2>1 DEF BeginSync
  <2> QED BY <2>2 DEF ShowRealtime
<1>2. ShowRoute => TypeOK'
  <2> SUFFICES ASSUME ShowRoute PROVE TypeOK'
    OBVIOUS
  <2>1. smooth' = [t \in Tasks |-> FALSE]
    BY DEF ShowRoute, NothingSmooth
  <2>2. smooth' \in [Tasks -> BOOLEAN]
    BY ONLY <2>1
  <2>3. active' \in BOOLEAN /\ timer' \in BOOLEAN
    BY DEF ShowRoute
  <2>4. /\ list' = list /\ selected' = selected /\ leaked' = leaked
        /\ lines' = {} /\ stops' = {} /\ vehicles' = NoMarkers
        /\ UNCHANGED <<pc, rid, visited, over, query, overlapped>>
        /\ actions' \in 0 .. MaxActions
    BY DEF ShowRoute, ClearRealtimeLayers
  <2> QED BY <2>2, <2>3, <2>4
<1>3. \A r \in Routes : Toggle(r) => TypeOK'
  BY DEF Toggle, BeginSync
<1>4. ClickRefresh => TypeOK'
  BY DEF ClickRefresh, BeginSync
<1>5. ClickClearLayers => TypeOK'
  BY DEF ClickClearLayers, ClearRealtimeLayers, NothingSmooth, Iterated
<1>6. ClickClearAll => TypeOK'
  <2> SUFFICES ASSUME ClickClearAll PROVE TypeOK'
    OBVIOUS
  <2>1. smooth' = [t \in Tasks |-> FALSE]
    BY DEF ClickClearAll, NothingSmooth
  <2>2. smooth' \in [Tasks -> BOOLEAN]
    BY ONLY <2>1
  <2>3. active' \in BOOLEAN /\ timer' \in BOOLEAN
    BY DEF ClickClearAll
  <2>4. /\ list' = list /\ selected' = selected /\ leaked' = leaked
        /\ lines' = {} /\ stops' = {} /\ vehicles' = NoMarkers
        /\ UNCHANGED <<pc, rid, visited, over, query, overlapped>>
        /\ actions' \in 0 .. MaxActions
    BY DEF ClickClearAll, ClearRealtimeLayers
  <2> QED BY <2>2, <2>3, <2>4
<1>7. ASSUME NEW t \in Tasks
      PROVE  /\ TimerFires(t) => TypeOK'
             /\ LoadEnds(t) => TypeOK'
             /\ Visit(t) => TypeOK'
             /\ ShapeArrives(t) => TypeOK'
             /\ StopsArrive(t) => TypeOK'
             /\ DrawFails(t) => TypeOK'
             /\ SyncEnds(t) => TypeOK'
             /\ Refresh(t) => TypeOK'
             /\ VehiclesArrive(t) => TypeOK'
             /\ VehiclesFail(t) => TypeOK'
  <2>1. TimerFires(t) => TypeOK'
    BY DEF TimerFires
  <2>2. LoadEnds(t) => TypeOK'
    BY DEF LoadEnds
  <2>3. Visit(t) => TypeOK'
    <3> SUFFICES ASSUME Visit(t) PROVE TypeOK'
      OBVIOUS
    <3>1. PICK r \in Iterated(t) \ visited[t] :
            /\ rid' = [rid EXCEPT ![t] = r]
            /\ visited' = [visited EXCEPT ![t] = @ \cup {r}]
            /\ pc' = [pc EXCEPT ![t] = IF r \notin lines THEN "shape"
                                       ELSE IF r \notin stops THEN "stops" ELSE "loop"]
      BY DEF Visit
    <3>2. r \in Routes
      BY DEF Iterated
    <3>3. overlapped' \subseteq Routes
      BY <3>1, <3>2 DEF Visit, NoteOverlap
    <3> QED BY <3>1, <3>2, <3>3 DEF Visit
  <2>4. ShapeArrives(t) => TypeOK'
    BY DEF ShapeArrives, NoteOverlap, TwoWaited, Waiting
  <2>5. StopsArrive(t) => TypeOK'
    BY DEF StopsArrive, TwoWaited, Waiting
  <2>6. DrawFails(t) => TypeOK'
    BY DEF DrawFails
  <2>7. SyncEnds(t) => TypeOK'
    BY DEF SyncEnds
  <2>8. Refresh(t) => TypeOK'
    BY DEF Refresh
  <2>9. VehiclesArrive(t) => TypeOK'
    BY DEF VehiclesArrive
  <2>10. VehiclesFail(t) => TypeOK'
    BY DEF VehiclesFail
  <2> QED BY <2>1, <2>2, <2>3, <2>4, <2>5, <2>6, <2>7, <2>8, <2>9, <2>10
<1>8. UNCHANGED vars => TypeOK'
  BY DEF vars
<1> QED
  <2> HIDE DEF TypeOK
  <2> QED BY <1>1, <1>2, <1>3, <1>4, <1>5, <1>6, <1>7, <1>8, StepCases

(* A handler that unselects, or draws, is itself still to clean up; one that   *)
(* ends its sync cleans up; nothing else adds to what is held.                 *)
LEMMA TemporaryStep == IInv /\ [Next]_vars => UnselectedIsTemporary'
<1> SUFFICES ASSUME IInv, [Next]_vars PROVE UnselectedIsTemporary'
  OBVIOUS
<1> DEFINE P == UnselectedIsTemporary'
<1> USE RealtimeMapAssumption, ShapesStay DEF IInv, TypeOK, UnselectedIsTemporary, HeldIsSelected, NoMarkers, Cleaning, Goto, view, layers, loop, Click, Waits
<1>1. ShowRealtime => P
  BY DEF ShowRealtime
<1>2. ShowRoute => P
  BY DEF ShowRoute, ClearRealtimeLayers
<1>3. \A r \in Routes : Toggle(r) => P
  BY DEF Toggle
<1>4. ClickRefresh => P
  BY DEF ClickRefresh
<1>5. ClickClearLayers => P
  BY DEF ClickClearLayers, ClearRealtimeLayers
<1>6. ClickClearAll => P
  BY DEF ClickClearAll, ClearRealtimeLayers
<1>7. ASSUME NEW t \in Tasks
      PROVE  /\ TimerFires(t) => P
             /\ LoadEnds(t) => P
             /\ Visit(t) => P
             /\ ShapeArrives(t) => P
             /\ StopsArrive(t) => P
             /\ DrawFails(t) => P
             /\ SyncEnds(t) => P
             /\ Refresh(t) => P
             /\ VehiclesArrive(t) => P
             /\ VehiclesFail(t) => P
  <2>1. TimerFires(t) => P
    BY DEF TimerFires
  <2>2. LoadEnds(t) => P
    BY DEF LoadEnds
  <2>3. Visit(t) => P
    BY DEF Visit
  <2>4. ShapeArrives(t) => P
    BY DEF ShapeArrives
  <2>5. StopsArrive(t) => P
    BY DEF StopsArrive
  <2>6. DrawFails(t) => P
    BY DEF DrawFails
  <2>7. SyncEnds(t) => P
    BY DEF SyncEnds
  <2>8. Refresh(t) => P
    BY DEF Refresh
  <2>9. VehiclesArrive(t) => P
    BY DEF VehiclesArrive
  <2>10. VehiclesFail(t) => P
    BY DEF VehiclesFail
  <2> QED BY <2>1, <2>2, <2>3, <2>4, <2>5, <2>6, <2>7, <2>8, <2>9, <2>10
<1>8. UNCHANGED vars => P
  BY DEF vars
<1> QED
  <2> HIDE DEF UnselectedIsTemporary
  <2> QED BY <1>1, <1>2, <1>3, <1>4, <1>5, <1>6, <1>7, <1>8, StepCases

(* A handler that begins to wait for what another waits for is noted, and a    *)
(* layer can only come in before its own if another waited for it.             *)
LEMMA TwoWaitedStep == IInv /\ [Next]_vars => TwoWaited'
<1> SUFFICES ASSUME IInv, [Next]_vars PROVE TwoWaited'
  OBVIOUS
<1> DEFINE P == TwoWaited'
<1> USE DEF IInv, TypeOK, Goto, view, layers, loop, Click, Waits, TwoWaited, Waiting, Drawn
<1>1. ShowRealtime => P
  BY DEF ShowRealtime
<1>2. ShowRoute => P
  BY DEF ShowRoute, ClearRealtimeLayers
<1>3. \A r \in Routes : Toggle(r) => P
  BY DEF Toggle
<1>4. ClickRefresh => P
  BY DEF ClickRefresh
<1>5. ClickClearLayers => P
  BY DEF ClickClearLayers, ClearRealtimeLayers
<1>6. ClickClearAll => P
  BY DEF ClickClearAll, ClearRealtimeLayers
<1>7. ASSUME NEW t \in Tasks
      PROVE  /\ TimerFires(t) => P
             /\ LoadEnds(t) => P
             /\ Visit(t) => P
             /\ ShapeArrives(t) => P
             /\ StopsArrive(t) => P
             /\ DrawFails(t) => P
             /\ SyncEnds(t) => P
             /\ Refresh(t) => P
             /\ VehiclesArrive(t) => P
             /\ VehiclesFail(t) => P
  <2>1. TimerFires(t) => P
    BY DEF TimerFires
  <2>2. LoadEnds(t) => P
    BY DEF LoadEnds
  <2>3. Visit(t) => P
    BY DEF Visit, NoteOverlap, Iterated
  <2>4. ShapeArrives(t) => P
    BY DEF ShapeArrives, NoteOverlap
  <2>5. StopsArrive(t) => P
    BY DEF StopsArrive
  <2>6. DrawFails(t) => P
    BY DEF DrawFails
  <2>7. SyncEnds(t) => P
    BY DEF SyncEnds
  <2>8. Refresh(t) => P
    BY DEF Refresh
  <2>9. VehiclesArrive(t) => P
    BY DEF VehiclesArrive
  <2>10. VehiclesFail(t) => P
    BY DEF VehiclesFail
  <2> QED BY <2>1, <2>2, <2>3, <2>4, <2>5, <2>6, <2>7, <2>8, <2>9, <2>10
<1>8. UNCHANGED vars => P
  BY DEF vars
<1> QED
  <2> HIDE DEF TwoWaited
  <2> QED BY <1>1, <1>2, <1>3, <1>4, <1>5, <1>6, <1>7, <1>8, StepCases

(* Only an arriving layer can displace another.                                *)
LEMMA LeaksStep == IInv /\ [Next]_vars => LeaksNeedOverlap'
<1> SUFFICES ASSUME IInv, [Next]_vars PROVE LeaksNeedOverlap'
  OBVIOUS
<1> USE DEF IInv, LeaksNeedOverlap, layers, loop, Waits
<1>1. ASSUME NEW t \in Tasks, ShapeArrives(t) PROVE LeaksNeedOverlap'
  BY <1>1 DEF ShapeArrives, NoteOverlap, TwoWaited, Waiting, Drawn
<1>2. ASSUME NEW t \in Tasks, StopsArrive(t) PROVE LeaksNeedOverlap'
  BY <1>2 DEF StopsArrive, TwoWaited, Waiting, Drawn
<1>3. ASSUME NEW t \in Tasks, Visit(t) PROVE LeaksNeedOverlap'
  BY <1>3 DEF Visit, NoteOverlap
<1>4. ASSUME UNCHANGED <<leaked, overlapped>> PROVE LeaksNeedOverlap'
  BY <1>4
<1>5. CASE User
  BY <1>4, <1>5 DEF User, ShowRealtime, ShowRoute, Toggle, ClickRefresh,
     ClickClearLayers, ClickClearAll, ClearRealtimeLayers
<1>6. ASSUME NEW t \in Tasks,
             TimerFires(t) \/ LoadEnds(t) \/ DrawFails(t) \/ SyncEnds(t)
             \/ Refresh(t) \/ VehiclesArrive(t) \/ VehiclesFail(t)
      PROVE LeaksNeedOverlap'
  BY <1>4, <1>6 DEF TimerFires, LoadEnds, DrawFails, SyncEnds, Refresh,
     VehiclesArrive, VehiclesFail
<1>7. CASE UNCHANGED vars
  BY <1>4, <1>7 DEF vars
<1> QED
  BY <1>1, <1>2, <1>3, <1>5, <1>6, <1>7 DEF Next, Response, RunsOn

(* A click that selects a line again takes it from what the handlers have      *)
(* visited; a handler that ends its sync removes nothing that is selected; an  *)
(* error or a clearing ends the claim.                                         *)
LEMMA KeepsUpStep == IInv /\ [Next]_vars => SyncKeepsUp'
<1> SUFFICES ASSUME IInv, [Next]_vars PROVE SyncKeepsUp'
  OBVIOUS
<1> DEFINE P == SyncKeepsUp'
<1> USE ShapesStay DEF IInv, TypeOK, Goto, view, layers, loop, Click, Waits, SyncKeepsUp, Syncing, DrawnOrAwaited
<1>1. ShowRealtime => P
  BY DEF ShowRealtime, BeginSync
<1>2. ShowRoute => P
  BY DEF ShowRoute, NothingSmooth
<1>3. \A r \in Routes : Toggle(r) => P
  BY DEF Toggle, BeginSync
<1>4. ClickRefresh => P
  BY DEF ClickRefresh, BeginSync
<1>5. ClickClearLayers => P
  BY DEF ClickClearLayers, NothingSmooth
<1>6. ClickClearAll => P
  BY DEF ClickClearAll, NothingSmooth
<1>7. ASSUME NEW t \in Tasks
      PROVE  /\ TimerFires(t) => P
             /\ LoadEnds(t) => P
             /\ Visit(t) => P
             /\ ShapeArrives(t) => P
             /\ StopsArrive(t) => P
             /\ DrawFails(t) => P
             /\ SyncEnds(t) => P
             /\ Refresh(t) => P
             /\ VehiclesArrive(t) => P
             /\ VehiclesFail(t) => P
  <2>1. TimerFires(t) => P
    BY DEF TimerFires
  <2>2. LoadEnds(t) => P
    BY DEF LoadEnds
  <2>3. Visit(t) => P
    BY DEF Visit
  <2>4. ShapeArrives(t) => P
    BY DEF ShapeArrives
  <2>5. StopsArrive(t) => P
    BY DEF StopsArrive
  <2>6. DrawFails(t) => P
    BY DEF DrawFails
  <2>7. SyncEnds(t) => P
    BY DEF SyncEnds
  <2>8. Refresh(t) => P
    BY DEF Refresh
  <2>9. VehiclesArrive(t) => P
    BY DEF VehiclesArrive
  <2>10. VehiclesFail(t) => P
    BY DEF VehiclesFail
  <2> QED BY <2>1, <2>2, <2>3, <2>4, <2>5, <2>6, <2>7, <2>8, <2>9, <2>10
<1>8. UNCHANGED vars => P
  BY DEF vars
<1> QED
  <2> HIDE DEF SyncKeepsUp
  <2> QED BY <1>1, <1>2, <1>3, <1>4, <1>5, <1>6, <1>7, <1>8, StepCases

(* The inductive invariant holds in every reachable state.                     *)
LEMMA Inductive == Spec => []IInv
<1>1. IInv /\ [Next]_vars => IInv'
  BY TypeStep, TemporaryStep, TwoWaitedStep, LeaksStep, KeepsUpStep DEF IInv
<1> QED
  BY InitIInv, <1>1, PTL DEF Spec

(* The page keeps its types.                                                   *)
THEOREM MapTypeCorrect == Spec => []TypeOK
<1>1. IInv => TypeOK
  BY DEF IInv
<1> QED
  BY Inductive, <1>1, PTL

(* syncRealtimeLayers and refreshRealtimeVehicles: when all handlers have      *)
(* ended, nothing is held of a line that is not selected.                      *)
THEOREM QuietMapHolds == Spec => []QuietMapShowsSelection
<1>1. IInv => QuietMapShowsSelection
  BY DEF IInv, UnselectedIsTemporary, Cleaning, HeldIsSelected, Tags, QuietMapShowsSelection
<1> QED
  BY Inductive, <1>1, PTL

(* ensureRouteShape and ensureRouteStops leave layers behind only of lines     *)
(* that two handlers waited for at once.                                       *)
THEOREM LeaksHold == Spec => []LeaksNeedOverlap
<1>1. IInv => LeaksNeedOverlap
  BY DEF IInv
<1> QED
  BY Inductive, <1>1, PTL

(* syncRealtimeLayers: the sync that ends has visited all that is selected, so *)
(* all of it is drawn that can be, whatever was clicked while it was waiting.  *)
THEOREM SyncDraws == Spec => SyncDrawsSelection
<1> DEFINE A == \A t \in Tasks : (pc[t] = "loop" /\ pc'[t] = "refresh" /\ smooth[t])
                                 => selected \subseteq stops' /\ selected \cap drawable \subseteq lines'
<1>1. ASSUME IInv, Next, NEW t \in Tasks,
             pc[t] = "loop", pc'[t] = "refresh", smooth[t]
      PROVE  selected \subseteq stops' /\ selected \cap drawable \subseteq lines'
  <2>1. SyncEnds(t)
    <3> USE DEF IInv, TypeOK, Goto, view, layers, loop, Click, Waits, NoneRunsOn
    <3>1. ASSUME NEW u \in Tasks,
                 TimerFires(u) \/ LoadEnds(u) \/ Visit(u) \/ ShapeArrives(u) \/ StopsArrive(u)
                 \/ DrawFails(u) \/ Refresh(u) \/ VehiclesArrive(u) \/ VehiclesFail(u)
          PROVE  FALSE
      BY <1>1, <3>1 DEF TimerFires, LoadEnds, Visit, ShapeArrives, StopsArrive,
         DrawFails, Refresh, VehiclesArrive, VehiclesFail
    <3>2. ASSUME NEW u \in Tasks, u # t, SyncEnds(u) PROVE FALSE
      BY <1>1, <3>2 DEF SyncEnds
    <3>3. CASE User
      BY <1>1, <3>3 DEF User, ShowRealtime, ShowRoute, Toggle, ClickRefresh,
         ClickClearLayers, ClickClearAll
    <3> QED BY <1>1, <3>1, <3>2, <3>3 DEF Next, Response, RunsOn
  <2>2. selected \subseteq visited[t]
    BY <1>1, <2>1 DEF IInv, SyncKeepsUp, Syncing, SyncEnds, Iterated
  <2>3. selected \subseteq stops /\ selected \cap drawable \subseteq lines
    BY <1>1, <2>2 DEF IInv, SyncKeepsUp, Syncing, DrawnOrAwaited
  <2> QED BY <2>1, <2>3 DEF SyncEnds
<1>2. ASSUME IInv, [Next]_vars PROVE [A]_vars
  BY <1>1, <1>2
<1> QED
  BY Inductive, <1>2, PTL DEF Spec, SyncDrawsSelection
===============================================================================
