-------------------------------- MODULE RoutePage --------------------------------
(* The route view of web/app.js on top of the JobBoard: the buttons "sync",    *)
(* "async" and "poll" start handlers that wait for answers while the others go *)
(* on, and all write to one map, one output box and one status timer. A handler *)
(* is named by its click; the job of an "async" click bears the click's name.  *)
EXTENDS JobBoard, Naturals

CONSTANTS
    None,        \* no job, no click
    MaxPolls,    \* status requests of an "async" click, 600 in the code
    MaxLoads     \* bound: loadRealtimeRoutes that run at the same time

ASSUME RoutePageAssumption ==
    None \notin Jobs /\ MaxPolls \in Nat \ {0} /\ MaxLoads \in Nat

VARIABLES
    click,       \* what the handler of a click is waiting for
    answer,      \* the answer on its way to it, at last the one it ended with
    polls,       \* status requests an "async" click has seen answered
    watched,     \* the job a click asks the status of
    drawn,       \* whose route is on the map: legLayers, stopMarkers
    output,      \* what the output box shows, of which job, put there by which click
    timer,       \* statusTimer # null
    realtime,    \* realtimeViewActive
    loading,     \* loadRealtimeRoutes that have not ended; they use the same timer
    loaded,      \* rtRoutesById is not empty
    last,        \* the latest click, if the user is not hasty and did nothing since
    hasty        \* something was clicked while a handler was waiting

shown == <<drawn, output, timer>>
history == <<last, hasty>>
loads == <<loading, loaded>>
pageVars == <<boardVars, click, answer, polls, watched, realtime, shown, history, loads>>

Waiting == {"sync", "post", "poll", "sleep", "look"}
Answers == {"none", "failed", "route", "accepted", "ABSENT", "PENDING"} \cup Outcomes
Blank == [kind |-> "none", of |-> None, by |-> None]
Show(kind, j, c) == [kind |-> kind, of |-> j, by |-> c]

Busy == \E c \in Jobs : click[c] \in Waiting

PageInit ==
    /\ Init
    /\ click = [c \in Jobs |-> "idle"]
    /\ answer = [c \in Jobs |-> "none"]
    /\ polls = [c \in Jobs |-> 0]
    /\ watched = [c \in Jobs |-> None]
    /\ drawn = None
    /\ output = Blank
    /\ timer = FALSE
    /\ realtime = FALSE
    /\ loading = 0
    /\ loaded = FALSE
    /\ last = None
    /\ hasty = FALSE

-------------------------------------------------------------------------------
(* What the user does. The buttons are hidden in the realtime view.            *)
Acts(latest) ==
    /\ hasty' = (hasty \/ Busy)
    /\ last' = IF hasty' THEN None ELSE latest

(* A handler starts: an empty output, a running timer, a request on its way.   *)
Start(c, for, j) ==
    /\ click' = [click EXCEPT ![c] = for]
    /\ watched' = [watched EXCEPT ![c] = j]
    /\ output' = Blank
    /\ timer' = TRUE

(* A missing origin, destination or request-id: the handler is over at once.   *)
(* The fields can be edited at any time, so any of them may be missing, and    *)
(* the request-id may be any.                                                  *)
Refuse(c) ==
    /\ click' = [click EXCEPT ![c] = "over"]
    /\ output' = Show("text", None, c)
    /\ timer' = FALSE
    /\ UNCHANGED watched

Click(c) ==
    /\ ~realtime
    /\ click[c] = "idle"
    /\ \/ Start(c, "sync", c)
       \/ Start(c, "post", c)
       \/ \E j \in Jobs : Start(c, "look", j)
       \/ Refuse(c)
    /\ Acts(c)
    /\ UNCHANGED <<boardVars, answer, polls, realtime, drawn, loads>>

(* A click on the map sets a marker and removes the route.                     *)
SetMarker ==
    /\ ~realtime
    /\ drawn' = None
    /\ Acts(None)
    /\ UNCHANGED <<boardVars, click, answer, polls, watched, realtime, output, timer,
                   loads>>

Clear ==
    /\ ~realtime
    /\ drawn' = None /\ output' = Blank /\ timer' = FALSE
    /\ Acts(None)
    /\ UNCHANGED <<boardVars, click, answer, polls, watched, realtime, loads>>

(* setActiveView: handlers go on waiting in the other view. startRealtimeView   *)
(* loads the list of routes until it is there.                                 *)
StartLoading ==
    IF realtime' /\ ~loaded
    THEN loading < MaxLoads /\ loading' = loading + 1 /\ timer' = TRUE
    ELSE UNCHANGED <<loading, timer>>

SwitchView ==
    /\ realtime' \in BOOLEAN
    /\ IF realtime' THEN drawn' = None /\ output' = Blank ELSE UNCHANGED <<drawn, output>>
    /\ StartLoading
    /\ Acts(None)
    /\ UNCHANGED <<boardVars, click, answer, polls, watched, loaded>>

LoadEnds ==
    /\ loading > 0
    /\ loading' = loading - 1
    /\ loaded' \in {loaded, TRUE}
    /\ timer' = FALSE
    /\ UNCHANGED <<boardVars, click, answer, polls, watched, realtime, drawn, output, history>>

-------------------------------------------------------------------------------
(* What the API and the workers do.                                            *)
Serve(j) ==
    /\ \/ /\ click[j] = "post" /\ answer[j] = "none"
          /\ Post(j) \/ PostAndReject(j) \/ Accept(j) \/ Reject(j)
       \/ Finish(j)
    /\ UNCHANGED <<click, answer, polls, watched, realtime, shown, history, loads>>

(* A request is answered, with what the board says then, or it fails.          *)
Answer(c) ==
    /\ click[c] \in Waiting \ {"sleep"}
    /\ answer[c] = "none"
    /\ \E a \in Answers \ {"none"} :
          /\ \/ a = "failed"
             \/ click[c] = "sync" /\ a = "route"
             \/ click[c] = "post" /\ reply[c] = "accepted" /\ a = "accepted"
             \/ click[c] \in {"poll", "look"} /\ a = status[watched[c]]
          /\ answer' = [answer EXCEPT ![c] = a]
    /\ UNCHANGED <<boardVars, click, polls, watched, realtime, shown, history, loads>>

-------------------------------------------------------------------------------
(* What a handler does with its answer.                                        *)
(* Definitions named ..._<Fault> are mutants of the definition below them.     *)
DrawRoute_OnEmptyMap(j, c) ==
    /\ drawn' = IF drawn = None THEN j ELSE drawn
    /\ output' = Show("itinerary", j, c)
DrawRoute(j, c) ==
    /\ drawn' = j
    /\ output' = Show("itinerary", j, c)

(* The catch branches. A job that is not there is a 404, which throws.         *)
Throws(c) == answer[c] \in {"failed", "ABSENT"}
Fail(c) ==
    /\ output' = Show("text", None, c)
    /\ UNCHANGED <<drawn, polls>>

ReceiveRoute(c) ==
    /\ click[c] = "sync"
    /\ IF Throws(c) THEN Fail(c)
       ELSE DrawRoute(c, c) /\ UNCHANGED polls
    /\ click' = [click EXCEPT ![c] = "over"]
    /\ timer' = FALSE

ReceiveId(c) ==
    /\ click[c] = "post"
    /\ IF Throws(c)
       THEN Fail(c) /\ timer' = FALSE /\ click' = [click EXCEPT ![c] = "over"]
       ELSE /\ output' = Show("text", c, c)
            /\ timer' = TRUE
            /\ click' = [click EXCEPT ![c] = "poll"]
            /\ UNCHANGED <<drawn, polls>>

(* One round of the polling loop, and what follows the last one.               *)
Outcome_NotShown(c) ==
    \/ answer[c] = "SUCCESS" /\ drawn' = watched[c] /\ UNCHANGED output
    \/ answer[c] = "ERROR" /\ output' = Show("error", watched[c], c) /\ UNCHANGED drawn
Outcome(c) ==
    \/ answer[c] = "SUCCESS" /\ DrawRoute(watched[c], c)
    \/ answer[c] = "ERROR" /\ output' = Show("error", watched[c], c) /\ UNCHANGED drawn

ReceiveStatus_Uncounted(c) ==
    /\ click[c] = "poll"
    /\ \/ Throws(c) /\ Fail(c)
       \/ Outcome(c) /\ UNCHANGED polls
       \/ answer[c] = "PENDING" /\ UNCHANGED <<polls, drawn, output>>
    /\ IF answer[c] = "PENDING"
       THEN click' = [click EXCEPT ![c] = "sleep"] /\ UNCHANGED timer
       ELSE click' = [click EXCEPT ![c] = "over"] /\ timer' = FALSE
ReceiveStatus(c) ==
    /\ click[c] = "poll"
    /\ \/ Throws(c) /\ Fail(c)
       \/ Outcome(c) /\ UNCHANGED polls
       \/ /\ answer[c] = "PENDING"
          /\ polls' = [polls EXCEPT ![c] = @ + 1]
          /\ UNCHANGED <<drawn, output>>
    /\ IF answer[c] = "PENDING"
       THEN click' = [click EXCEPT ![c] = "sleep"] /\ UNCHANGED timer
       ELSE click' = [click EXCEPT ![c] = "over"] /\ timer' = FALSE

ReceiveLook(c) ==
    /\ click[c] = "look"
    /\ \/ Throws(c) /\ Fail(c)
       \/ Outcome(c) /\ UNCHANGED polls
       \/ /\ answer[c] = "PENDING"
          /\ output' = Show("text", watched[c], c)
          /\ UNCHANGED <<polls, drawn>>
    /\ click' = [click EXCEPT ![c] = "over"]
    /\ timer' = FALSE

Receive(c) ==
    /\ answer[c] # "none"
    /\ ReceiveRoute(c) \/ ReceiveId(c) \/ ReceiveStatus(c) \/ ReceiveLook(c)
    /\ answer' = [answer EXCEPT ![c] = IF click'[c] = "poll" THEN "none" ELSE @]
    /\ UNCHANGED <<boardVars, watched, realtime, history, loads>>

(* A second later the next round begins, or the loop gives up.                 *)
Wake_KeepsTimer(c) ==
    /\ click[c] = "sleep"
    /\ IF polls[c] < MaxPolls
       THEN click' = [click EXCEPT ![c] = "poll"] /\ answer' = [answer EXCEPT ![c] = "none"]
       ELSE click' = [click EXCEPT ![c] = "over"] /\ UNCHANGED answer
    /\ UNCHANGED <<boardVars, polls, watched, realtime, shown, history, loads>>
Wake_OneMore(c) ==
    /\ click[c] = "sleep"
    /\ IF polls[c] <= MaxPolls
       THEN /\ click' = [click EXCEPT ![c] = "poll"]
            /\ answer' = [answer EXCEPT ![c] = "none"]
            /\ UNCHANGED timer
       ELSE /\ click' = [click EXCEPT ![c] = "over"]
            /\ timer' = FALSE
            /\ UNCHANGED answer
    /\ UNCHANGED <<boardVars, polls, watched, realtime, drawn, output, history, loads>>
Wake(c) ==
    /\ click[c] = "sleep"
    /\ IF polls[c] < MaxPolls
       THEN /\ click' = [click EXCEPT ![c] = "poll"]
            /\ answer' = [answer EXCEPT ![c] = "none"]
            /\ UNCHANGED timer
       ELSE /\ click' = [click EXCEPT ![c] = "over"]
            /\ timer' = FALSE
            /\ UNCHANGED answer
    /\ UNCHANGED <<boardVars, polls, watched, realtime, drawn, output, history, loads>>

PageNext ==
    \/ SetMarker \/ Clear \/ SwitchView \/ LoadEnds
    \/ \E c \in Jobs : Click(c) \/ Serve(c) \/ Answer(c) \/ Receive(c) \/ Wake(c)

PageSpec == PageInit /\ [][PageNext]_pageVars

(* The browser settles every request, runs its callbacks and its timeouts.     *)
PageFairSpec ==
    /\ PageSpec
    /\ \A c \in Jobs : WF_pageVars(Answer(c) \/ Receive(c) \/ Wake(c))

-------------------------------------------------------------------------------
PageTypeOK ==
    /\ click \in [Jobs -> Waiting \cup {"idle", "over"}]
    /\ answer \in [Jobs -> Answers]
    /\ polls \in [Jobs -> 0 .. MaxPolls]
    /\ watched \in [Jobs -> Jobs \cup {None}]
    /\ timer \in BOOLEAN /\ realtime \in BOOLEAN /\ hasty \in BOOLEAN
    /\ loading \in 0 .. MaxLoads /\ loaded \in BOOLEAN
    /\ drawn \in Jobs \cup {None}
    /\ last \in Jobs \cup {None}
    /\ output \in [kind : {"none", "text", "error", "itinerary"},
                   of : Jobs \cup {None}, by : Jobs \cup {None}]

(* Whatever overlaps: when the page shows an itinerary and a route is drawn,   *)
(* they are of the same request.                                               *)
MapAgreesWithItinerary ==
    (output.kind = "itinerary" /\ drawn # None) => output.of = drawn

(* The outcome a status request found is still an outcome of the job: workers  *)
(* may turn an error into a success under the page, never into no outcome.     *)
ShownOutcomesStand ==
    (output.kind \in {"itinerary", "error"} /\ status[output.of] # "ABSENT")
        => status[output.of] \in Outcomes

(* The one status timer is shared by all handlers and by the loading of routes; *)
(* once none of them waits, it is stopped, whoever started it and whoever      *)
(* stopped another's.                                                          *)
TimerStops == ~Busy /\ loading = 0 => ~timer

(* A user who never acts while a handler waits sees how his latest click ended: *)
(* after a route or a job's SUCCESS its itinerary, and on the map its route and *)
(* no earlier one; after an ERROR the error; else why there is no route, the    *)
(* map being left as it was. In the realtime view he sees nothing of either.   *)
ShowsHowItEnded(c) ==
    CASE answer[c] \in {"route", "SUCCESS"} ->
            output = Show("itinerary", watched[c], c) /\ drawn = watched[c]
      [] answer[c] = "ERROR" -> output = Show("error", watched[c], c)
      [] OTHER -> output.kind = "text" /\ output.by = c
PatientUserSeesLatest ==
    ~hasty => /\ (last # None /\ click[last] = "over") => ShowsHowItEnded(last)
              /\ realtime => drawn = None /\ output = Blank

(* Every handler comes to an end: the polling loop gives up on a job that gets *)
(* no outcome.                                                                 *)
EveryClickEnds == \A c \in Jobs : click[c] \in Waiting ~> click[c] = "over"
===============================================================================
