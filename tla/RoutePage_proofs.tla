---------------------------- MODULE RoutePage_proofs ----------------------------
(* Proofs about RoutePage for any number of clicks and of polling rounds.      *)
EXTENDS RoutePage, TLAPS

(* The page never makes a job do what the board does not promise.              *)
LEMMA PageStepOnBoard == [PageNext]_pageVars => [Next]_boardVars
BY DEF PageNext, SetMarker, Clear, SwitchView, LoadEnds, Click, Serve, Answer, Receive, Wake,
       Next, pageVars, boardVars

THEOREM BoardHolds == PageSpec => Spec
<1>1. PageInit => Init
  BY DEF PageInit
<1>. QED
  BY <1>1, PageStepOnBoard, PTL DEF PageSpec, Spec

-------------------------------------------------------------------------------
BoardTypes == status \in [Jobs -> {"ABSENT", "PENDING"} \cup Outcomes]

(* A job that has an outcome keeps having one, and a job appears only while    *)
(* its submission is waited for.                                               *)
BoardStep ==
    \A j \in Jobs :
        /\ status[j] \in Outcomes => status'[j] \in Outcomes
        /\ status[j] = "ABSENT" => status'[j] = "ABSENT" \/ click[j] = "post"

LEMMA ServeFacts ==
    ASSUME BoardTypes, NEW c \in Jobs, Serve(c)
    PROVE  BoardTypes' /\ BoardStep
BY DEF BoardTypes, BoardStep, Serve, Post, PostAndReject, Accept, Reject, Finish, Outcomes

(* What a handler knows while it waits.                                        *)
Tracked ==
    \A c \in Jobs :
        /\ click[c] \in Waiting => watched[c] \in Jobs
        /\ click[c] \in {"idle", "sync", "look"} => status[c] = "ABSENT"
        /\ click[c] \in {"idle", "post"} => polls[c] = 0
        /\ click[c] = "poll" => polls[c] < MaxPolls
        /\ click[c] = "idle" => answer[c] = "none"
        /\ click[c] = "sync" => watched[c] = c /\ answer[c] \in {"none", "failed", "route"}
        /\ click[c] = "sleep" => answer[c] = "PENDING"
        /\ answer[c] \in Outcomes =>
              /\ click[c] \in {"poll", "look", "over"}
              /\ watched[c] \in Jobs /\ status[watched[c]] \in Outcomes

(* A route or an error on display is of a job with an outcome, or it answered  *)
(* a "sync" click, which makes no job.                                         *)
ShownIsKnown ==
    output.kind \in {"itinerary", "error"} =>
        /\ output.of \in Jobs
        /\ \/ status[output.of] \in Outcomes
           \/ status[output.of] = "ABSENT" /\ click[output.of] = "over"

(* Without haste one handler waits at most, the latest, in the route view.     *)
OneAtATime ==
    ~hasty => \A c \in Jobs : click[c] \in Waiting => c = last /\ ~realtime

(* A patient user reads about the job while its status is asked for.           *)
PollingIsShown ==
    (~hasty /\ last # None /\ click[last] \in {"poll", "sleep"}) =>
        output.kind = "text" /\ output.by = last

PageInv ==
    /\ BoardTypes
    /\ PageTypeOK
    /\ Tracked
    /\ ShownIsKnown
    /\ MapAgreesWithItinerary
    /\ TimerStops
    /\ OneAtATime
    /\ PollingIsShown
    /\ PatientUserSeesLatest

LEMMA PageInitial == PageInit => PageInv
<1>. SUFFICES ASSUME PageInit PROVE PageInv
  OBVIOUS
<1>. USE RoutePageAssumption DEF PageInit, Init, Blank, Waiting, Outcomes
<1>1. BoardTypes /\ Tracked
  BY DEF BoardTypes, Tracked
<1>2. PageTypeOK
  <2>1. Blank \in [kind : {"none", "text", "error", "itinerary"},
                   of : Jobs \cup {None}, by : Jobs \cup {None}]
    OBVIOUS
  <2>2. [c \in Jobs |-> 0] \in [Jobs -> 0 .. MaxPolls]
    OBVIOUS
  <2>3. [c \in Jobs |-> "none"] \in [Jobs -> Answers]
    BY DEF Answers
  <2>4. 0 \in 0 .. MaxLoads
    OBVIOUS
  <2>. QED
    BY <2>1, <2>2, <2>3, <2>4 DEF PageTypeOK
<1>3. ShownIsKnown /\ MapAgreesWithItinerary /\ TimerStops
  BY DEF ShownIsKnown, MapAgreesWithItinerary, TimerStops
<1>4. OneAtATime /\ PollingIsShown /\ PatientUserSeesLatest
  BY DEF OneAtATime, PollingIsShown, PatientUserSeesLatest
<1>. QED
  BY <1>1, <1>2, <1>3, <1>4 DEF PageInv

(* What the user does.                                                         *)
LEMMA ClickKeeps == ASSUME PageInv, NEW c \in Jobs, Click(c) PROVE PageInv'
<1>. USE DEF Click, Start, Refuse, Show, Blank, Waiting, Acts, boardVars, loads, PageInv
<1>1. BoardTypes'
  BY DEF BoardTypes
<1>2. PageTypeOK'
  <2>1. click' \in [Jobs -> Waiting \cup {"idle", "over"}]
    BY DEF PageTypeOK
  <2>2. watched' \in [Jobs -> Jobs \cup {None}]
    BY DEF PageTypeOK
  <2>3. output' \in [kind : {"none", "text", "error", "itinerary"},
                     of : Jobs \cup {None}, by : Jobs \cup {None}]
    OBVIOUS
  <2>4. timer' \in BOOLEAN /\ hasty' \in BOOLEAN
    BY Zenon DEF PageTypeOK, Busy
  <2>. QED
    BY <2>1, <2>2, <2>3, <2>4 DEF PageTypeOK
<1>3. Tracked'
  BY DEF Tracked, PageTypeOK, Outcomes
<1>4. ShownIsKnown' /\ MapAgreesWithItinerary'
  BY DEF ShownIsKnown, MapAgreesWithItinerary
<1>5. TimerStops'
  BY DEF TimerStops, Busy, PageTypeOK
<1>6. OneAtATime'
  BY DEF OneAtATime, Busy, PageTypeOK
<1>7. ~hasty' => ~hasty /\ last' = c /\ ~realtime'
  BY DEF PageTypeOK
<1>8. PollingIsShown'
  BY <1>7 DEF PollingIsShown, PageTypeOK
<1>9. PatientUserSeesLatest'
  <2>1. (click'[c] = "over" => ShowsHowItEnded(c)')
    <3>. SUFFICES ASSUME click'[c] = "over" PROVE ShowsHowItEnded(c)'
      OBVIOUS
    <3>1. Refuse(c) /\ answer' = answer
      BY DEF PageTypeOK
    <3>2. answer'[c] = "none"
      BY <3>1 DEF Tracked
    <3>3. output'.kind = "text" /\ output'.by = c
      BY <3>1
    <3>. QED
      BY <3>2, <3>3 DEF ShowsHowItEnded
  <2>. QED
    BY <1>7, <2>1 DEF PatientUserSeesLatest
<1>. QED
  BY <1>1, <1>2, <1>3, <1>4, <1>5, <1>6, <1>8, <1>9

LEMMA UserKeeps ==
    ASSUME PageInv, SetMarker \/ Clear \/ SwitchView PROVE PageInv'
<1>1. /\ UNCHANGED <<boardVars, click, answer, polls, watched, loaded>>
      /\ Acts(None)
      /\ realtime' \in BOOLEAN
      /\ \/ loading' = loading /\ timer' \in {timer, FALSE}
         \/ loading' = loading + 1 /\ loading < MaxLoads /\ timer' = TRUE
      /\ output' \in {output, Blank}
      /\ drawn' \in {drawn, None}
      /\ realtime' => drawn' = None /\ output' = Blank
  <2>. USE DEF PageInv, PageTypeOK
  <2>1. CASE SetMarker
    BY <2>1 DEF SetMarker, loads
  <2>2. CASE Clear
    BY <2>2 DEF Clear, loads
  <2>3. CASE SwitchView
    BY <2>3 DEF SwitchView, StartLoading
  <2>. QED
    BY <2>1, <2>2, <2>3
<1>2. Blank \in [kind : {"none", "text", "error", "itinerary"},
                of : Jobs \cup {None}, by : Jobs \cup {None}]
  BY DEF Blank
<1>. USE DEF boardVars, PageInv
<1>3. BoardTypes' /\ Tracked'
  BY <1>1 DEF BoardTypes, Tracked
<1>4. hasty' \in BOOLEAN /\ (~hasty' => ~hasty /\ ~Busy) /\ last' = None
  BY <1>1, Zenon DEF PageTypeOK, Busy, Acts
<1>5. PageTypeOK'
  <2>1. loading' \in 0 .. MaxLoads
    <3>1. loading \in 0 .. MaxLoads /\ MaxLoads \in Nat
      BY RoutePageAssumption DEF PageTypeOK
    <3>2. CASE loading' = loading
      BY <3>1, <3>2
    <3>3. CASE loading' = loading + 1 /\ loading < MaxLoads
      BY <3>1, <3>3
    <3>. QED
      BY <1>1, <3>2, <3>3
  <2>2. timer' \in BOOLEAN
    BY <1>1 DEF PageTypeOK
  <2>. QED
    BY <1>1, <1>2, <1>4, <2>1, <2>2 DEF PageTypeOK
<1>6. ShownIsKnown' /\ MapAgreesWithItinerary'
  BY <1>1 DEF ShownIsKnown, MapAgreesWithItinerary, Blank
<1>7. TimerStops'
  <2>1. loading' = 0 => loading = 0 /\ timer' \in {timer, FALSE}
    <3>1. loading \in Nat
      BY RoutePageAssumption DEF PageTypeOK
    <3>2. CASE loading' = loading /\ timer' \in {timer, FALSE}
      BY <3>2, Zenon
    <3>3. CASE loading' = loading + 1
      <4>1. loading' # 0
        BY <3>1, <3>3
      <4>. QED
        BY <4>1, Zenon
    <3>. QED
      BY <1>1, <3>2, <3>3, Zenon
  <2>. QED
    BY <1>1, <2>1 DEF TimerStops, Busy
<1>8. OneAtATime'
  BY <1>1, <1>4 DEF OneAtATime, Busy
<1>9. PollingIsShown' /\ PatientUserSeesLatest'
  BY <1>1, <1>4 DEF PollingIsShown, PatientUserSeesLatest, Blank
<1>. QED
  BY <1>3, <1>5, <1>6, <1>7, <1>8, <1>9

LEMMA LoadEndsKeeps == ASSUME PageInv, LoadEnds PROVE PageInv'
<1>. USE DEF LoadEnds, history, boardVars, PageInv
<1>1. PageTypeOK' /\ BoardTypes'
  <2>1. loading \in 0 .. MaxLoads /\ MaxLoads \in Nat
    BY RoutePageAssumption DEF PageTypeOK
  <2>2. loading' \in 0 .. MaxLoads
    BY <2>1
  <2>3. loaded' \in BOOLEAN
    BY Zenon DEF PageTypeOK
  <2>. QED
    BY <2>2, <2>3 DEF PageTypeOK, BoardTypes
<1>2. Tracked' /\ ShownIsKnown' /\ MapAgreesWithItinerary' /\ TimerStops'
  BY DEF Tracked, ShownIsKnown, MapAgreesWithItinerary, TimerStops
<1>3. OneAtATime' /\ PollingIsShown' /\ PatientUserSeesLatest'
  BY DEF OneAtATime, PollingIsShown, PatientUserSeesLatest, ShowsHowItEnded
<1>. QED
  BY <1>1, <1>2, <1>3

(* What the API does.                                                          *)
LEMMA ServeKeeps == ASSUME PageInv, NEW c \in Jobs, Serve(c) PROVE PageInv'
<1>1. BoardTypes' /\ BoardStep
  BY ServeFacts DEF PageInv
<1>2. UNCHANGED <<click, answer, polls, watched, realtime, shown, history, loads>>
  BY DEF Serve
<1>. USE DEF shown, history, loads, PageInv
<1>3. PageTypeOK'
  BY <1>2 DEF PageTypeOK
<1>4. Tracked'
  <2>1. \A b \in Jobs : click[b] \in {"idle", "sync", "look"} => status'[b] = "ABSENT"
    BY <1>1 DEF Tracked, BoardStep
  <2>2. \A b \in Jobs : answer[b] \in Outcomes => status'[watched[b]] \in Outcomes
    <3>. SUFFICES ASSUME NEW b \in Jobs, answer[b] \in Outcomes
                  PROVE  status'[watched[b]] \in Outcomes
      OBVIOUS
    <3>1. status[watched[b]] \in Outcomes
      BY DEF Tracked
    <3>2. watched[b] \in Jobs
      BY DEF Tracked
    <3>. QED
      BY <1>1, <3>1, <3>2 DEF BoardStep
  <2>. QED
    BY <1>2, <2>1, <2>2 DEF Tracked
<1>5. ShownIsKnown'
  BY <1>1, <1>2 DEF ShownIsKnown, BoardStep
<1>6. /\ MapAgreesWithItinerary' /\ TimerStops' /\ OneAtATime' /\ PollingIsShown'
      /\ PatientUserSeesLatest'
  BY <1>2 DEF MapAgreesWithItinerary, TimerStops, Busy, OneAtATime, PollingIsShown,
              PatientUserSeesLatest, ShowsHowItEnded
<1>. QED
  BY <1>1, <1>3, <1>4, <1>5, <1>6

LEMMA AnswerKeeps == ASSUME PageInv, NEW c \in Jobs, Answer(c) PROVE PageInv'
<1>. PICK a \in Answers \ {"none"} :
        /\ \/ a = "failed"
           \/ click[c] = "sync" /\ a = "route"
           \/ click[c] = "post" /\ reply[c] = "accepted" /\ a = "accepted"
           \/ click[c] \in {"poll", "look"} /\ a = status[watched[c]]
        /\ answer' = [answer EXCEPT ![c] = a]
  BY DEF Answer
<1>1. UNCHANGED <<boardVars, click, polls, watched, realtime, shown, history, loads>>
  BY DEF Answer
<1>. USE DEF shown, history, loads, boardVars, PageInv
<1>2. PageTypeOK' /\ BoardTypes'
  BY <1>1 DEF PageTypeOK, BoardTypes
<1>3. Tracked'
  <2>1. \A b \in Jobs : b # c => answer'[b] = answer[b]
    BY DEF PageTypeOK
  <2>2. answer'[c] = a /\ a # "none" /\ click[c] \in Waiting \ {"sleep"}
    BY DEF Answer, PageTypeOK
  <2>3. click[c] = "sync" => a \in {"failed", "route"}
    OBVIOUS
  <2>4. a \in Outcomes =>
           /\ click[c] \in {"poll", "look"} /\ status[watched[c]] \in Outcomes
           /\ watched[c] \in Jobs
    BY <2>2 DEF Tracked, Outcomes
  <2>. QED
    BY <1>1, <2>1, <2>2, <2>3, <2>4 DEF Tracked, Waiting
<1>4. /\ ShownIsKnown' /\ MapAgreesWithItinerary' /\ TimerStops' /\ OneAtATime'
      /\ PollingIsShown'
  BY <1>1 DEF ShownIsKnown, MapAgreesWithItinerary, TimerStops, Busy, OneAtATime,
              PollingIsShown
<1>5. PatientUserSeesLatest'
  <2>1. \A b \in Jobs : click[b] = "over" => answer'[b] = answer[b]
    <3>1. click[c] # "over"
      BY DEF Answer, Waiting
    <3>. QED
      BY <3>1 DEF PageTypeOK
  <2>2. last # None => last \in Jobs
    BY DEF PageTypeOK
  <2>. QED
    BY <1>1, <2>1, <2>2 DEF PatientUserSeesLatest, ShowsHowItEnded
<1>. QED
  BY <1>2, <1>3, <1>4, <1>5

(* What the handlers do.                                                       *)
LEMMA WakeKeeps == ASSUME PageInv, NEW c \in Jobs, Wake(c) PROVE PageInv'
<1>. USE DEF Wake, history, boardVars, loads, Waiting, PageInv
<1>1. PageTypeOK' /\ BoardTypes'
  BY DEF PageTypeOK, BoardTypes, Answers
<1>2. Tracked'
  BY DEF Tracked, PageTypeOK, Outcomes
<1>3. ShownIsKnown' /\ MapAgreesWithItinerary'
  BY DEF ShownIsKnown, MapAgreesWithItinerary, PageTypeOK
<1>4. TimerStops'
  BY DEF TimerStops, Busy, PageTypeOK
<1>5. OneAtATime' /\ PollingIsShown'
  BY DEF OneAtATime, PollingIsShown, PageTypeOK
<1>6. PatientUserSeesLatest'
  <2>1. ~hasty => c = last /\ ~realtime
    BY DEF OneAtATime
  <2>2. ASSUME ~hasty, click'[c] = "over" PROVE ShowsHowItEnded(c)'
    <3>1. output.kind = "text" /\ output.by = c /\ c # None
      BY <2>1, <2>2, RoutePageAssumption DEF PollingIsShown
    <3>2. answer'[c] = "PENDING" /\ output' = output
      BY <2>2 DEF Tracked, PageTypeOK
    <3>. QED
      BY <3>1, <3>2 DEF ShowsHowItEnded
  <2>. QED
    BY <2>1, <2>2 DEF PatientUserSeesLatest
<1>. QED
  BY <1>1, <1>2, <1>3, <1>4, <1>5, <1>6

(* A handler ends, or goes on with the timer running.                          *)
LEMMA ReceiveFacts ==
    ASSUME PageInv, NEW c \in Jobs, Receive(c)
    PROVE  /\ click[c] \in Waiting /\ watched[c] \in Jobs
           /\ UNCHANGED <<status, reply, watched, realtime, last, hasty, loads>>
           /\ answer' = [answer EXCEPT ![c] = IF click'[c] = "poll" THEN "none" ELSE @]
           /\ \/ /\ click' = [click EXCEPT ![c] = "over"]
                 /\ timer' = FALSE
                 /\ polls' = polls
              \/ /\ click[c] \in {"post", "poll"} /\ (click[c] = "post" => polls' = polls)
                 /\ click[c] = "poll" => answer[c] = "PENDING"
                 /\ click' = [click EXCEPT ![c] = IF click[c] = "post" THEN "poll" ELSE "sleep"]
                 /\ timer' \in {timer, TRUE}
                 /\ click[c] = "poll" => polls' = [polls EXCEPT ![c] = @ + 1]
           /\ \/ UNCHANGED <<drawn, output>>
              \/ UNCHANGED drawn /\ \E j \in {None, c, watched[c]} : output' = Show("text", j, c)
              \/ /\ UNCHANGED drawn /\ output' = Show("error", watched[c], c)
                 /\ status[watched[c]] \in Outcomes
              \/ /\ click[c] = "sync" /\ drawn' = c /\ output' = Show("itinerary", c, c)
                 /\ status[c] = "ABSENT" /\ click' = [click EXCEPT ![c] = "over"]
              \/ /\ drawn' = watched[c] /\ output' = Show("itinerary", watched[c], c)
                 /\ status[watched[c]] \in Outcomes
<1>1. /\ UNCHANGED <<status, reply, watched, realtime, last, hasty, loads>>
      /\ answer' = [answer EXCEPT ![c] = IF click'[c] = "poll" THEN "none" ELSE @]
  BY DEF Receive, history, boardVars
<1>. USE DEF PageInv, Waiting
<1>2. CASE ReceiveRoute(c)
  BY <1>1, <1>2 DEF ReceiveRoute, DrawRoute, Fail, Tracked
<1>3. CASE ReceiveId(c)
  BY <1>1, <1>3 DEF ReceiveId, Fail, Tracked
<1>4. CASE ReceiveStatus(c)
  BY <1>1, <1>4 DEF ReceiveStatus, Throws, Outcome, DrawRoute, Fail, Tracked, Outcomes
<1>5. CASE ReceiveLook(c)
  BY <1>1, <1>5 DEF ReceiveLook, Throws, Outcome, DrawRoute, Fail, Tracked, Outcomes
<1>. QED
  BY <1>2, <1>3, <1>4, <1>5 DEF Receive

(* The last answer of a handler decides what it leaves on the page, and what a *)
(* patient user reads while it goes on is of it.                               *)
LEMMA ReceiveShows ==
    ASSUME PageInv, NEW c \in Jobs, Receive(c)
    PROVE  /\ click'[c] = "over" => ShowsHowItEnded(c)'
           /\ ~hasty /\ click'[c] \in {"poll", "sleep"} =>
                 output'.kind = "text" /\ output'.by = c
<1>1. watched' = watched /\ (click'[c] # "poll" => answer'[c] = answer[c]) /\ answer[c] # "none"
  BY DEF Receive, PageInv, PageTypeOK
<1>2. ~hasty /\ click[c] \in Waiting => c = last /\ c # None
  BY RoutePageAssumption DEF PageInv, OneAtATime
<1>3. \A j : Show("text", j, c).kind = "text" /\ Show("text", j, c).by = c
  BY DEF Show
<1>4. Throws(c) => answer[c] \in {"failed", "ABSENT"}
  BY DEF Throws
<1>5. CASE ReceiveRoute(c)
  <2>1. click'[c] = "over" /\ watched[c] = c /\ answer[c] \in {"failed", "route"}
    BY <1>1, <1>5 DEF ReceiveRoute, PageInv, PageTypeOK, Tracked
  <2>2. CASE answer[c] = "failed"
    <3>1. output' = Show("text", None, c)
      BY <1>5, <2>2 DEF ReceiveRoute, Throws, Fail
    <3>. QED
      BY <1>1, <1>3, <2>1, <2>2, <3>1 DEF ShowsHowItEnded
  <2>3. CASE answer[c] = "route"
    <3>1. output' = Show("itinerary", c, c) /\ drawn' = c
      BY <1>5, <2>3 DEF ReceiveRoute, Throws, DrawRoute
    <3>. QED
      BY <1>1, <2>1, <2>3, <3>1 DEF ShowsHowItEnded
  <2>. QED
    BY <2>1, <2>2, <2>3
<1>6. CASE ReceiveId(c)
  <2>1. CASE Throws(c)
    <3>1. output' = Show("text", None, c) /\ click'[c] = "over"
      BY <1>6, <2>1 DEF ReceiveId, Fail, PageInv, PageTypeOK
    <3>. QED
      BY <1>1, <1>3, <1>4, <2>1, <3>1 DEF ShowsHowItEnded
  <2>2. CASE ~Throws(c)
    <3>1. output' = Show("text", c, c) /\ click'[c] = "poll"
      BY <1>6, <2>2 DEF ReceiveId, PageInv, PageTypeOK
    <3>. QED
      BY <1>3, <3>1
  <2>. QED
    BY <2>1, <2>2
<1>7. CASE ReceiveStatus(c) /\ answer[c] = "PENDING"
  <2>1. click[c] = "poll" /\ click'[c] = "sleep" /\ output' = output
    BY <1>7 DEF ReceiveStatus, Throws, Outcome, PageInv, PageTypeOK
  <2>2. ~hasty => output.kind = "text" /\ output.by = c
    BY <1>2, <2>1 DEF PageInv, PollingIsShown, Waiting
  <2>. QED
    BY <2>1, <2>2
<1>8. CASE (ReceiveStatus(c) /\ answer[c] # "PENDING") \/ ReceiveLook(c)
  <2>1. click'[c] = "over"
    BY <1>8 DEF ReceiveStatus, ReceiveLook, PageInv, PageTypeOK
  <2>2. \/ Throws(c) /\ output' = Show("text", None, c)
        \/ answer[c] = "SUCCESS" /\ output' = Show("itinerary", watched[c], c)
           /\ drawn' = watched[c]
        \/ answer[c] = "ERROR" /\ output' = Show("error", watched[c], c)
        \/ answer[c] = "PENDING" /\ output' = Show("text", watched[c], c)
    BY <1>8 DEF ReceiveStatus, ReceiveLook, Fail, Outcome, DrawRoute
  <2>. QED
    BY <1>1, <1>3, <1>4, <2>1, <2>2 DEF ShowsHowItEnded
<1>. QED
  BY <1>5, <1>6, <1>7, <1>8 DEF Receive

LEMMA ReceiveKeeps == ASSUME PageInv, NEW c \in Jobs, Receive(c) PROVE PageInv'
<1>1. /\ click[c] \in Waiting /\ watched[c] \in Jobs
      /\ UNCHANGED <<status, reply, watched, realtime, last, hasty, loads>>
      /\ answer' = [answer EXCEPT ![c] = IF click'[c] = "poll" THEN "none" ELSE @]
  BY ReceiveFacts
<1>2. \/ /\ click' = [click EXCEPT ![c] = "over"]
         /\ timer' = FALSE
         /\ polls' = polls
      \/ /\ click[c] \in {"post", "poll"} /\ (click[c] = "post" => polls' = polls)
         /\ click[c] = "poll" => answer[c] = "PENDING"
         /\ click' = [click EXCEPT ![c] = IF click[c] = "post" THEN "poll" ELSE "sleep"]
         /\ timer' \in {timer, TRUE}
         /\ click[c] = "poll" => polls' = [polls EXCEPT ![c] = @ + 1]
  BY ReceiveFacts
<1>3. \/ UNCHANGED <<drawn, output>>
      \/ UNCHANGED drawn /\ \E j \in {None, c, watched[c]} : output' = Show("text", j, c)
      \/ /\ UNCHANGED drawn /\ output' = Show("error", watched[c], c)
         /\ status[watched[c]] \in Outcomes
      \/ /\ click[c] = "sync" /\ drawn' = c /\ output' = Show("itinerary", c, c)
         /\ status[c] = "ABSENT" /\ click' = [click EXCEPT ![c] = "over"]
      \/ /\ drawn' = watched[c] /\ output' = Show("itinerary", watched[c], c)
         /\ status[watched[c]] \in Outcomes
  BY ReceiveFacts
<1>. USE DEF PageInv
<1>4. BoardTypes'
  BY <1>1 DEF BoardTypes
<1>5. polls' \in [Jobs -> 0 .. MaxPolls]
  <2>1. CASE polls' = polls
    BY <2>1 DEF PageTypeOK
  <2>2. CASE click[c] = "poll" /\ polls' = [polls EXCEPT ![c] = @ + 1]
    <3>1. polls[c] + 1 \in 0 .. MaxPolls
      BY <2>2, RoutePageAssumption DEF PageTypeOK, Tracked
    <3>. QED
      BY <2>2, <3>1 DEF PageTypeOK
  <2>. QED
    BY <1>2, <2>1, <2>2
<1>6. PageTypeOK'
  <2>1. click' \in [Jobs -> Waiting \cup {"idle", "over"}]
    BY <1>2 DEF PageTypeOK, Waiting
  <2>2. answer' \in [Jobs -> Answers]
    BY <1>1 DEF PageTypeOK, Answers
  <2>3. timer' \in BOOLEAN
    BY <1>2 DEF PageTypeOK
  <2>4. drawn' \in Jobs \cup {None}
    BY <1>1, <1>3 DEF PageTypeOK
  <2>5. output' \in [kind : {"none", "text", "error", "itinerary"},
                     of : Jobs \cup {None}, by : Jobs \cup {None}]
    <3>1. \A j \in Jobs \cup {None}, k \in {"text", "error", "itinerary"} :
             Show(k, j, c) \in [kind : {"none", "text", "error", "itinerary"},
                                of : Jobs \cup {None}, by : Jobs \cup {None}]
      BY DEF Show
    <3>. QED
      BY <1>1, <1>3, <3>1 DEF PageTypeOK
  <2>. QED
    BY <1>1, <1>5, <2>1, <2>2, <2>3, <2>4, <2>5 DEF PageTypeOK, loads
<1>7. Tracked'
  <2>. SUFFICES ASSUME NEW b \in Jobs
                PROVE  /\ click'[b] \in Waiting => watched'[b] \in Jobs
                       /\ click'[b] \in {"idle", "sync", "look"} => status'[b] = "ABSENT"
                       /\ click'[b] \in {"idle", "post"} => polls'[b] = 0
                       /\ click'[b] = "poll" => polls'[b] < MaxPolls
                       /\ click'[b] = "idle" => answer'[b] = "none"
                       /\ click'[b] = "sync" =>
                             watched'[b] = b /\ answer'[b] \in {"none", "failed", "route"}
                       /\ click'[b] = "sleep" => answer'[b] = "PENDING"
                       /\ answer'[b] \in Outcomes =>
                             /\ click'[b] \in {"poll", "look", "over"}
                             /\ watched'[b] \in Jobs /\ status'[watched'[b]] \in Outcomes
    BY DEF Tracked
  <2>1. CASE b # c
    <3>1. click'[b] = click[b] /\ polls'[b] = polls[b] /\ answer'[b] = answer[b]
      BY <1>1, <1>2, <2>1 DEF PageTypeOK
    <3>. QED
      BY <1>1, <3>1 DEF Tracked
  <2>2. CASE b = c
    <3>1. answer'[c] = IF click'[c] = "poll" THEN "none" ELSE answer[c]
      BY <1>1 DEF PageTypeOK
    <3>2. \/ click'[c] = "over"
          \/ click'[c] = "sleep" /\ answer[c] = "PENDING"
          \/ click'[c] = "poll" /\ click[c] = "post" /\ polls'[c] = polls[c]
      BY <1>2 DEF PageTypeOK
    <3>. QED
      BY <1>1, <2>2, <3>1, <3>2, RoutePageAssumption DEF Tracked, Outcomes
  <2>. QED
    BY <2>1, <2>2
<1>8. \A b \in Jobs : click[b] = "over" => click'[b] = "over"
  BY <1>1, <1>2 DEF PageTypeOK, Waiting
<1>9. ShownIsKnown' /\ MapAgreesWithItinerary'
  <2>1. CASE UNCHANGED <<drawn, output>>
    BY <1>1, <1>8, <2>1 DEF ShownIsKnown, MapAgreesWithItinerary
  <2>2. CASE UNCHANGED drawn /\ \E j \in {None, c, watched[c]} : output' = Show("text", j, c)
    BY <2>2 DEF ShownIsKnown, MapAgreesWithItinerary, Show
  <2>3. CASE /\ UNCHANGED drawn /\ output' = Show("error", watched[c], c)
             /\ status[watched[c]] \in Outcomes
    BY <1>1, <2>3 DEF ShownIsKnown, MapAgreesWithItinerary, Show
  <2>4. CASE /\ click[c] = "sync" /\ drawn' = c /\ output' = Show("itinerary", c, c)
             /\ status[c] = "ABSENT" /\ click' = [click EXCEPT ![c] = "over"]
    BY <1>1, <2>4 DEF ShownIsKnown, MapAgreesWithItinerary, Show, PageTypeOK
  <2>5. CASE /\ drawn' = watched[c] /\ output' = Show("itinerary", watched[c], c)
             /\ status[watched[c]] \in Outcomes
    BY <1>1, <2>5 DEF ShownIsKnown, MapAgreesWithItinerary, Show
  <2>. QED
    BY <1>3, <2>1, <2>2, <2>3, <2>4, <2>5
<1>10. TimerStops'
  BY <1>1, <1>2 DEF loads, TimerStops, Busy, PageTypeOK, Waiting
<1>11. OneAtATime'
  BY <1>1, <1>2 DEF OneAtATime, PageTypeOK, Waiting
<1>12. ~hasty => c = last /\ ~realtime
  BY <1>1 DEF OneAtATime
<1>13. PollingIsShown'
  <2>. SUFFICES ASSUME ~hasty, click'[c] \in {"poll", "sleep"}
                PROVE  output'.kind = "text" /\ output'.by = c
    BY <1>1, <1>12 DEF PollingIsShown
  <2>. QED
    BY ReceiveShows
<1>14. PatientUserSeesLatest'
  <2>1. click'[c] = "over" => ShowsHowItEnded(c)'
    BY ReceiveShows
  <2>. QED
    BY <1>1, <1>12, <2>1 DEF PatientUserSeesLatest
<1>. QED
  BY <1>4, <1>6, <1>7, <1>9, <1>10, <1>11, <1>13, <1>14

LEMMA PageStep == PageInv /\ [PageNext]_pageVars => PageInv'
<1>. SUFFICES ASSUME PageInv, [PageNext]_pageVars PROVE PageInv'
  OBVIOUS
<1>1. CASE UNCHANGED pageVars
  BY <1>1 DEF pageVars, boardVars, shown, history, loads, PageInv, BoardTypes, PageTypeOK,
              Tracked, ShownIsKnown, MapAgreesWithItinerary, TimerStops, Busy, OneAtATime,
              PollingIsShown, PatientUserSeesLatest, ShowsHowItEnded
<1>. QED
  BY <1>1, ClickKeeps, UserKeeps, LoadEndsKeeps, ServeKeeps, AnswerKeeps, ReceiveKeeps, WakeKeeps
     DEF PageNext

-------------------------------------------------------------------------------
(* The page keeps its types: the polling loop never goes beyond MaxPolls.      *)
THEOREM PageTypeCorrect == PageSpec => []PageTypeOK
<1>1. PageInv => PageTypeOK
  BY DEF PageInv
<1>. QED
  BY <1>1, PageInitial, PageStep, PTL DEF PageSpec

(* Map and itinerary never show different requests, however handlers overlap.  *)
THEOREM MapAgrees == PageSpec => []MapAgreesWithItinerary
<1>1. PageInv => MapAgreesWithItinerary
  BY DEF PageInv
<1>. QED
  BY <1>1, PageInitial, PageStep, PTL DEF PageSpec

(* A job shown with an outcome has one for as long as it is shown.             *)
THEOREM ShownOutcomesHold == PageSpec => []ShownOutcomesStand
<1>1. PageInv => ShownOutcomesStand
  BY DEF PageInv, ShownIsKnown, ShownOutcomesStand
<1>. QED
  BY <1>1, PageInitial, PageStep, PTL DEF PageSpec

(* The timer does not outlive the handlers.                                    *)
THEOREM TimerHolds == PageSpec => []TimerStops
<1>1. PageInv => TimerStops
  BY DEF PageInv
<1>. QED
  BY <1>1, PageInitial, PageStep, PTL DEF PageSpec

(* A page whose user waits for each answer shows what the latest click found.  *)
THEOREM PatientHolds == PageSpec => []PatientUserSeesLatest
<1>1. PageInv => PatientUserSeesLatest
  BY DEF PageInv
<1>. QED
  BY <1>1, PageInitial, PageStep, PTL DEF PageSpec
===============================================================================
