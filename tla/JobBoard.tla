------------------------------- MODULE JobBoard -------------------------------
(* What POST /routes/async and GET /routes/jobs/{id} promise together: a job   *)
(* is posted once, gets an outcome after it was posted, keeps an outcome from  *)
(* then on, and a client is given the id of a posted job only. The queue, the  *)
(* workers and their failures do not appear.                                   *)
CONSTANT Jobs
VARIABLES
    status,   \* what the table says of a job
    reply     \* what the submitting client was told

boardVars == <<status, reply>>

Outcomes == {"SUCCESS", "ERROR"}

Init ==
    /\ status = [j \in Jobs |-> "ABSENT"]
    /\ reply = [j \in Jobs |-> "none"]

Post(j) ==
    /\ status[j] = "ABSENT"
    /\ reply[j] = "none"
    /\ status' = [status EXCEPT ![j] = "PENDING"]
    /\ UNCHANGED reply

(* The submission fails after the job was written.                            *)
PostAndReject(j) ==
    /\ status[j] = "ABSENT"
    /\ reply[j] = "none"
    /\ status' = [status EXCEPT ![j] = "PENDING"]
    /\ reply' = [reply EXCEPT ![j] = "rejected"]

Accept(j) ==
    /\ reply[j] = "none"
    /\ status[j] # "ABSENT"
    /\ reply' = [reply EXCEPT ![j] = "accepted"]
    /\ UNCHANGED status

Reject(j) ==
    /\ reply[j] = "none"
    /\ reply' = [reply EXCEPT ![j] = "rejected"]
    /\ UNCHANGED status

(* A delivery finishes the job, before or after its submission is answered; a *)
(* second delivery may change the outcome.                                    *)
Finish(j) ==
    /\ status[j] # "ABSENT"
    /\ \E o \in Outcomes : status' = [status EXCEPT ![j] = o]
    /\ UNCHANGED reply

Next ==
    \E j \in Jobs : Post(j) \/ PostAndReject(j) \/ Accept(j) \/ Reject(j) \/ Finish(j)

Spec == Init /\ [][Next]_boardVars
=============================================================================
