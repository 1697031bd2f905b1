------------------------------ MODULE RouteJobs ------------------------------
(* The asynchronous job pipeline: RouteJobsService.submit in the API process, *)
(* the SQS queue (external), the worker processes of src/worker.py, and the   *)
(* DynamoDB table of route results (external, used through                   *)
(* DynamoDbRouteResultRepository).                                           *)
(* One atomic step is one call to SQS or DynamoDB, so every interleaving of   *)
(* API threads, workers, redeliveries and crashes between two calls is a      *)
(* behaviour. Route coordinates, timestamps and error texts are left out.     *)
EXTENDS Naturals, FiniteSets

CONSTANTS
    Requests,    \* request ids that uuid4 may hand out (never twice the same)
    Messages,    \* identities of the messages SQS accepts, one per send
    Workers,     \* worker processes
    NoId,        \* the body of a message without a request_id
    NoMessage,   \* a worker that is processing nothing
    BatchSize,   \* max_messages of consume_request
    Loop,        \* WORKER_LOOP: keep polling when the queue is empty
    MaxFaults    \* bound on the failures of one behaviour

ASSUME RouteJobsAssumption ==
    /\ NoId \notin Requests
    /\ NoMessage \notin Messages
    /\ BatchSize \in Nat \ {0}
    /\ Loop \in BOOLEAN
    /\ MaxFaults \in Nat

VARIABLES
    submit,      \* how far submit(...) has come for a request id
    table,       \* the DynamoDB item of a request id
    box,         \* where SQS holds a message
    body,        \* the request id in a message's body
    pc,          \* where a worker is in its loop
    received,    \* messages received by consume_request and not yet deleted
    bodies,      \* messages deleted from SQS and not yet processed
    current,     \* the message a worker is computing a route for
    faults,      \* failures so far (bound)
    lost         \* history: ids whose message a failure has destroyed

jobVars == <<submit, table>>
queueVars == <<box, body>>
workerVars == <<pc, received, bodies, current>>
vars == <<submit, table, box, body, pc, received, bodies, current, faults, lost>>

Statuses == {"ABSENT", "PENDING", "SUCCESS", "ERROR"}
Terminal == {"SUCCESS", "ERROR"}
Rows == [status : Statuses, payload : BOOLEAN, result : BOOLEAN, error : BOOLEAN]
SubmitStates == {"new", "saved", "published", "accepted", "rejected"}
BoxStates == {"unsent", "visible", "inflight", "deleted"}
WorkerStates == {"poll", "deleting", "next", "routing", "recording", "dead"}

(* The item under a key: put_item replaces it whole, update_item creates it   *)
(* when it is absent and touches only the attributes it names.                *)
AbsentRow == [status |-> "ABSENT", payload |-> FALSE, result |-> FALSE, error |-> FALSE]
PendingRow == [status |-> "PENDING", payload |-> TRUE, result |-> FALSE, error |-> FALSE]
(* Definitions named ..._<Fault> are mutants, wrong variants of the definition  *)
(* below them that the properties must tell from it.                          *)
SuccessRow_KeepsError(row) == [row EXCEPT !.status = "SUCCESS", !.result = TRUE]
SuccessRow(row) == [row EXCEPT !.status = "SUCCESS", !.result = TRUE, !.error = FALSE]
ErrorRow_Misnamed(row) == [row EXCEPT !.status = "FAILED", !.error = TRUE]
ErrorRow_Replaces(row) == [AbsentRow EXCEPT !.status = "ERROR", !.error = TRUE]
ErrorRow(row) == [row EXCEPT !.status = "ERROR", !.error = TRUE]

(* What GET /routes/jobs/{id} answers: 404 when the item is missing.          *)
JobStatus(r) == IF table[r].status = "ABSENT" THEN "404" ELSE table[r].status

Carried(S) == {body[m] : m \in S} \ {NoId}

(* Messages whose body a worker holds in memory and in no other place.        *)
InHand(w) == bodies[w] \cup ({current[w]} \cap Messages)

Fault == faults < MaxFaults /\ faults' = faults + 1

Init ==
    /\ submit = [r \in Requests |-> "new"]
    /\ table = [r \in Requests |-> AbsentRow]
    /\ box = [m \in Messages |-> "unsent"]
    /\ body = [m \in Messages |-> NoId]
    /\ pc = [w \in Workers |-> "poll"]
    /\ received = [w \in Workers |-> {}]
    /\ bodies = [w \in Workers |-> {}]
    /\ current = [w \in Workers |-> NoMessage]
    /\ faults = 0
    /\ lost = {}

-----------------------------------------------------------------------------
(* The API process: put_pending, then publish_request, then the reply.        *)

SubmitPutPending(r) ==
    /\ submit[r] = "new"
    /\ submit' = [submit EXCEPT ![r] = "saved"]
    /\ table' = [table EXCEPT ![r] = PendingRow]
    /\ UNCHANGED <<queueVars, workerVars, faults, lost>>

SubmitPutPendingFails_Swallowed(r) ==
    /\ submit[r] = "new"
    /\ Fault
    /\ submit' = [submit EXCEPT ![r] = "saved"]
    /\ table' \in {table, [table EXCEPT ![r] = PendingRow]}
    /\ UNCHANGED <<queueVars, workerVars, lost>>

(* put_item raises, or the API dies: the client gets no id. The write may     *)
(* have reached the table all the same.                                       *)
SubmitPutPendingFails(r) ==
    /\ submit[r] = "new"
    /\ Fault
    /\ submit' = [submit EXCEPT ![r] = "rejected"]
    /\ table' \in {table, [table EXCEPT ![r] = PendingRow]}
    /\ UNCHANGED <<queueVars, workerVars, lost>>

(* send_message with body b puts every message of S in the queue.             *)
Send(S, b) ==
    /\ \A m \in S : box[m] = "unsent"
    /\ box' = [m \in Messages |-> IF m \in S THEN "visible" ELSE box[m]]
    /\ body' = [m \in Messages |-> IF m \in S THEN b ELSE body[m]]

SubmitPublish(r) ==
    /\ submit[r] = "saved"
    /\ \E m \in Messages : Send({m}, r)
    /\ submit' = [submit EXCEPT ![r] = "published"]
    /\ UNCHANGED <<table, workerVars, faults, lost>>

(* The SDK resends after a lost answer: the request is queued twice.          *)
SubmitPublishTwice(r) ==
    /\ submit[r] = "saved"
    /\ Fault
    /\ \E m1, m2 \in Messages : m1 # m2 /\ Send({m1, m2}, r)
    /\ submit' = [submit EXCEPT ![r] = "published"]
    /\ UNCHANGED <<table, workerVars, lost>>

(* send_message raises or the API dies: the PENDING item stays, and the       *)
(* message may or may not be in the queue.                                    *)
SubmitPublishFails(r) ==
    /\ submit[r] = "saved"
    /\ Fault
    /\ submit' = [submit EXCEPT ![r] = "rejected"]
    /\ \/ UNCHANGED queueVars
       \/ \E m \in Messages : Send({m}, r)
    /\ UNCHANGED <<table, workerVars, lost>>

(* submit returns and the client gets the request id.                         *)
SubmitReply(r) ==
    /\ submit[r] = "published"
    /\ submit' = [submit EXCEPT ![r] = "accepted"]
    /\ UNCHANGED <<table, queueVars, workerVars, faults, lost>>

(* The API dies before the answer: a job runs whose id nobody knows.          *)
SubmitReplyFails(r) ==
    /\ submit[r] = "published"
    /\ Fault
    /\ submit' = [submit EXCEPT ![r] = "rejected"]
    /\ UNCHANGED <<table, queueVars, workerVars, lost>>

(* MultimodalRoutingService.enqueue_route_request publishes without an id.    *)
EnqueueRouteRequest ==
    /\ \E m \in Messages : Send({m}, NoId)
    /\ UNCHANGED <<jobVars, workerVars, faults, lost>>

-----------------------------------------------------------------------------
(* The queue between its clients: SQS delivers at least once.                 *)

VisibilityTimeout(m) ==
    /\ box[m] = "inflight"
    /\ box' = [box EXCEPT ![m] = "visible"]
    /\ UNCHANGED <<jobVars, body, workerVars, faults, lost>>

(* A replica that missed the deletion hands the message out again.            *)
Redeliver(m) ==
    /\ box[m] = "deleted"
    /\ Fault
    /\ box' = [box EXCEPT ![m] = "visible"]
    /\ UNCHANGED <<jobVars, body, workerVars, lost>>

(* The retention period ends before a worker took the message.                *)
Expire(m) ==
    /\ box[m] = "visible"
    /\ Fault
    /\ box' = [box EXCEPT ![m] = "deleted"]
    /\ lost' = lost \cup Carried({m})
    /\ UNCHANGED <<jobVars, body, workerVars>>

-----------------------------------------------------------------------------
(* A worker: consume_request, deleting each message as it is decoded, then    *)
(* the messages of the batch one after the other. SQS returns a batch in any  *)
(* order, so a batch is a set.                                                *)

Receive(w) ==
    /\ pc[w] = "poll"
    /\ \E batch \in SUBSET {m \in Messages : box[m] = "visible"} :
          /\ batch # {}
          /\ Cardinality(batch) <= BatchSize
          /\ received' = [received EXCEPT ![w] = batch]
          /\ box' = [m \in Messages |-> IF m \in batch THEN "inflight" ELSE box[m]]
    /\ pc' = [pc EXCEPT ![w] = "deleting"]
    /\ UNCHANGED <<jobVars, body, bodies, current, faults, lost>>

(* No message, or no queue yet: sleep and poll again, or end when WORKER_LOOP *)
(* is off.                                                                    *)
ReceiveNothing(w) ==
    /\ pc[w] = "poll"
    /\ pc' = [pc EXCEPT ![w] = IF Loop THEN "poll" ELSE "dead"]
    /\ UNCHANGED <<jobVars, queueVars, received, bodies, current, faults, lost>>

(* The process ends and its memory with it.                                   *)
Die(w) ==
    /\ pc' = [pc EXCEPT ![w] = "dead"]
    /\ received' = [received EXCEPT ![w] = {}]
    /\ bodies' = [bodies EXCEPT ![w] = {}]
    /\ current' = [current EXCEPT ![w] = NoMessage]

(* receive_message raises: main has no handler there. SQS may have handed out *)
(* a batch that never arrived.                                                *)
ReceiveFails(w) ==
    /\ pc[w] = "poll"
    /\ Fault
    /\ \E batch \in SUBSET {m \in Messages : box[m] = "visible"} :
          /\ Cardinality(batch) <= BatchSize
          /\ box' = [m \in Messages |-> IF m \in batch THEN "inflight" ELSE box[m]]
    /\ Die(w)
    /\ UNCHANGED <<jobVars, body, lost>>

DeleteMessage(w) ==
    /\ pc[w] = "deleting"
    /\ \E m \in received[w] :
          /\ received' = [received EXCEPT ![w] = @ \ {m}]
          /\ bodies' = [bodies EXCEPT ![w] = @ \cup {m}]
          /\ box' = [box EXCEPT ![m] = "deleted"]
          /\ pc' = [pc EXCEPT ![w] = IF received[w] = {m} THEN "next" ELSE "deleting"]
    /\ UNCHANGED <<jobVars, body, current, faults, lost>>

(* delete_message raises out of consume_request: the worker dies with the     *)
(* bodies it has already deleted from the queue.                              *)
DeleteMessageFails(w) ==
    /\ pc[w] = "deleting"
    /\ Fault
    /\ \E m \in received[w] :
          \/ /\ UNCHANGED box
             /\ lost' = lost \cup Carried(bodies[w])
          \/ /\ box' = [box EXCEPT ![m] = "deleted"]
             /\ lost' = lost \cup Carried(bodies[w] \cup {m})
    /\ Die(w)
    /\ UNCHANGED <<jobVars, body>>

TakeMessage_Breaks(w) ==
    /\ pc[w] = "next"
    /\ \E m \in bodies[w] :
          IF body[m] = NoId
          THEN /\ bodies' = [bodies EXCEPT ![w] = {}]
               /\ pc' = [pc EXCEPT ![w] = "poll"]
               /\ UNCHANGED current
          ELSE /\ bodies' = [bodies EXCEPT ![w] = @ \ {m}]
               /\ pc' = [pc EXCEPT ![w] = "routing"]
               /\ current' = [current EXCEPT ![w] = m]
    /\ UNCHANGED <<jobVars, queueVars, received, faults, lost>>

(* The next message of the batch; one without a request_id is skipped.        *)
TakeMessage(w) ==
    /\ pc[w] = "next"
    /\ \E m \in bodies[w] :
          /\ bodies' = [bodies EXCEPT ![w] = @ \ {m}]
          /\ IF body[m] = NoId
             THEN UNCHANGED <<pc, current>>
             ELSE /\ pc' = [pc EXCEPT ![w] = "routing"]
                  /\ current' = [current EXCEPT ![w] = m]
    /\ UNCHANGED <<jobVars, queueVars, received, faults, lost>>

BatchDone(w) ==
    /\ pc[w] = "next"
    /\ bodies[w] = {}
    /\ pc' = [pc EXCEPT ![w] = "poll"]
    /\ UNCHANGED <<jobVars, queueVars, received, bodies, current, faults, lost>>

(* The worker leaves the message in hand and goes to the next one.            *)
LeaveMessage(w) ==
    /\ pc' = [pc EXCEPT ![w] = "next"]
    /\ current' = [current EXCEPT ![w] = NoMessage]

RouteRaises_Unrecorded(w) ==
    /\ pc[w] = "routing"
    /\ LeaveMessage(w)
    /\ UNCHANGED <<jobVars, queueVars, received, bodies, faults, lost>>

(* Parsing the message or calculate_route raises.                             *)
RouteRaises(w) ==
    /\ pc[w] = "routing"
    /\ pc' = [pc EXCEPT ![w] = "recording"]
    /\ UNCHANGED <<jobVars, queueVars, received, bodies, current, faults, lost>>

PutSuccess(w) ==
    /\ pc[w] = "routing"
    /\ table' = [table EXCEPT ![body[current[w]]] = SuccessRow(@)]
    /\ LeaveMessage(w)
    /\ UNCHANGED <<submit, queueVars, received, bodies, faults, lost>>

(* put_success raises, its write done or not: the handler records an error.   *)
PutSuccessFails(w) ==
    /\ pc[w] = "routing"
    /\ Fault
    /\ table' \in {table, [table EXCEPT ![body[current[w]]] = SuccessRow(@)]}
    /\ pc' = [pc EXCEPT ![w] = "recording"]
    /\ UNCHANGED <<submit, queueVars, received, bodies, current, lost>>

PutError(w) ==
    /\ pc[w] = "recording"
    /\ table' = [table EXCEPT ![body[current[w]]] = ErrorRow(@)]
    /\ LeaveMessage(w)
    /\ UNCHANGED <<submit, queueVars, received, bodies, faults, lost>>

(* put_error raises and the inner handler swallows it.                        *)
PutErrorFails(w) ==
    /\ pc[w] = "recording"
    /\ Fault
    /\ \/ /\ UNCHANGED table
          /\ lost' = lost \cup Carried({current[w]})
       \/ /\ table' = [table EXCEPT ![body[current[w]]] = ErrorRow(@)]
          /\ UNCHANGED lost
    /\ LeaveMessage(w)
    /\ UNCHANGED <<submit, queueVars, received, bodies>>

(* The process is killed, wherever it is.                                     *)
Crash(w) ==
    /\ pc[w] # "dead"
    /\ Fault
    /\ lost' = lost \cup Carried(InHand(w))
    /\ Die(w)
    /\ UNCHANGED <<jobVars, queueVars>>

(* Somebody starts the worker again; no restart policy does.                  *)
Restart(w) ==
    /\ pc[w] = "dead"
    /\ pc' = [pc EXCEPT ![w] = "poll"]
    /\ UNCHANGED <<jobVars, queueVars, received, bodies, current, faults, lost>>

-----------------------------------------------------------------------------

ApiStep(r) ==
    \/ SubmitPutPending(r)
    \/ SubmitPutPendingFails(r)
    \/ SubmitPublish(r)
    \/ SubmitPublishTwice(r)
    \/ SubmitPublishFails(r)
    \/ SubmitReply(r)
    \/ SubmitReplyFails(r)

QueueStep(m) ==
    \/ VisibilityTimeout(m)
    \/ Redeliver(m)
    \/ Expire(m)

(* What a running worker does when nothing fails.                             *)
WorkerStep(w) ==
    \/ Receive(w)
    \/ DeleteMessage(w)
    \/ TakeMessage(w)
    \/ BatchDone(w)
    \/ RouteRaises(w)
    \/ PutSuccess(w)
    \/ PutError(w)

WorkerFault(w) ==
    \/ ReceiveFails(w)
    \/ DeleteMessageFails(w)
    \/ PutSuccessFails(w)
    \/ PutErrorFails(w)
    \/ Crash(w)

Next ==
    \/ \E r \in Requests : ApiStep(r)
    \/ EnqueueRouteRequest
    \/ \E m \in Messages : QueueStep(m)
    \/ \E w \in Workers : WorkerStep(w) \/ ReceiveNothing(w) \/ WorkerFault(w) \/ Restart(w)

Spec == Init /\ [][Next]_vars

(* A running worker keeps taking steps, and SQS makes a message that was      *)
(* received and not deleted visible again. Nothing obliges a client to        *)
(* submit, a failure to happen, or a dead worker to be restarted.             *)
Fairness ==
    /\ \A w \in Workers : WF_vars(WorkerStep(w))
    /\ \A m \in Messages : WF_vars(VisibilityTimeout(m))

FairSpec == Spec /\ Fairness

-----------------------------------------------------------------------------
TypeOK ==
    /\ submit \in [Requests -> SubmitStates]
    /\ table \in [Requests -> Rows]
    /\ box \in [Messages -> BoxStates]
    /\ body \in [Messages -> Requests \cup {NoId}]
    /\ pc \in [Workers -> WorkerStates]
    /\ received \in [Workers -> SUBSET Messages]
    /\ bodies \in [Workers -> SUBSET Messages]
    /\ current \in [Workers -> Messages \cup {NoMessage}]
    /\ faults \in 0 .. MaxFaults
    /\ lost \in SUBSET Requests

(* A job that the queue or a worker knows has its item in the table, with the *)
(* payload put_pending wrote, and so has every id a client was given: the     *)
(* worker's update_item never creates a partial item, and a client's GET is   *)
(* never answered 404, however deliveries and failures interleave.            *)
RowsComplete ==
    /\ \A m \in Messages : body[m] # NoId => table[body[m]].payload
    /\ \A r \in Requests : submit[r] = "accepted" => JobStatus(r) # "404" /\ table[r].payload

(* What GET shows is coherent: a SUCCESS has a result and no error left over  *)
(* from an earlier delivery of the same message, an ERROR has its text, and a *)
(* PENDING job has neither.                                                   *)
StatusMatchesAttributes ==
    \A r \in Requests :
        /\ table[r].status = "SUCCESS" => table[r].result /\ ~table[r].error
        /\ table[r].status = "ERROR" => table[r].error
        /\ table[r].status = "PENDING" => ~table[r].result /\ ~table[r].error

(* The job of r can still be finished: a message for it is in the queue or in *)
(* the memory of a worker.                                                    *)
Reachable(r) ==
    \E m \in Messages :
        /\ body[m] = r
        /\ box[m] \in {"visible", "inflight"} \/ \E w \in Workers : m \in InHand(w)

(* Although the adapter deletes messages before the worker processes them, an *)
(* accepted job that is PENDING is lost only by one of the failures that      *)
(* "lost" records: a crash, a failed delete, an unrecorded error, retention.  *)
NoSilentLoss ==
    \A r \in Requests :
        (submit[r] = "accepted" /\ table[r].status = "PENDING" /\ r \notin lost) => Reachable(r)

(* A job that has an outcome never goes back to PENDING or away, whatever is  *)
(* redelivered and whatever submit still does.                                *)
NoRegression ==
    [][\A r \in Requests : table[r].status \in Terminal => table'[r].status \in Terminal]_vars

(* An accepted job gets an outcome unless a failure destroyed its message or  *)
(* every worker is down.                                                      *)
Served ==
    \A r \in Requests :
        submit[r] = "accepted" ~>
            \/ table[r].status \in Terminal
            \/ r \in lost
            \/ \A w \in Workers : pc[w] = "dead"

(* docs/architecture.md:72 has the worker consume the message and update the  *)
(* item to SUCCESS or ERROR, for every job.                                   *)
EveryJobFinishes ==
    \A r \in Requests : submit[r] = "accepted" ~> table[r].status \in Terminal

(* A worker that died is started again.                                       *)
RestartedSpec == FairSpec /\ \A w \in Workers : WF_vars(Restart(w))

-----------------------------------------------------------------------------
(* The promise to the clients of the API, without queue and workers.          *)
Board == INSTANCE JobBoard WITH
    Jobs <- Requests,
    status <- [r \in Requests |-> table[r].status],
    reply <- [r \in Requests |-> IF submit[r] \in {"accepted", "rejected"} THEN submit[r] ELSE "none"]

(* The pipeline implements the board.                                         *)
ImplementsBoard == Board!Spec
=============================================================================
