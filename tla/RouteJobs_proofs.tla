--------------------------- MODULE RouteJobs_proofs ---------------------------
(* Proofs about RouteJobs for any requests, messages, workers, batch size and *)
(* number of failures.                                                        *)
EXTENDS RouteJobs, TLAPS

(* What workers hold was sent, and a worker computes for a message with an id. *)
HandsOK ==
    \A w \in Workers :
        /\ \A m \in received[w] \cup bodies[w] : box[m] # "unsent"
        /\ pc[w] \in {"poll", "dead"} => bodies[w] = {}
        /\ pc[w] \in {"routing", "recording"} <=> current[w] # NoMessage
        /\ current[w] # NoMessage => /\ box[current[w]] # "unsent"
                                     /\ body[current[w]] # NoId

(* A message with an id was published by submit after put_pending.            *)
SentOK ==
    \A m \in Messages :
        body[m] # NoId => /\ box[m] # "unsent"
                          /\ table[body[m]].payload

(* An item appears with put_pending, complete, and is never partial.          *)
RowsOK ==
    \A r \in Requests :
        /\ table[r].payload <=> table[r].status # "ABSENT"
        /\ submit[r] = "new" => table[r].status = "ABSENT"
        /\ submit[r] \in {"saved", "published", "accepted"} => table[r].payload

(* NoSilentLoss, from the moment the message is in the queue.                 *)
Lossless ==
    \A r \in Requests :
        /\ submit[r] \in {"published", "accepted"}
        /\ table[r].status = "PENDING"
        /\ r \notin lost
        => Reachable(r)

IInv == TypeOK /\ HandsOK /\ SentOK /\ RowsOK /\ StatusMatchesAttributes /\ Lossless

-----------------------------------------------------------------------------
(* The items that put_pending, put_success and put_error write are items.     *)
LEMMA RowTypes ==
    /\ AbsentRow \in Rows /\ PendingRow \in Rows
    /\ \A row \in Rows : SuccessRow(row) \in Rows /\ ErrorRow(row) \in Rows
BY DEF AbsentRow, PendingRow, SuccessRow, ErrorRow, Rows, Statuses

LEMMA TypeStep == IInv /\ [Next]_vars => TypeOK'
<1>. SUFFICES ASSUME IInv, [Next]_vars PROVE TypeOK'
  OBVIOUS
<1>. USE RouteJobsAssumption, RowTypes DEF IInv, TypeOK, HandsOK, SubmitStates, BoxStates, WorkerStates, Fault, jobVars, queueVars, workerVars
<1>1. ASSUME NEW r \in Requests, SubmitPutPending(r) PROVE TypeOK'
  BY <1>1 DEF SubmitPutPending
<1>2. ASSUME NEW r \in Requests, SubmitPutPendingFails(r) PROVE TypeOK'
  BY <1>2 DEF SubmitPutPendingFails
<1>3. ASSUME NEW r \in Requests, SubmitPublish(r) PROVE TypeOK'
  BY <1>3 DEF SubmitPublish, Send
<1>4. ASSUME NEW r \in Requests, SubmitPublishTwice(r) PROVE TypeOK'
  BY <1>4 DEF SubmitPublishTwice, Send
<1>5. ASSUME NEW r \in Requests, SubmitPublishFails(r) PROVE TypeOK'
  BY <1>5 DEF SubmitPublishFails, Send
<1>6. ASSUME NEW r \in Requests, SubmitReply(r) PROVE TypeOK'
  BY <1>6 DEF SubmitReply
<1>7. ASSUME NEW r \in Requests, SubmitReplyFails(r) PROVE TypeOK'
  BY <1>7 DEF SubmitReplyFails
<1>8. ASSUME NEW m \in Messages, VisibilityTimeout(m) PROVE TypeOK'
  BY <1>8 DEF VisibilityTimeout
<1>9. ASSUME NEW m \in Messages, Redeliver(m) PROVE TypeOK'
  BY <1>9 DEF Redeliver
<1>10. ASSUME NEW m \in Messages, Expire(m) PROVE TypeOK'
  BY <1>10 DEF Expire, Carried
<1>11. ASSUME NEW w \in Workers, Receive(w) PROVE TypeOK'
  BY <1>11 DEF Receive
<1>12. ASSUME NEW w \in Workers, DeleteMessage(w) PROVE TypeOK'
  BY <1>12 DEF DeleteMessage
<1>13. ASSUME NEW w \in Workers, TakeMessage(w) PROVE TypeOK'
  BY <1>13 DEF TakeMessage
<1>14. ASSUME NEW w \in Workers, BatchDone(w) PROVE TypeOK'
  BY <1>14 DEF BatchDone
<1>15. ASSUME NEW w \in Workers, RouteRaises(w) PROVE TypeOK'
  BY <1>15 DEF RouteRaises
<1>16. ASSUME NEW w \in Workers, PutSuccess(w) PROVE TypeOK'
  BY <1>16 DEF PutSuccess, LeaveMessage
<1>17. ASSUME NEW w \in Workers, PutError(w) PROVE TypeOK'
  BY <1>17 DEF PutError, LeaveMessage
<1>18. ASSUME NEW w \in Workers, ReceiveNothing(w) PROVE TypeOK'
  BY <1>18 DEF ReceiveNothing
<1>19. ASSUME NEW w \in Workers, ReceiveFails(w) PROVE TypeOK'
  BY <1>19 DEF ReceiveFails, Die
<1>20. ASSUME NEW w \in Workers, DeleteMessageFails(w) PROVE TypeOK'
  BY <1>20 DEF DeleteMessageFails, Die, Carried
<1>21. ASSUME NEW w \in Workers, PutSuccessFails(w) PROVE TypeOK'
  BY <1>21 DEF PutSuccessFails
<1>22. ASSUME NEW w \in Workers, PutErrorFails(w) PROVE TypeOK'
  <2>1. CASE UNCHANGED table /\ lost' = lost \cup Carried({current[w]})
    BY <1>22, <2>1 DEF PutErrorFails, LeaveMessage, Carried
  <2>2. CASE table' = [table EXCEPT ![body[current[w]]] = ErrorRow(@)] /\ UNCHANGED lost
    BY <1>22, <2>2 DEF PutErrorFails, LeaveMessage, Carried
  <2>. QED
    BY <1>22, <2>1, <2>2 DEF PutErrorFails
<1>23. ASSUME NEW w \in Workers, Crash(w) PROVE TypeOK'
  BY <1>23 DEF Crash, Die, Carried, InHand
<1>24. ASSUME NEW w \in Workers, Restart(w) PROVE TypeOK'
  BY <1>24 DEF Restart
<1>25. CASE EnqueueRouteRequest
  BY <1>25 DEF EnqueueRouteRequest, Send
<1>26. CASE UNCHANGED vars
  BY <1>26 DEF vars
<1>. QED
  BY <1>1, <1>2, <1>3, <1>4, <1>5, <1>6, <1>7, <1>8, <1>9, <1>10, <1>11, <1>12, <1>13, <1>14, <1>15, <1>16, <1>17, <1>18, <1>19, <1>20, <1>21, <1>22, <1>23, <1>24, <1>25, <1>26
     DEF Next, ApiStep, QueueStep, WorkerStep, WorkerFault

LEMMA HandsStep == IInv /\ [Next]_vars => HandsOK'
<1>. SUFFICES ASSUME IInv, [Next]_vars PROVE HandsOK'
  OBVIOUS
<1>. USE RouteJobsAssumption DEF IInv, TypeOK, SentOK, HandsOK, jobVars, queueVars, workerVars
<1>1. ASSUME NEW r \in Requests, SubmitPutPending(r) PROVE HandsOK'
  BY <1>1 DEF SubmitPutPending
<1>2. ASSUME NEW r \in Requests, SubmitPutPendingFails(r) PROVE HandsOK'
  BY <1>2 DEF SubmitPutPendingFails
<1>3. ASSUME NEW r \in Requests, SubmitPublish(r) PROVE HandsOK'
  BY <1>3 DEF SubmitPublish, Send
<1>4. ASSUME NEW r \in Requests, SubmitPublishTwice(r) PROVE HandsOK'
  BY <1>4 DEF SubmitPublishTwice, Send
<1>5. ASSUME NEW r \in Requests, SubmitPublishFails(r) PROVE HandsOK'
  BY <1>5 DEF SubmitPublishFails, Send
<1>6. ASSUME NEW r \in Requests, SubmitReply(r) PROVE HandsOK'
  BY <1>6 DEF SubmitReply
<1>7. ASSUME NEW r \in Requests, SubmitReplyFails(r) PROVE HandsOK'
  BY <1>7 DEF SubmitReplyFails
<1>8. ASSUME NEW m \in Messages, VisibilityTimeout(m) PROVE HandsOK'
  BY <1>8 DEF VisibilityTimeout
<1>9. ASSUME NEW m \in Messages, Redeliver(m) PROVE HandsOK'
  BY <1>9 DEF Redeliver
<1>10. ASSUME NEW m \in Messages, Expire(m) PROVE HandsOK'
  BY <1>10 DEF Expire, Carried
<1>11. ASSUME NEW w \in Workers, Receive(w) PROVE HandsOK'
  BY <1>11 DEF Receive
<1>12. ASSUME NEW w \in Workers, DeleteMessage(w) PROVE HandsOK'
  BY <1>12 DEF DeleteMessage
<1>13. ASSUME NEW w \in Workers, TakeMessage(w) PROVE HandsOK'
  BY <1>13 DEF TakeMessage
<1>14. ASSUME NEW w \in Workers, BatchDone(w) PROVE HandsOK'
  BY <1>14 DEF BatchDone
<1>15. ASSUME NEW w \in Workers, RouteRaises(w) PROVE HandsOK'
  BY <1>15 DEF RouteRaises
<1>16. ASSUME NEW w \in Workers, PutSuccess(w) PROVE HandsOK'
  BY <1>16 DEF PutSuccess, LeaveMessage
<1>17. ASSUME NEW w \in Workers, PutError(w) PROVE HandsOK'
  BY <1>17 DEF PutError, LeaveMessage
<1>18. ASSUME NEW w \in Workers, ReceiveNothing(w) PROVE HandsOK'
  BY <1>18 DEF ReceiveNothing
<1>19. ASSUME NEW w \in Workers, ReceiveFails(w) PROVE HandsOK'
  BY <1>19 DEF ReceiveFails, Die
<1>20. ASSUME NEW w \in Workers, DeleteMessageFails(w) PROVE HandsOK'
  BY <1>20 DEF DeleteMessageFails, Die, Carried
<1>21. ASSUME NEW w \in Workers, PutSuccessFails(w) PROVE HandsOK'
  BY <1>21 DEF PutSuccessFails
<1>22. ASSUME NEW w \in Workers, PutErrorFails(w) PROVE HandsOK'
  BY <1>22 DEF PutErrorFails, LeaveMessage, Carried
<1>23. ASSUME NEW w \in Workers, Crash(w) PROVE HandsOK'
  BY <1>23 DEF Crash, Die, Carried, InHand
<1>24. ASSUME NEW w \in Workers, Restart(w) PROVE HandsOK'
  BY <1>24 DEF Restart
<1>25. CASE EnqueueRouteRequest
  BY <1>25 DEF EnqueueRouteRequest, Send
<1>26. CASE UNCHANGED vars
  BY <1>26 DEF vars
<1>. QED
  BY <1>1, <1>2, <1>3, <1>4, <1>5, <1>6, <1>7, <1>8, <1>9, <1>10, <1>11, <1>12, <1>13, <1>14, <1>15, <1>16, <1>17, <1>18, <1>19, <1>20, <1>21, <1>22, <1>23, <1>24, <1>25, <1>26
     DEF Next, ApiStep, QueueStep, WorkerStep, WorkerFault

LEMMA SentStep == IInv /\ [Next]_vars => SentOK'
<1>. SUFFICES ASSUME IInv, [Next]_vars PROVE SentOK'
  OBVIOUS
<1>. USE RouteJobsAssumption DEF IInv, TypeOK, HandsOK, SentOK, RowsOK, Rows, jobVars, queueVars, workerVars
<1>1. ASSUME NEW r \in Requests, SubmitPutPending(r) PROVE SentOK'
  BY <1>1 DEF SubmitPutPending, PendingRow
<1>2. ASSUME NEW r \in Requests, SubmitPutPendingFails(r) PROVE SentOK'
  BY <1>2 DEF SubmitPutPendingFails, PendingRow
<1>3. ASSUME NEW r \in Requests, SubmitPublish(r) PROVE SentOK'
  BY <1>3 DEF SubmitPublish, Send
<1>4. ASSUME NEW r \in Requests, SubmitPublishTwice(r) PROVE SentOK'
  BY <1>4 DEF SubmitPublishTwice, Send
<1>5. ASSUME NEW r \in Requests, SubmitPublishFails(r) PROVE SentOK'
  BY <1>5 DEF SubmitPublishFails, Send
<1>6. ASSUME NEW r \in Requests, SubmitReply(r) PROVE SentOK'
  BY <1>6 DEF SubmitReply
<1>7. ASSUME NEW r \in Requests, SubmitReplyFails(r) PROVE SentOK'
  BY <1>7 DEF SubmitReplyFails
<1>8. ASSUME NEW m \in Messages, VisibilityTimeout(m) PROVE SentOK'
  BY <1>8 DEF VisibilityTimeout
<1>9. ASSUME NEW m \in Messages, Redeliver(m) PROVE SentOK'
  BY <1>9 DEF Redeliver
<1>10. ASSUME NEW m \in Messages, Expire(m) PROVE SentOK'
  BY <1>10 DEF Expire, Carried
<1>11. ASSUME NEW w \in Workers, Receive(w) PROVE SentOK'
  BY <1>11 DEF Receive
<1>12. ASSUME NEW w \in Workers, DeleteMessage(w) PROVE SentOK'
  BY <1>12 DEF DeleteMessage
<1>13. ASSUME NEW w \in Workers, TakeMessage(w) PROVE SentOK'
  BY <1>13 DEF TakeMessage
<1>14. ASSUME NEW w \in Workers, BatchDone(w) PROVE SentOK'
  BY <1>14 DEF BatchDone
<1>15. ASSUME NEW w \in Workers, RouteRaises(w) PROVE SentOK'
  BY <1>15 DEF RouteRaises
<1>16. ASSUME NEW w \in Workers, PutSuccess(w) PROVE SentOK'
  BY <1>16 DEF PutSuccess, LeaveMessage, SuccessRow
<1>17. ASSUME NEW w \in Workers, PutError(w) PROVE SentOK'
  BY <1>17 DEF PutError, LeaveMessage, ErrorRow
<1>18. ASSUME NEW w \in Workers, ReceiveNothing(w) PROVE SentOK'
  BY <1>18 DEF ReceiveNothing
<1>19. ASSUME NEW w \in Workers, ReceiveFails(w) PROVE SentOK'
  BY <1>19 DEF ReceiveFails, Die
<1>20. ASSUME NEW w \in Workers, DeleteMessageFails(w) PROVE SentOK'
  BY <1>20 DEF DeleteMessageFails, Die, Carried
<1>21. ASSUME NEW w \in Workers, PutSuccessFails(w) PROVE SentOK'
  <2>1. CASE UNCHANGED table
    BY <1>21, <2>1 DEF PutSuccessFails, SuccessRow
  <2>2. CASE table' = [table EXCEPT ![body[current[w]]] = SuccessRow(@)]
    BY <1>21, <2>2 DEF PutSuccessFails, SuccessRow
  <2>. QED
    BY <1>21, <2>1, <2>2 DEF PutSuccessFails
<1>22. ASSUME NEW w \in Workers, PutErrorFails(w) PROVE SentOK'
  <2>1. CASE UNCHANGED table /\ lost' = lost \cup Carried({current[w]})
    BY <1>22, <2>1 DEF PutErrorFails, LeaveMessage, Carried, ErrorRow
  <2>2. CASE table' = [table EXCEPT ![body[current[w]]] = ErrorRow(@)] /\ UNCHANGED lost
    BY <1>22, <2>2 DEF PutErrorFails, LeaveMessage, Carried, ErrorRow
  <2>. QED
    BY <1>22, <2>1, <2>2 DEF PutErrorFails
<1>23. ASSUME NEW w \in Workers, Crash(w) PROVE SentOK'
  BY <1>23 DEF Crash, Die, Carried, InHand
<1>24. ASSUME NEW w \in Workers, Restart(w) PROVE SentOK'
  BY <1>24 DEF Restart
<1>25. CASE EnqueueRouteRequest
  BY <1>25 DEF EnqueueRouteRequest, Send
<1>26. CASE UNCHANGED vars
  BY <1>26 DEF vars
<1>. QED
  BY <1>1, <1>2, <1>3, <1>4, <1>5, <1>6, <1>7, <1>8, <1>9, <1>10, <1>11, <1>12, <1>13, <1>14, <1>15, <1>16, <1>17, <1>18, <1>19, <1>20, <1>21, <1>22, <1>23, <1>24, <1>25, <1>26
     DEF Next, ApiStep, QueueStep, WorkerStep, WorkerFault

LEMMA RowsStep == IInv /\ [Next]_vars => RowsOK'
<1>. SUFFICES ASSUME IInv, [Next]_vars PROVE RowsOK'
  OBVIOUS
<1>. USE RouteJobsAssumption DEF IInv, TypeOK, HandsOK, SentOK, RowsOK, Rows, jobVars, queueVars, workerVars
<1>1. ASSUME NEW r \in Requests, SubmitPutPending(r) PROVE RowsOK'
  BY <1>1 DEF SubmitPutPending, PendingRow
<1>2. ASSUME NEW r \in Requests, SubmitPutPendingFails(r) PROVE RowsOK'
  BY <1>2 DEF SubmitPutPendingFails, PendingRow
<1>3. ASSUME NEW r \in Requests, SubmitPublish(r) PROVE RowsOK'
  BY <1>3 DEF SubmitPublish, Send
<1>4. ASSUME NEW r \in Requests, SubmitPublishTwice(r) PROVE RowsOK'
  BY <1>4 DEF SubmitPublishTwice, Send
<1>5. ASSUME NEW r \in Requests, SubmitPublishFails(r) PROVE RowsOK'
  BY <1>5 DEF SubmitPublishFails, Send
<1>6. ASSUME NEW r \in Requests, SubmitReply(r) PROVE RowsOK'
  BY <1>6 DEF SubmitReply
<1>7. ASSUME NEW r \in Requests, SubmitReplyFails(r) PROVE RowsOK'
  BY <1>7 DEF SubmitReplyFails
<1>8. ASSUME NEW m \in Messages, VisibilityTimeout(m) PROVE RowsOK'
  BY <1>8 DEF VisibilityTimeout
<1>9. ASSUME NEW m \in Messages, Redeliver(m) PROVE RowsOK'
  BY <1>9 DEF Redeliver
<1>10. ASSUME NEW m \in Messages, Expire(m) PROVE RowsOK'
  BY <1>10 DEF Expire, Carried
<1>11. ASSUME NEW w \in Workers, Receive(w) PROVE RowsOK'
  BY <1>11 DEF Receive
<1>12. ASSUME NEW w \in Workers, DeleteMessage(w) PROVE RowsOK'
  BY <1>12 DEF DeleteMessage
<1>13. ASSUME NEW w \in Workers, TakeMessage(w) PROVE RowsOK'
  BY <1>13 DEF TakeMessage
<1>14. ASSUME NEW w \in Workers, BatchDone(w) PROVE RowsOK'
  BY <1>14 DEF BatchDone
<1>15. ASSUME NEW w \in Workers, RouteRaises(w) PROVE RowsOK'
  BY <1>15 DEF RouteRaises
<1>16. ASSUME NEW w \in Workers, PutSuccess(w) PROVE RowsOK'
  BY <1>16 DEF PutSuccess, LeaveMessage, SuccessRow
<1>17. ASSUME NEW w \in Workers, PutError(w) PROVE RowsOK'
  BY <1>17 DEF PutError, LeaveMessage, ErrorRow
<1>18. ASSUME NEW w \in Workers, ReceiveNothing(w) PROVE RowsOK'
  BY <1>18 DEF ReceiveNothing
<1>19. ASSUME NEW w \in Workers, ReceiveFails(w) PROVE RowsOK'
  BY <1>19 DEF ReceiveFails, Die
<1>20. ASSUME NEW w \in Workers, DeleteMessageFails(w) PROVE RowsOK'
  BY <1>20 DEF DeleteMessageFails, Die, Carried
<1>21. ASSUME NEW w \in Workers, PutSuccessFails(w) PROVE RowsOK'
  <2>1. CASE UNCHANGED table
    BY <1>21, <2>1 DEF PutSuccessFails, SuccessRow
  <2>2. CASE table' = [table EXCEPT ![body[current[w]]] = SuccessRow(@)]
    BY <1>21, <2>2 DEF PutSuccessFails, SuccessRow
  <2>. QED
    BY <1>21, <2>1, <2>2 DEF PutSuccessFails
<1>22. ASSUME NEW w \in Workers, PutErrorFails(w) PROVE RowsOK'
  <2>1. CASE UNCHANGED table /\ lost' = lost \cup Carried({current[w]})
    BY <1>22, <2>1 DEF PutErrorFails, LeaveMessage, Carried, ErrorRow
  <2>2. CASE table' = [table EXCEPT ![body[current[w]]] = ErrorRow(@)] /\ UNCHANGED lost
    BY <1>22, <2>2 DEF PutErrorFails, LeaveMessage, Carried, ErrorRow
  <2>. QED
    BY <1>22, <2>1, <2>2 DEF PutErrorFails
<1>23. ASSUME NEW w \in Workers, Crash(w) PROVE RowsOK'
  BY <1>23 DEF Crash, Die, Carried, InHand
<1>24. ASSUME NEW w \in Workers, Restart(w) PROVE RowsOK'
  BY <1>24 DEF Restart
<1>25. CASE EnqueueRouteRequest
  BY <1>25 DEF EnqueueRouteRequest, Send
<1>26. CASE UNCHANGED vars
  BY <1>26 DEF vars
<1>. QED
  BY <1>1, <1>2, <1>3, <1>4, <1>5, <1>6, <1>7, <1>8, <1>9, <1>10, <1>11, <1>12, <1>13, <1>14, <1>15, <1>16, <1>17, <1>18, <1>19, <1>20, <1>21, <1>22, <1>23, <1>24, <1>25, <1>26
     DEF Next, ApiStep, QueueStep, WorkerStep, WorkerFault

LEMMA StatusStep == IInv /\ [Next]_vars => StatusMatchesAttributes'
<1>. SUFFICES ASSUME IInv, [Next]_vars PROVE StatusMatchesAttributes'
  OBVIOUS
<1>. USE RouteJobsAssumption DEF IInv, TypeOK, HandsOK, SentOK, RowsOK, StatusMatchesAttributes, Rows, jobVars, queueVars, workerVars
<1>1. ASSUME NEW r \in Requests, SubmitPutPending(r) PROVE StatusMatchesAttributes'
  BY <1>1 DEF SubmitPutPending, PendingRow
<1>2. ASSUME NEW r \in Requests, SubmitPutPendingFails(r) PROVE StatusMatchesAttributes'
  BY <1>2 DEF SubmitPutPendingFails, PendingRow
<1>3. ASSUME NEW r \in Requests, SubmitPublish(r) PROVE StatusMatchesAttributes'
  BY <1>3 DEF SubmitPublish, Send
<1>4. ASSUME NEW r \in Requests, SubmitPublishTwice(r) PROVE StatusMatchesAttributes'
  BY <1>4 DEF SubmitPublishTwice, Send
<1>5. ASSUME NEW r \in Requests, SubmitPublishFails(r) PROVE StatusMatchesAttributes'
  BY <1>5 DEF SubmitPublishFails, Send
<1>6. ASSUME NEW r \in Requests, SubmitReply(r) PROVE StatusMatchesAttributes'
  BY <1>6 DEF SubmitReply
<1>7. ASSUME NEW r \in Requests, SubmitReplyFails(r) PROVE StatusMatchesAttributes'
  BY <1>7 DEF SubmitReplyFails
<1>8. ASSUME NEW m \in Messages, VisibilityTimeout(m) PROVE StatusMatchesAttributes'
  BY <1>8 DEF VisibilityTimeout
<1>9. ASSUME NEW m \in Messages, Redeliver(m) PROVE StatusMatchesAttributes'
  BY <1>9 DEF Redeliver
<1>10. ASSUME NEW m \in Messages, Expire(m) PROVE StatusMatchesAttributes'
  BY <1>10 DEF Expire, Carried
<1>11. ASSUME NEW w \in Workers, Receive(w) PROVE StatusMatchesAttributes'
  BY <1>11 DEF Receive
<1>12. ASSUME NEW w \in Workers, DeleteMessage(w) PROVE StatusMatchesAttributes'
  BY <1>12 DEF DeleteMessage
<1>13. ASSUME NEW w \in Workers, TakeMessage(w) PROVE StatusMatchesAttributes'
  BY <1>13 DEF TakeMessage
<1>14. ASSUME NEW w \in Workers, BatchDone(w) PROVE StatusMatchesAttributes'
  BY <1>14 DEF BatchDone
<1>15. ASSUME NEW w \in Workers, RouteRaises(w) PROVE StatusMatchesAttributes'
  BY <1>15 DEF RouteRaises
<1>16. ASSUME NEW w \in Workers, PutSuccess(w) PROVE StatusMatchesAttributes'
  BY <1>16 DEF PutSuccess, LeaveMessage, SuccessRow
<1>17. ASSUME NEW w \in Workers, PutError(w) PROVE StatusMatchesAttributes'
  BY <1>17 DEF PutError, LeaveMessage, ErrorRow
<1>18. ASSUME NEW w \in Workers, ReceiveNothing(w) PROVE StatusMatchesAttributes'
  BY <1>18 DEF ReceiveNothing
<1>19. ASSUME NEW w \in Workers, ReceiveFails(w) PROVE StatusMatchesAttributes'
  BY <1>19 DEF ReceiveFails, Die
<1>20. ASSUME NEW w \in Workers, DeleteMessageFails(w) PROVE StatusMatchesAttributes'
  BY <1>20 DEF DeleteMessageFails, Die, Carried
<1>21. ASSUME NEW w \in Workers, PutSuccessFails(w) PROVE StatusMatchesAttributes'
  <2>1. CASE UNCHANGED table
    BY <1>21, <2>1 DEF PutSuccessFails, SuccessRow
  <2>2. CASE table' = [table EXCEPT ![body[current[w]]] = SuccessRow(@)]
    BY <1>21, <2>2 DEF PutSuccessFails, SuccessRow
  <2>. QED
    BY <1>21, <2>1, <2>2 DEF PutSuccessFails
<1>22. ASSUME NEW w \in Workers, PutErrorFails(w) PROVE StatusMatchesAttributes'
  <2>1. CASE UNCHANGED table /\ lost' = lost \cup Carried({current[w]})
    BY <1>22, <2>1 DEF PutErrorFails, LeaveMessage, Carried, ErrorRow
  <2>2. CASE table' = [table EXCEPT ![body[current[w]]] = ErrorRow(@)] /\ UNCHANGED lost
    BY <1>22, <2>2 DEF PutErrorFails, LeaveMessage, Carried, ErrorRow
  <2>. QED
    BY <1>22, <2>1, <2>2 DEF PutErrorFails
<1>23. ASSUME NEW w \in Workers, Crash(w) PROVE StatusMatchesAttributes'
  BY <1>23 DEF Crash, Die, Carried, InHand
<1>24. ASSUME NEW w \in Workers, Restart(w) PROVE StatusMatchesAttributes'
  BY <1>24 DEF Restart
<1>25. CASE EnqueueRouteRequest
  BY <1>25 DEF EnqueueRouteRequest, Send
<1>26. CASE UNCHANGED vars
  BY <1>26 DEF vars
<1>. QED
  BY <1>1, <1>2, <1>3, <1>4, <1>5, <1>6, <1>7, <1>8, <1>9, <1>10, <1>11, <1>12, <1>13, <1>14, <1>15, <1>16, <1>17, <1>18, <1>19, <1>20, <1>21, <1>22, <1>23, <1>24, <1>25, <1>26
     DEF Next, ApiStep, QueueStep, WorkerStep, WorkerFault

LEMMA LosslessStep == IInv /\ [Next]_vars => Lossless'
<1>. SUFFICES ASSUME IInv, [Next]_vars PROVE Lossless'
  OBVIOUS
<1>. USE RouteJobsAssumption DEF IInv, TypeOK, HandsOK, SentOK, RowsOK, Lossless, Reachable, InHand, Carried, jobVars, queueVars, workerVars
<1>1. ASSUME NEW r \in Requests, SubmitPutPending(r) PROVE Lossless'
  BY <1>1 DEF SubmitPutPending, PendingRow
<1>2. ASSUME NEW r \in Requests, SubmitPutPendingFails(r) PROVE Lossless'
  BY <1>2 DEF SubmitPutPendingFails, PendingRow
<1>3. ASSUME NEW r \in Requests, SubmitPublish(r) PROVE Lossless'
  BY <1>3 DEF SubmitPublish, Send
<1>4. ASSUME NEW r \in Requests, SubmitPublishTwice(r) PROVE Lossless'
  BY <1>4 DEF SubmitPublishTwice, Send
<1>5. ASSUME NEW r \in Requests, SubmitPublishFails(r) PROVE Lossless'
  BY <1>5 DEF SubmitPublishFails, Send
<1>6. ASSUME NEW r \in Requests, SubmitReply(r) PROVE Lossless'
  BY <1>6 DEF SubmitReply
<1>7. ASSUME NEW r \in Requests, SubmitReplyFails(r) PROVE Lossless'
  BY <1>7 DEF SubmitReplyFails
<1>8. ASSUME NEW m \in Messages, VisibilityTimeout(m) PROVE Lossless'
  BY <1>8 DEF VisibilityTimeout
<1>9. ASSUME NEW m \in Messages, Redeliver(m) PROVE Lossless'
  BY <1>9 DEF Redeliver
<1>10. ASSUME NEW m \in Messages, Expire(m) PROVE Lossless'
  BY <1>10 DEF Expire, Carried
<1>11. ASSUME NEW w \in Workers, Receive(w) PROVE Lossless'
  BY <1>11 DEF Receive
<1>12. ASSUME NEW w \in Workers, DeleteMessage(w) PROVE Lossless'
  BY <1>12 DEF DeleteMessage
<1>13. ASSUME NEW w \in Workers, TakeMessage(w) PROVE Lossless'
  BY <1>13 DEF TakeMessage
<1>14. ASSUME NEW w \in Workers, BatchDone(w) PROVE Lossless'
  BY <1>14 DEF BatchDone
<1>15. ASSUME NEW w \in Workers, RouteRaises(w) PROVE Lossless'
  BY <1>15 DEF RouteRaises
<1>16. ASSUME NEW w \in Workers, PutSuccess(w) PROVE Lossless'
  BY <1>16 DEF PutSuccess, LeaveMessage, SuccessRow
<1>17. ASSUME NEW w \in Workers, PutError(w) PROVE Lossless'
  BY <1>17 DEF PutError, LeaveMessage, ErrorRow
<1>18. ASSUME NEW w \in Workers, ReceiveNothing(w) PROVE Lossless'
  BY <1>18 DEF ReceiveNothing
<1>19. ASSUME NEW w \in Workers, ReceiveFails(w) PROVE Lossless'
  <2>1. InHand(w) = {}
    BY <1>19 DEF ReceiveFails
  <2>2. ASSUME NEW m \in Messages, box[m] \in {"visible", "inflight"}
        PROVE box'[m] \in {"visible", "inflight"}
    BY <1>19, <2>2 DEF ReceiveFails
  <2>3. ASSUME NEW m \in Messages, NEW v \in Workers, m \in InHand(v)
        PROVE m \in InHand(v)'
    BY <1>19, <2>1, <2>3 DEF ReceiveFails, Die
  <2>. QED
    BY <1>19, <2>2, <2>3 DEF ReceiveFails
<1>20. ASSUME NEW w \in Workers, DeleteMessageFails(w) PROVE Lossless'
  BY <1>20 DEF DeleteMessageFails, Die, Carried
<1>21. ASSUME NEW w \in Workers, PutSuccessFails(w) PROVE Lossless'
  BY <1>21 DEF PutSuccessFails, SuccessRow
<1>22. ASSUME NEW w \in Workers, PutErrorFails(w) PROVE Lossless'
  <2>1. CASE UNCHANGED table /\ lost' = lost \cup Carried({current[w]})
    BY <1>22, <2>1 DEF PutErrorFails, LeaveMessage, Carried, ErrorRow
  <2>2. CASE table' = [table EXCEPT ![body[current[w]]] = ErrorRow(@)] /\ UNCHANGED lost
    BY <1>22, <2>2 DEF PutErrorFails, LeaveMessage, Carried, ErrorRow
  <2>. QED
    BY <1>22, <2>1, <2>2 DEF PutErrorFails
<1>23. ASSUME NEW w \in Workers, Crash(w) PROVE Lossless'
  BY <1>23 DEF Crash, Die, Carried, InHand
<1>24. ASSUME NEW w \in Workers, Restart(w) PROVE Lossless'
  BY <1>24 DEF Restart
<1>25. CASE EnqueueRouteRequest
  BY <1>25 DEF EnqueueRouteRequest, Send
<1>26. CASE UNCHANGED vars
  BY <1>26 DEF vars
<1>. QED
  BY <1>1, <1>2, <1>3, <1>4, <1>5, <1>6, <1>7, <1>8, <1>9, <1>10, <1>11, <1>12, <1>13, <1>14, <1>15, <1>16, <1>17, <1>18, <1>19, <1>20, <1>21, <1>22, <1>23, <1>24, <1>25, <1>26
     DEF Next, ApiStep, QueueStep, WorkerStep, WorkerFault

LEMMA InitInv == Init => IInv
BY RouteJobsAssumption, RowTypes
   DEF Init, IInv, TypeOK, HandsOK, SentOK, RowsOK, StatusMatchesAttributes, Lossless,
       AbsentRow, SubmitStates, BoxStates, WorkerStates

LEMMA StepInv == IInv /\ [Next]_vars => IInv'
BY TypeStep, HandsStep, SentStep, RowsStep, StatusStep, LosslessStep DEF IInv

(* The inductive invariant holds in every reachable state.                    *)
THEOREM Invariance == Spec => []IInv
BY InitInv, StepInv, PTL DEF Spec

-----------------------------------------------------------------------------
(* Every variable keeps its type, whatever requests, workers and failures.    *)
THEOREM TypeCorrect == Spec => []TypeOK
<1>1. IInv => TypeOK
  BY DEF IInv
<1>. QED
  BY <1>1, Invariance, PTL

(* The worker's update_item always finds the item that put_pending wrote, and *)
(* an accepted id is never answered 404.                                      *)
THEOREM RowsCompleteHolds == Spec => []RowsComplete
<1>1. IInv => RowsComplete
  BY DEF IInv, TypeOK, SentOK, RowsOK, RowsComplete, JobStatus, Rows, Statuses
<1>. QED
  BY <1>1, Invariance, PTL

(* Status, result and error of an item agree under every redelivery.          *)
THEOREM StatusMatchesHolds == Spec => []StatusMatchesAttributes
<1>1. IInv => StatusMatchesAttributes
  BY DEF IInv
<1>. QED
  BY <1>1, Invariance, PTL

(* An accepted PENDING job that no recorded failure destroyed is in the queue *)
(* or in the hands of a worker.                                               *)
THEOREM NoSilentLossHolds == Spec => []NoSilentLoss
<1>1. IInv => NoSilentLoss
  BY DEF IInv, Lossless, NoSilentLoss
<1>. QED
  BY <1>1, Invariance, PTL

-----------------------------------------------------------------------------
(* How one step changes an item: put_pending on an absent one, put_success or *)
(* put_error on one that is not absent.                                       *)
RowSteps ==
    \A r \in Requests :
        \/ table'[r] = table[r]
        \/ submit[r] = "new" /\ table[r].status = "ABSENT" /\ table'[r].status = "PENDING"
        \/ table[r].status # "ABSENT" /\ table'[r].status \in Terminal

LEMMA RowStep == IInv /\ [Next]_vars => RowSteps
<1>. SUFFICES ASSUME IInv, [Next]_vars PROVE RowSteps
  OBVIOUS
<1>. USE RouteJobsAssumption DEF RowSteps, IInv, TypeOK, HandsOK, SentOK, RowsOK, Rows, Terminal
<1>1. CASE UNCHANGED table
  BY <1>1
<1>2. ASSUME NEW r \in Requests, submit[r] = "new",
             table' = [table EXCEPT ![r] = PendingRow]
      PROVE RowSteps
  BY <1>2 DEF PendingRow
<1>3. ASSUME NEW w \in Workers, current[w] # NoMessage,
             table' = [table EXCEPT ![body[current[w]]] = SuccessRow(@)]
      PROVE RowSteps
  BY <1>3 DEF SuccessRow
<1>4. ASSUME NEW w \in Workers, current[w] # NoMessage,
             table' = [table EXCEPT ![body[current[w]]] = ErrorRow(@)]
      PROVE RowSteps
  BY <1>4 DEF ErrorRow
<1>5. ASSUME NEW r \in Requests, ApiStep(r) PROVE RowSteps
  BY <1>1, <1>2, <1>5 DEF ApiStep, SubmitPutPending, SubmitPutPendingFails, SubmitPublish,
       SubmitPublishTwice, SubmitPublishFails, SubmitReply, SubmitReplyFails
<1>6. ASSUME NEW m \in Messages, QueueStep(m) PROVE UNCHANGED table
  BY <1>6 DEF QueueStep, VisibilityTimeout, Redeliver, Expire, jobVars
<1>7. ASSUME NEW w \in Workers, WorkerStep(w) PROVE RowSteps
  BY <1>1, <1>3, <1>4, <1>7 DEF WorkerStep, Receive, DeleteMessage, TakeMessage, BatchDone,
       RouteRaises, PutSuccess, PutError, jobVars
<1>8. ASSUME NEW w \in Workers, WorkerFault(w) PROVE RowSteps
  BY <1>1, <1>3, <1>4, <1>8 DEF WorkerFault, ReceiveFails, DeleteMessageFails,
       PutSuccessFails, PutErrorFails, Crash, jobVars
<1>. QED
  BY <1>1, <1>5, <1>6, <1>7, <1>8
     DEF Next, EnqueueRouteRequest, ReceiveNothing, Restart, jobVars, vars

(* An outcome is never taken back.                                            *)
THEOREM NoRegressionHolds == Spec => NoRegression
<1>1. IInv /\ [Next]_vars =>
        [\A r \in Requests : table[r].status \in Terminal => table'[r].status \in Terminal]_vars
  BY RowStep DEF RowSteps, Terminal, IInv, TypeOK, RowsOK
<1>. QED
  BY <1>1, Invariance, PTL DEF Spec, NoRegression

-----------------------------------------------------------------------------
(* The pipeline implements the board: the queue, the workers and every        *)
(* failure are invisible to a client but for the time a job stays PENDING.    *)
StatusMap == [r \in Requests |-> table[r].status]
ReplyMap ==
    [r \in Requests |-> IF submit[r] \in {"accepted", "rejected"} THEN submit[r] ELSE "none"]

LEMMA BoardInit == Init => Board!Init
BY DEF Init, Board!Init, AbsentRow

LEMMA BoardStep == IInv /\ [Next]_vars => [Board!Next]_(Board!boardVars)
<1>. SUFFICES ASSUME IInv, [Next]_vars PROVE [Board!Next]_(Board!boardVars)
  OBVIOUS
<1>. USE RouteJobsAssumption DEF IInv, TypeOK, StatusMap, ReplyMap
<1>1. ASSUME UNCHANGED <<StatusMap, ReplyMap>> PROVE UNCHANGED Board!boardVars
  BY <1>1 DEF Board!boardVars
<1>2. ASSUME NEW w \in Workers, WorkerStep(w) \/ WorkerFault(w)
      PROVE UNCHANGED submit /\ \A r \in Requests :
                table'[r] = table[r] \/ (r = body[current[w]] /\ current[w] # NoMessage)
  BY <1>2 DEF HandsOK, WorkerStep, WorkerFault, Receive, DeleteMessage, TakeMessage, BatchDone,
       RouteRaises, PutSuccess, PutError, ReceiveFails, DeleteMessageFails, PutSuccessFails,
       PutErrorFails, Crash, jobVars
<1>3. ASSUME NEW w \in Workers, WorkerStep(w) \/ WorkerFault(w)
      PROVE [Board!Next]_(Board!boardVars)
  <2>1. UNCHANGED ReplyMap
    BY <1>2, <1>3
  <2>2. CASE UNCHANGED table
    BY <1>1, <2>1, <2>2
  <2>3. CASE ~UNCHANGED table
    <3>. DEFINE j == body[current[w]]
    <3>1. PICK r \in Requests : table'[r] # table[r]
      BY <2>3, TypeStep
    <3>2. j = r /\ current[w] # NoMessage
      BY <1>2, <1>3, <3>1
    <3>3. StatusMap[j] # "ABSENT"
      BY <3>1, <3>2 DEF HandsOK, SentOK, RowsOK
    <3>4. table'[j].status \in Terminal
      BY RowStep, <3>1, <3>2, <3>3 DEF RowSteps
    <3>5. StatusMap' = [StatusMap EXCEPT ![j] = table'[j].status]
      BY <1>2, <1>3, <3>1, <3>2
    <3>. QED
      BY <2>1, <3>1, <3>2, <3>3, <3>4, <3>5
         DEF Board!Next, Board!Finish, Board!Outcomes, Terminal
  <2>. QED
    BY <2>2, <2>3
<1>4. ASSUME NEW r \in Requests, ApiStep(r) PROVE [Board!Next]_(Board!boardVars)
  <2>. USE DEF RowsOK
  <2>1. CASE SubmitPutPending(r)
    <3>1. UNCHANGED ReplyMap /\ StatusMap' = [StatusMap EXCEPT ![r] = "PENDING"]
      BY <2>1 DEF SubmitPutPending, PendingRow
    <3>2. StatusMap[r] = "ABSENT" /\ ReplyMap[r] = "none"
      BY <2>1 DEF SubmitPutPending
    <3>. QED
      BY <3>1, <3>2 DEF Board!Next, Board!Post
  <2>2. CASE SubmitPutPendingFails(r)
    <3>1. ReplyMap' = [ReplyMap EXCEPT ![r] = "rejected"]
      BY <2>2 DEF SubmitPutPendingFails
    <3>2. StatusMap' = StatusMap \/ StatusMap' = [StatusMap EXCEPT ![r] = "PENDING"]
      <4>1. table' = table \/ table' = [table EXCEPT ![r] = PendingRow]
        BY <2>2 DEF SubmitPutPendingFails
      <4>2. CASE table' = table
        BY <4>2
      <4>3. CASE table' = [table EXCEPT ![r] = PendingRow]
        BY <4>3 DEF PendingRow
      <4>. QED
        BY <4>1, <4>2, <4>3
    <3>3. StatusMap[r] = "ABSENT" /\ ReplyMap[r] = "none"
      BY <2>2 DEF SubmitPutPendingFails
    <3>. QED
      BY <3>1, <3>2, <3>3 DEF Board!Next, Board!PostAndReject, Board!Reject
  <2>3. CASE SubmitPublish(r) \/ SubmitPublishTwice(r)
    BY <1>1, <2>3 DEF SubmitPublish, SubmitPublishTwice
  <2>4. CASE SubmitPublishFails(r) \/ SubmitReplyFails(r)
    <3>1. ReplyMap' = [ReplyMap EXCEPT ![r] = "rejected"] /\ UNCHANGED StatusMap
      BY <2>4 DEF SubmitPublishFails, SubmitReplyFails
    <3>2. ReplyMap[r] = "none"
      BY <2>4 DEF SubmitPublishFails, SubmitReplyFails
    <3>. QED
      BY <3>1, <3>2 DEF Board!Next, Board!Reject
  <2>5. CASE SubmitReply(r)
    <3>1. ReplyMap' = [ReplyMap EXCEPT ![r] = "accepted"] /\ UNCHANGED StatusMap
      BY <2>5 DEF SubmitReply
    <3>2. ReplyMap[r] = "none" /\ StatusMap[r] # "ABSENT"
      BY <2>5 DEF SubmitReply
    <3>. QED
      BY <3>1, <3>2 DEF Board!Next, Board!Accept
  <2>. QED
    BY <1>4, <2>1, <2>2, <2>3, <2>4, <2>5 DEF ApiStep
<1>5. ASSUME NEW m \in Messages, QueueStep(m) PROVE UNCHANGED Board!boardVars
  BY <1>1, <1>5 DEF QueueStep, VisibilityTimeout, Redeliver, Expire, jobVars
<1>. QED
  BY <1>1, <1>3, <1>4, <1>5
     DEF Next, EnqueueRouteRequest, ReceiveNothing, Restart, jobVars, vars

THEOREM BoardRefinement == Spec => ImplementsBoard
<1>. QED
  BY BoardInit, BoardStep, Invariance, PTL DEF Spec, ImplementsBoard, Board!Spec
=============================================================================
