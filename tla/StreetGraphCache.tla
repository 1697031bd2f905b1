--------------------------- MODULE StreetGraphCache ---------------------------
(* S3CachedMapAdapter around OSMnxMapAdapter, as get_routing_service and main   *)
(* wire them: with a bucket a request reads the object of its key first, asks   *)
(* upstream when that fails in any way, and stores the graph before it answers; *)
(* without one it asks upstream. One key: the objects of other keys do not meet.*)
EXTENDS StreetGraphFile

CONSTANT MaxS3Faults   \* bound on failures of the bucket

ASSUME StreetGraphCacheAssumption == MaxS3Faults \in Nat

VARIABLES
    bucket,      \* STREET_GRAPH_BUCKET is set
    object,      \* the object under the key
    req,         \* where a request is
    graph,       \* the graph a request was answered with
    s3faults,    \* failures of the bucket so far (bound)
    unstored,    \* history: requests that failed in put_object
    warm         \* history: requests begun after an answer, whose get worked

requests == <<bucket, object, req, graph, s3faults, unstored, warm>>
cacheVars == <<vars, requests>>

(* bad: not a gzipped pickle. text: numbers stored as text.                    *)
Objects == {"none", "bad", "text", "whole"}

CacheInit ==
    /\ Init
    /\ bucket \in BOOLEAN
    /\ object \in IF bucket THEN Objects ELSE {"none"}
    /\ req = [p \in Procs |-> "idle"]
    /\ graph = [p \in Procs |-> "none"]
    /\ s3faults = 0
    /\ unstored = {}
    /\ warm = {}

(* _normalize_graph turns text into numbers and leaves the rest as it is.      *)
Normalize_AsIs(g) == g
Normalize(g) == IF g = "text" THEN "whole" ELSE g

S3Fault(p) ==
    /\ s3faults < MaxS3Faults
    /\ s3faults' = s3faults + 1

Reply(p, outcome) == req' = [req EXCEPT ![p] = outcome]

AnswerWith(p, g) ==
    /\ Reply(p, "answered")
    /\ graph' = [graph EXCEPT ![p] = g]

(* A request comes in at a process that is alive and at rest.                  *)
Begin(p) ==
    /\ pc[p] # "killed"
    /\ req[p] \in {"idle", "answered", "failed"}
    /\ graph' = [graph EXCEPT ![p] = "none"]
    /\ unstored' = unstored \ {p}

Request(p) ==
    /\ bucket
    /\ Begin(p)
    /\ Reply(p, "get")
    /\ warm' = IF \E q \in Procs : req[q] = "answered" THEN warm \cup {p} ELSE warm \ {p}
    /\ UNCHANGED <<vars, bucket, object, s3faults>>

RequestUncached(p) ==
    /\ ~bucket
    /\ Begin(p)
    /\ Reply(p, "upstream")
    /\ Call(p)
    /\ UNCHANGED <<bucket, object, s3faults, warm>>

(* get_object, decompress, unpickle.                                           *)
Hit(p) ==
    /\ req[p] = "get"
    /\ object \in {"text", "whole"}
    /\ AnswerWith(p, Normalize(object))
    /\ UNCHANGED <<vars, bucket, object, s3faults, unstored, warm>>

(* Any exception of the three, a missing or a bad object among them.           *)
Miss(p) ==
    /\ req[p] = "get"
    /\ object \in {"none", "bad"}
    /\ Reply(p, "upstream")
    /\ Call(p)
    /\ UNCHANGED <<bucket, object, graph, s3faults, unstored, warm>>

GetFails_Raises(p) ==
    /\ req[p] = "get"
    /\ S3Fault(p)
    /\ Reply(p, "failed")
    /\ UNCHANGED <<vars, bucket, object, graph, unstored, warm>>
GetFails(p) ==
    /\ req[p] = "get"
    /\ S3Fault(p)
    /\ Reply(p, "upstream")
    /\ Call(p)
    /\ warm' = warm \ {p}
    /\ UNCHANGED <<bucket, object, graph, unstored>>

(* The graph upstream returned is stored and then handed out.                  *)
Put_Nothing(p) ==
    /\ bucket /\ req[p] = "upstream" /\ pc[p] = "returned"
    /\ AnswerWith(p, Normalize("whole"))
    /\ UNCHANGED <<vars, bucket, object, s3faults, unstored, warm>>
Put(p) ==
    /\ bucket /\ req[p] = "upstream" /\ pc[p] = "returned"
    /\ object' = Normalize("whole")
    /\ AnswerWith(p, Normalize("whole"))
    /\ UNCHANGED <<vars, bucket, s3faults, unstored, warm>>

(* The object may have been stored all the same.                               *)
PutFails(p) ==
    /\ bucket /\ req[p] = "upstream" /\ pc[p] = "returned"
    /\ S3Fault(p)
    /\ object' \in {object, Normalize("whole")}
    /\ Reply(p, "failed")
    /\ unstored' = unstored \cup {p}
    /\ UNCHANGED <<vars, bucket, graph, warm>>

AnswerUncached(p) ==
    /\ ~bucket /\ req[p] = "upstream" /\ pc[p] = "returned"
    /\ AnswerWith(p, "whole")
    /\ UNCHANGED <<vars, bucket, object, s3faults, unstored, warm>>

UpstreamRaises(p) ==
    /\ req[p] = "upstream" /\ pc[p] = "raised"
    /\ Reply(p, "failed")
    /\ UNCHANGED <<vars, bucket, object, graph, s3faults, unstored, warm>>

KillRequest(p) ==
    /\ Kill(p)
    /\ Reply(p, "idle")
    /\ graph' = [graph EXCEPT ![p] = "none"]
    /\ UNCHANGED <<bucket, object, s3faults, unstored, warm>>

CacheStep(p) ==
    \/ Hit(p)
    \/ Miss(p)
    \/ Put(p)
    \/ AnswerUncached(p)
    \/ UpstreamRaises(p)

Run(p) == CacheStep(p) \/ (Proceed(p) /\ UNCHANGED requests)

FileFaults(p) ==
    /\ FetchFails(p) \/ WriteFails(p) \/ Restart(p)
    /\ UNCHANGED requests

CacheNext ==
    \E p \in Procs :
        \/ Request(p)
        \/ RequestUncached(p)
        \/ Run(p)
        \/ GetFails(p)
        \/ PutFails(p)
        \/ FileFaults(p)
        \/ KillRequest(p)

CacheSpec == CacheInit /\ [][CacheNext]_cacheVars

(* A process that can go on does, in the cache as in the file: downloads,      *)
(* builds and calls to S3 end. Nobody has to make a request.                   *)
FairCacheSpec ==
    /\ CacheSpec
    /\ \A p \in Procs : WF_cacheVars(Run(p))

-----------------------------------------------------------------------------
(* Types. Among them: no graph with numbers as text is ever handed out,        *)
(* whatever was in the bucket.                                                 *)
CacheTypeOK ==
    /\ TypeOK
    /\ bucket \in BOOLEAN
    /\ object \in Objects
    /\ req \in [Procs -> {"idle", "get", "upstream", "answered", "failed"}]
    /\ graph \in [Procs -> {"none", "whole"}]
    /\ s3faults \in Nat
    /\ unstored \in SUBSET Procs
    /\ warm \in SUBSET Procs

(* A request fails only because its own put failed, upstream failed under it,  *)
(* or nothing may make the graph: neither a failed get, nor a bad object, nor  *)
(* what befalls the other processes fails it.                                  *)
FailsForAReason ==
    \A p \in Procs :
        req[p] = "failed" => p \in hit \cup unstored \/ (~s3 /\ build # "on")

(* One answer is enough: once a request has been answered, every later one     *)
(* whose get works is answered from the bucket, and no failed put, bad object  *)
(* or concurrent miss takes that back.                                         *)
OneAnswerWarmsTheCache ==
    \A p \in Procs : req[p] = "upstream" => p \notin warm

(* Every request is answered or fails, unless its process is killed, whoever    *)
(* dies with the lock or fails under it.                                        *)
RequestEnds(p) == req[p] \in {"get", "upstream"} ~> req[p] \notin {"get", "upstream"}
=============================================================================
