--------------------------- MODULE StreetGraph_proofs ---------------------------
(* Proofs about StreetGraphFile, and about StreetGraphCache over it, for any   *)
(* number of processes and failures, on a system whose flock works.            *)
EXTENDS StreetGraphCache, TLAPS

(* The caller between the lock and its release holds the lock.                 *)
LockOK == \A p \in Procs : pc[p] \in Locked <=> lock = p

(* Only the holder has a file open, and it is the temporary one.               *)
WriterOK == \A p \in Procs : fd[p] = IF pc[p] = "write" THEN "tmp" ELSE "none"

(* Between its recheck and its rename the holder is sure that there is no file,*)
(* and what it renames is whole.                                               *)
HolderOK ==
    \A p \in Procs :
        /\ pc[p] \in {"fetch", "open", "write", "replace"} => path = "none"
        /\ pc[p] = "replace" => tmp = "whole"

(* A caller that has left a method found or made the file, or was not to.      *)
ProgressOK ==
    \A p \in Procs :
        /\ pc[p] \in {"check", "lock"} \cup Locked => mode[p] = "download" \/ path # "none" \/ ~s3
        /\ pc[p] = "load" => path # "none" \/ (~s3 /\ build = "off")

CountOK == published = 0 \/ (published = 1 /\ path # "none")

FileInv ==
    TypeOK /\ LockOK /\ WriterOK /\ HolderOK /\ ProgressOK /\ CountOK /\ NeverTorn /\ RaisesForAReason

-----------------------------------------------------------------------------
LEMMA FileInit == Init => FileInv
BY StreetGraphFileAssumption
   DEF Init, FileInv, TypeOK, LockOK, WriterOK, HolderOK, ProgressOK, CountOK, NeverTorn,
       RaisesForAReason, Contents, Steps, Locked

LEMMA FileStep == ASSUME LockWorks, FileInv, [Next]_vars PROVE FileInv'
<1>. USE StreetGraphFileAssumption
     DEF FileInv, TypeOK, LockOK, WriterOK, HolderOK, ProgressOK, CountOK, NeverTorn,
         RaisesForAReason, Contents, Steps, Locked, config, files, Goto, Unlock, Fault
<1>1. ASSUME NEW p \in Procs, Call(p) PROVE FileInv'
  BY <1>1 DEF Call, Outside
<1>2. ASSUME NEW p \in Procs, Check(p) PROVE FileInv'
  BY <1>2 DEF Check, LeaveMethod
<1>3. ASSUME NEW p \in Procs, Lock(p) PROVE FileInv'
  BY <1>3 DEF Lock
<1>4. ASSUME NEW p \in Procs, Recheck(p) PROVE FileInv'
  BY <1>4 DEF Recheck, LeaveMethod
<1>5. ASSUME NEW p \in Procs, Fetch(p) PROVE FileInv'
  BY <1>5 DEF Fetch
<1>6. ASSUME NEW p \in Procs, FetchFails(p) PROVE FileInv'
  BY <1>6 DEF FetchFails, Raise
<1>7. ASSUME NEW p \in Procs, OpenTmp(p) PROVE FileInv'
  BY <1>7 DEF OpenTmp
<1>8. ASSUME NEW p \in Procs, WriteTmp(p) PROVE FileInv'
  BY <1>8 DEF WriteTmp, Close
<1>9. ASSUME NEW p \in Procs, WriteFails(p) PROVE FileInv'
  BY <1>9 DEF WriteFails, Raise, Close
<1>10. ASSUME NEW p \in Procs, Replace(p) PROVE FileInv'
  BY <1>10 DEF Replace, Raise, LeaveMethod
<1>11. ASSUME NEW p \in Procs, Load(p) PROVE FileInv'
  <2>1. CASE cached[p] \/ path = "whole"
    <3>1. cached' \in [Procs -> BOOLEAN]
      BY <1>11, <2>1 DEF Load
    <3>. QED
      BY <1>11, <2>1, <3>1 DEF Load
  <2>2. CASE ~(cached[p] \/ path = "whole")
    <3>1. path = "none" /\ ~s3 /\ build = "off"
      BY <1>11, <2>2 DEF Load
    <3>. QED
      BY <1>11, <2>2, <3>1 DEF Load
  <2>. QED
    BY <2>1, <2>2
<1>12. ASSUME NEW p \in Procs, Kill(p) PROVE FileInv'
  BY <1>12 DEF Kill, Close
<1>13. ASSUME NEW p \in Procs, Restart(p) PROVE FileInv'
  BY <1>13 DEF Restart
<1>14. CASE UNCHANGED vars
  BY <1>14 DEF vars
<1>. QED
  BY <1>1, <1>2, <1>3, <1>4, <1>5, <1>6, <1>7, <1>8, <1>9, <1>10, <1>11, <1>12, <1>13, <1>14
     DEF Next, Proceed

LEMMA FileInvariance == ASSUME LockWorks PROVE Spec => []FileInv
BY FileInit, FileStep, PTL DEF Spec

(* Nobody ever sees a torn graph file, whoever is killed while writing.        *)
THEOREM NeverTornHolds == ASSUME LockWorks PROVE Spec => []NeverTorn
<1>1. FileInv => NeverTorn
  BY DEF FileInv
<1>. QED
  BY <1>1, FileInvariance, PTL

(* All callers together put at most one graph in place.                        *)
THEOREM PublishedOnceHolds == ASSUME LockWorks PROVE Spec => []PublishedOnce
<1>1. FileInv => PublishedOnce
  BY DEF FileInv, CountOK, PublishedOnce
<1>. QED
  BY <1>1, FileInvariance, PTL

(* A call raises only for a failure of its own or for its configuration.       *)
THEOREM RaisesForAReasonHolds == ASSUME LockWorks PROVE Spec => []RaisesForAReason
<1>1. FileInv => RaisesForAReason
  BY DEF FileInv
<1>. QED
  BY <1>1, FileInvariance, PTL

-----------------------------------------------------------------------------
(* The variables of a caller keep their types.                                 *)
THEOREM FileTypeCorrect == ASSUME LockWorks PROVE Spec => []TypeOK
<1>1. FileInv => TypeOK
  BY DEF FileInv
<1>. QED
  BY <1>1, FileInvariance, PTL

(* Every request, hit, miss or failure around the file is a step of the file   *)
(* or none, so the cache hides no behaviour of its upstream and adds none.     *)
LEMMA CacheStepOfFile == ASSUME [CacheNext]_cacheVars PROVE [Next]_vars
<1>1. CASE CacheNext
  BY <1>1
     DEF CacheNext, Request, RequestUncached, Run, CacheStep, Hit, Miss, GetFails, Put, PutFails,
         AnswerUncached, UpstreamRaises, FileFaults, KillRequest, Next
<1>2. CASE UNCHANGED cacheVars
  BY <1>2 DEF cacheVars
<1>. QED
  BY <1>1, <1>2

THEOREM CacheRunsFile == CacheSpec => Spec
<1>1. CacheInit => Init
  BY DEF CacheInit
<1>2. [CacheNext]_cacheVars => [Next]_vars
  BY CacheStepOfFile
<1>. QED
  BY <1>1, <1>2, PTL DEF CacheSpec, Spec

(* Types, of the cache alone.                                                  *)
RequestsTyped ==
    /\ bucket \in BOOLEAN
    /\ object \in Objects
    /\ req \in [Procs -> {"idle", "get", "upstream", "answered", "failed"}]
    /\ graph \in [Procs -> {"none", "whole"}]
    /\ s3faults \in Nat
    /\ unstored \in SUBSET Procs
    /\ warm \in SUBSET Procs

(* Once a request was answered from a bucket, what is in it can be read, and   *)
(* so it is for the requests that count as warm.                               *)
Readable == object \in {"text", "whole"}
WarmOK ==
    /\ bucket => \A p \in Procs :
                    /\ req[p] = "answered" => Readable
                    /\ req[p] = "get" /\ p \in warm => Readable
    /\ ~bucket => warm = {} /\ \A p \in Procs : req[p] # "get"

CacheInv == RequestsTyped /\ WarmOK /\ FailsForAReason /\ OneAnswerWarmsTheCache

LEMMA CacheInvInit == CacheInit => CacheInv
BY DEF CacheInit, CacheInv, RequestsTyped, WarmOK, Readable, Objects, FailsForAReason,
       OneAnswerWarmsTheCache

(* What befalls the file changes nothing of the requests, and excuses no less. *)
LEMMA FileStepKeepsCacheInv ==
    ASSUME CacheInv, UNCHANGED requests, UNCHANGED config, hit \subseteq hit'
    PROVE  CacheInv'
BY DEF CacheInv, requests, config, RequestsTyped, WarmOK, Readable, FailsForAReason,
       OneAnswerWarmsTheCache

LEMMA CacheInvStep ==
    ASSUME FileInv, CacheInv, [CacheNext]_cacheVars PROVE CacheInv'
<1>. USE DEF CacheInv, RequestsTyped, WarmOK, Readable, Objects, FailsForAReason,
             OneAnswerWarmsTheCache, Reply
<1>1. ASSUME NEW p \in Procs, Request(p) PROVE CacheInv'
  BY <1>1 DEF Request, Begin, vars
<1>2. ASSUME NEW p \in Procs, RequestUncached(p) PROVE CacheInv'
  BY <1>2 DEF RequestUncached, Begin, Call, config
<1>3. ASSUME NEW p \in Procs, Hit(p) PROVE CacheInv'
  BY <1>3 DEF Hit, AnswerWith, Normalize, vars
<1>4. ASSUME NEW p \in Procs, Miss(p) PROVE CacheInv'
  BY <1>4 DEF Miss, Call, config
<1>5. ASSUME NEW p \in Procs, GetFails(p) PROVE CacheInv'
  BY <1>5 DEF GetFails, S3Fault, Call, config
<1>6. ASSUME NEW p \in Procs, Put(p) PROVE CacheInv'
  BY <1>6 DEF Put, AnswerWith, Normalize, vars
<1>7. ASSUME NEW p \in Procs, PutFails(p) PROVE CacheInv'
  BY <1>7 DEF PutFails, S3Fault, Normalize, vars
<1>8. ASSUME NEW p \in Procs, AnswerUncached(p) PROVE CacheInv'
  BY <1>8 DEF AnswerUncached, AnswerWith, vars
<1>9. ASSUME NEW p \in Procs, UpstreamRaises(p) PROVE CacheInv'
  BY <1>9 DEF UpstreamRaises, FileInv, RaisesForAReason, vars
<1>10. ASSUME NEW p \in Procs, KillRequest(p) PROVE CacheInv'
  BY <1>10 DEF KillRequest, Kill, Fault, config
<1>11. ASSUME NEW p \in Procs, Proceed(p), UNCHANGED requests PROVE CacheInv'
  <2>1. UNCHANGED config /\ hit' = hit
    BY <1>11 DEF Proceed, Check, Lock, Recheck, Fetch, OpenTmp, WriteTmp, Replace, Load, config
  <2>. QED
    BY <1>11, <2>1, FileStepKeepsCacheInv
<1>12. ASSUME NEW p \in Procs, FileFaults(p) PROVE CacheInv'
  <2>1. UNCHANGED config /\ hit \subseteq hit'
    BY <1>12 DEF FileFaults, FetchFails, WriteFails, Restart, Fault, config
  <2>. QED
    BY <1>12, <2>1, FileStepKeepsCacheInv DEF FileFaults
<1>13. CASE UNCHANGED cacheVars
  BY <1>13, FileStepKeepsCacheInv DEF cacheVars, vars, config
<1>. QED
  BY <1>1, <1>2, <1>3, <1>4, <1>5, <1>6, <1>7, <1>8, <1>9, <1>10, <1>11, <1>12, <1>13
     DEF CacheNext, Run, CacheStep

LEMMA CacheInvariance == ASSUME LockWorks PROVE CacheSpec => [](FileInv /\ CacheInv)
<1>1. CacheSpec => []FileInv
  BY CacheRunsFile, FileInvariance, PTL
<1>2. CacheInit => CacheInv
  BY CacheInvInit
<1>3. FileInv /\ CacheInv /\ [CacheNext]_cacheVars => CacheInv'
  BY CacheInvStep
<1>. QED
  BY <1>1, <1>2, <1>3, PTL DEF CacheSpec

(* No graph with numbers as text is ever handed out, whatever was in the       *)
(* bucket.                                                                     *)
THEOREM CacheTypeCorrect == ASSUME LockWorks PROVE CacheSpec => []CacheTypeOK
<1>1. FileInv /\ CacheInv => CacheTypeOK
  BY DEF FileInv, CacheInv, RequestsTyped, CacheTypeOK
<1>. QED
  BY <1>1, CacheInvariance, PTL

(* A request fails only for a put of its own, a failure of its upstream, or a  *)
(* configuration that makes no graph.                                          *)
THEOREM FailsForAReasonHolds == ASSUME LockWorks PROVE CacheSpec => []FailsForAReason
<1>1. FileInv /\ CacheInv => FailsForAReason
  BY DEF CacheInv
<1>. QED
  BY <1>1, CacheInvariance, PTL

(* After one answer every request whose get works is answered from the bucket. *)
THEOREM OneAnswerWarms == ASSUME LockWorks PROVE CacheSpec => []OneAnswerWarmsTheCache
<1>1. FileInv /\ CacheInv => OneAnswerWarmsTheCache
  BY DEF CacheInv
<1>. QED
  BY <1>1, CacheInvariance, PTL

(* Over the cache as under it: no process ever sees a torn graph file, and all *)
(* together put at most one in place.                                          *)
THEOREM CacheKeepsFile == ASSUME LockWorks PROVE CacheSpec => [](NeverTorn /\ PublishedOnce)
<1>1. FileInv => NeverTorn /\ PublishedOnce
  BY DEF FileInv, CountOK, PublishedOnce
<1>. QED
  BY <1>1, CacheInvariance, PTL
=============================================================================
