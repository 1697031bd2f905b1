--------------------------- MODULE StreetGraphFile ---------------------------
(* OSMnxMapAdapter.get_street_graph with OSM_GRAPH_PATH set: API threads and   *)
(* workers share one graph file on a volume. Whoever finds it missing takes a  *)
(* lock, downloads it from S3 or builds it from OpenStreetMap into one         *)
(* temporary file and renames that. One step is one system call or one long    *)
(* computation; a process may be killed between any two of them.               *)
EXTENDS Naturals

CONSTANTS
    Procs,        \* callers: request threads of the API, worker processes
    Nobody,       \* the lock is free
    LockWorks,    \* fcntl.flock is available and does not fail
    MaxFaults     \* bound on failures and kills

ASSUME StreetGraphFileAssumption ==
    /\ Nobody \notin Procs
    /\ LockWorks \in BOOLEAN
    /\ MaxFaults \in Nat

VARIABLES
    s3,           \* OSM_GRAPH_S3_URI is set
    build,        \* OSM_GRAPH_AUTO_BUILD, and whether OSM_PLACE is set with it
    path,         \* the file at OSM_GRAPH_PATH
    tmp,          \* the temporary file beside it
    lock,         \* holder of the flock on the lock file
    pc,           \* where a caller is
    mode,         \* which of the two methods a caller is in
    fd,           \* the file a caller has open for writing
    cached,       \* the caller's adapter has _prebuilt_graph
    faults,       \* failures so far (bound)
    hit,          \* history: callers that a failure has hit in this call
    published     \* history: how often the graph file was put in place

config == <<s3, build>>
files == <<path, tmp>>
vars == <<s3, build, path, tmp, lock, pc, mode, fd, cached, faults, hit, published>>

Contents == {"none", "partial", "whole"}
Steps == {"idle", "check", "lock", "recheck", "fetch", "open", "write", "replace",
          "load", "returned", "raised", "killed"}
Locked == {"recheck", "fetch", "open", "write", "replace"}
Outside == {"idle", "returned", "raised"}

Init ==
    /\ s3 \in BOOLEAN
    /\ build \in {"off", "on", "noplace"}
    /\ path \in {"none", "whole"}
    /\ tmp = "none"
    /\ lock = Nobody
    /\ pc = [p \in Procs |-> "idle"]
    /\ mode = [p \in Procs |-> "download"]
    /\ fd = [p \in Procs |-> "none"]
    /\ cached = [p \in Procs |-> FALSE]
    /\ faults = 0
    /\ hit = {}
    /\ published = 0

Goto(p, step) == pc' = [pc EXCEPT ![p] = step]

Unlock(p) == lock' = IF lock = p THEN Nobody ELSE lock

(* Definitions named ..._<Fault> are mutants of the definition below them.     *)
(* The exception leaves the with block, which closes the lock file.            *)
Raise_KeepsLock(p) == Goto(p, "raised") /\ UNCHANGED lock
Raise(p) == Goto(p, "raised") /\ Unlock(p)

(* Leaving _maybe_download leads to _maybe_build, leaving that one to the load. *)
LeaveMethod(p) ==
    /\ Unlock(p)
    /\ mode' = [mode EXCEPT ![p] = "build"]
    /\ Goto(p, IF mode[p] = "download" THEN "check" ELSE "load")

Fault(p) ==
    /\ faults < MaxFaults
    /\ faults' = faults + 1
    /\ hit' = hit \cup {p}

(* A caller with a new adapter (one per API request) or the worker's old one.  *)
Call(p) ==
    /\ pc[p] \in Outside
    /\ Goto(p, "check")
    /\ mode' = [mode EXCEPT ![p] = "download"]
    /\ \E keep \in BOOLEAN : cached' = [cached EXCEPT ![p] = keep /\ cached[p]]
    /\ hit' = hit \ {p}
    /\ UNCHANGED <<config, files, lock, fd, faults, published>>

(* Whether this method has anything to do, without the lock.                   *)
Check(p) ==
    /\ pc[p] = "check"
    /\ LET wanted == IF mode[p] = "download" THEN s3 ELSE build # "off" IN
       \/ (path # "none" \/ ~wanted) /\ LeaveMethod(p)
       \/ /\ path = "none" /\ wanted
          /\ Goto(p, IF mode[p] = "build" /\ build = "noplace" THEN "raised" ELSE "lock")
          /\ UNCHANGED <<lock, mode>>
    /\ UNCHANGED <<config, files, fd, cached, faults, hit, published>>

Lock(p) ==
    /\ pc[p] = "lock"
    /\ IF LockWorks
       THEN lock = Nobody /\ lock' = p
       ELSE UNCHANGED lock
    /\ Goto(p, "recheck")
    /\ UNCHANGED <<config, files, mode, fd, cached, faults, hit, published>>

(* Another process might have built it while we waited.                        *)
Recheck_Skipped(p) ==
    /\ pc[p] = "recheck"
    /\ Goto(p, "fetch") /\ UNCHANGED <<lock, mode>>
    /\ UNCHANGED <<config, files, fd, cached, faults, hit, published>>
Recheck(p) ==
    /\ pc[p] = "recheck"
    /\ IF path # "none"
       THEN LeaveMethod(p)
       ELSE Goto(p, "fetch") /\ UNCHANGED <<lock, mode>>
    /\ UNCHANGED <<config, files, fd, cached, faults, hit, published>>

(* s3.get_object, or ox.graph_from_place.                                      *)
Fetch(p) ==
    /\ pc[p] = "fetch"
    /\ Goto(p, "open")
    /\ UNCHANGED <<config, files, lock, mode, fd, cached, faults, hit, published>>

FetchFails(p) ==
    /\ pc[p] = "fetch"
    /\ Fault(p)
    /\ Raise(p)
    /\ UNCHANGED <<config, files, mode, fd, cached, published>>

(* Opening for writing creates or truncates the temporary file.                *)
OpenTmp_WritesInPlace(p) ==
    /\ pc[p] = "open"
    /\ path' = "partial"
    /\ fd' = [fd EXCEPT ![p] = "path"]
    /\ Goto(p, "write")
    /\ UNCHANGED <<config, tmp, lock, mode, cached, faults, hit, published>>
OpenTmp(p) ==
    /\ pc[p] = "open"
    /\ tmp' = "partial"
    /\ fd' = [fd EXCEPT ![p] = "tmp"]
    /\ Goto(p, "write")
    /\ UNCHANGED <<config, path, lock, mode, cached, faults, hit, published>>

Close(p) == fd' = [fd EXCEPT ![p] = "none"]

(* The last bytes are written. With two writers in one file anything may be    *)
(* in it.                                                                      *)
WriteTmp(p) ==
    /\ pc[p] = "write"
    /\ \E c \in IF \E q \in Procs \ {p} : fd[q] = fd[p] THEN {"partial", "whole"} ELSE {"whole"} :
          \/ fd[p] = "tmp" /\ tmp' = c /\ UNCHANGED path
          \/ fd[p] = "path" /\ path' = c /\ UNCHANGED tmp
    /\ Close(p)
    /\ Goto(p, "replace")
    /\ UNCHANGED <<config, lock, mode, cached, faults, hit, published>>

(* The disk is full: the temporary file stays behind as it is.                 *)
WriteFails(p) ==
    /\ pc[p] = "write"
    /\ Fault(p)
    /\ Close(p)
    /\ Raise(p)
    /\ UNCHANGED <<config, files, mode, cached, published>>

(* os.replace: atomic; writers of the temporary file go on in the graph file.  *)
Replace(p) ==
    /\ pc[p] = "replace"
    /\ IF tmp = "none"
       THEN Raise(p) /\ UNCHANGED <<files, mode, fd, published>>
       ELSE /\ path' = tmp
            /\ tmp' = "none"
            /\ fd' = [q \in Procs |-> IF fd[q] = "tmp" THEN "path" ELSE fd[q]]
            /\ published' = published + 1
            /\ LeaveMethod(p)
    /\ UNCHANGED <<config, cached, faults, hit>>

Load(p) ==
    /\ pc[p] = "load"
    /\ IF cached[p] \/ path = "whole"
       THEN Goto(p, "returned") /\ cached' = [cached EXCEPT ![p] = TRUE]
       ELSE Goto(p, "raised") /\ UNCHANGED cached
    /\ UNCHANGED <<config, files, lock, mode, fd, faults, hit, published>>

(* The kernel drops the locks and closes the files of a killed process.        *)
Kill(p) ==
    /\ pc[p] # "killed"
    /\ Fault(p)
    /\ Goto(p, "killed")
    /\ Unlock(p)
    /\ Close(p)
    /\ cached' = [cached EXCEPT ![p] = FALSE]
    /\ UNCHANGED <<config, files, mode, published>>

Restart(p) ==
    /\ pc[p] = "killed"
    /\ Goto(p, "idle")
    /\ UNCHANGED <<config, files, lock, mode, fd, cached, faults, hit, published>>

(* get_street_graph, once called.                                              *)
Proceed(p) ==
    \/ Check(p)
    \/ Lock(p)
    \/ Recheck(p)
    \/ Fetch(p)
    \/ OpenTmp(p)
    \/ WriteTmp(p)
    \/ Replace(p)
    \/ Load(p)

Next ==
    \E p \in Procs :
        \/ Call(p)
        \/ Proceed(p)
        \/ FetchFails(p)
        \/ WriteFails(p)
        \/ Kill(p)
        \/ Restart(p)

Spec == Init /\ [][Next]_vars

-----------------------------------------------------------------------------
TypeOK ==
    /\ s3 \in BOOLEAN
    /\ build \in {"off", "on", "noplace"}
    /\ path \in Contents
    /\ tmp \in Contents
    /\ lock \in Procs \cup {Nobody}
    /\ pc \in [Procs -> Steps]
    /\ mode \in [Procs -> {"download", "build"}]
    /\ fd \in [Procs -> {"none", "tmp", "path"}]
    /\ cached \in [Procs -> BOOLEAN]
    /\ faults \in Nat
    /\ hit \in SUBSET Procs
    /\ published \in Nat

(* Whoever reads the graph file reads a whole one, whatever was killed or      *)
(* failed while it was written: path.exists() alone decides that the file is   *)
(* good, so a torn file would never be built again.                            *)
NeverTorn == path # "partial"

(* "Build and persist a full-area graph once, then reuse it": the API and the  *)
(* workers together put at most one graph in place.                            *)
PublishedOnce == published <= 1

(* Concurrent callers do no harm to each other: a call raises only because of  *)
(* a failure of its own or because it is configured not to make the file. In   *)
(* particular nobody loads a torn file or loses its temporary file to another. *)
RaisesForAReason ==
    \A p \in Procs :
        pc[p] = "raised" => p \in hit \/ (~s3 /\ build # "on")
=============================================================================
