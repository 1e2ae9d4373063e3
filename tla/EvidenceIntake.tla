--------------------------- MODULE EvidenceIntake ---------------------------
(***************************************************************************)
(* The evidence queue and its two ways in: an upload in one request        *)
(* (EvidenceService) and chunked upload sessions (UploadSessionService and *)
(* its store), with the sessions in PostgreSQL and their copies in Redis,  *)
(* the bytes of chunks in Redis and their registry in both.  Items of the  *)
(* queue are moved from a staging file to durable storage.  Everything     *)
(* that is uploaded is the same file.                                      *)
(*                                                                         *)
(* A request is a sequence of awaited calls; the step before each await is *)
(* an action, and the requests interleave between them.                    *)
(***************************************************************************)
EXTENDS Naturals, FiniteSets, Sequences

CONSTANTS
    Sessions,  \* upload sessions, all of one organization
    Org,       \* that organization
    Orgs,      \* organizations
    Chunks,    \* the chunks of the file
    Requests,  \* requests that the server handles at a time
    MaxItems,  \* rows ever created in the queue
    MaxFaults, \* failing calls, restarts of the server and of Redis
    None

ASSUME UploadAssumption ==
    /\ Org \in Orgs
    /\ IsFiniteSet(Chunks) /\ Chunks # {} /\ IsFiniteSet(Requests)
    /\ None \notin Chunks \cup Sessions
    /\ MaxItems \in Nat /\ MaxFaults \in Nat

VARIABLES
    status,   \* UploadSession.status
    cached,   \* the status of the copy in Redis, or None
    expired,  \* sessions past expiresAt
    rows,     \* UploadChunk rows of each session
    received, \* the Redis set of each session
    data,     \* chunks of each session whose bytes are in Redis
    evidence, \* EvidenceQueueItem rows, in the order of their creation
    req,      \* the requests
    valid,    \* whether the file's content passes the content check
    harmed,   \* sessions that lost bytes of a registered chunk
    faults

vars == <<status, cached, expired, rows, received, data, evidence, req,
          valid, harmed, faults>>

redis == <<cached, received, data>>

Statuses == {"active", "completed", "aborted", "expired"}

Idle == [at |-> "idle", op |-> "none", session |-> None, chunk |-> None,
         read |-> None, left |-> {}, end |-> "none", item |-> 0]

Init ==
    /\ status = [s \in Sessions |-> "none"]
    /\ cached = [s \in Sessions |-> None]
    /\ expired = {}
    /\ rows = [s \in Sessions |-> {}]
    /\ received = [s \in Sessions |-> {}]
    /\ data = [s \in Sessions |-> {}]
    /\ evidence = <<>>
    /\ req = [r \in Requests |-> Idle]
    /\ valid \in BOOLEAN
    /\ harmed = {}
    /\ faults = 0

Fault == faults < MaxFaults /\ faults' = faults + 1

Goto(r, at) == req' = [req EXCEPT ![r].at = at]

\* The request is answered, one way or the other.
Answer(r) == req' = [req EXCEPT ![r] = Idle]

Session(r) == req[r].session

-----------------------------------------------------------------------------
\* Sessions.

Create(s) ==
    /\ status[s] = "none"
    /\ status' = [status EXCEPT ![s] = "active"]
    /\ cached' = [cached EXCEPT ![s] = "active"]
    /\ UNCHANGED <<expired, rows, received, data, evidence, req, valid, harmed, faults>>

\* 24 hours pass; the copy in Redis has the same time to live.
Expire(s) ==
    /\ status[s] # "none" /\ s \notin expired
    /\ expired' = expired \cup {s}
    /\ cached' = [cached EXCEPT ![s] = None]
    /\ UNCHANGED <<status, rows, received, data, evidence, req, valid, harmed, faults>>

\* A chunk, a finalization or a query arrives.
Arrive(r, op, s, i) ==
    /\ req[r] = Idle /\ status[s] # "none"
    /\ op = "upload" \/ i = None
    /\ req' = [req EXCEPT ![r] = [Idle EXCEPT !.at = "get", !.op = op,
                                              !.session = s, !.chunk = i]]
    /\ UNCHANGED <<status, redis, expired, rows, evidence, valid, harmed, faults>>

\* What getActiveSession lets through goes on to its operation; getStatus
\* then only reads the received chunks.
Enter(r) ==
    CASE req[r].op = "upload" -> Goto(r, "check")
      [] req[r].op = "finalize" -> Goto(r, "count")
      [] req[r].op = "status" -> Answer(r)

\* getSession: from Redis, or else from the table, to be copied to Redis.
GetSession(r) ==
    /\ req[r].at = "get"
    /\ CASE cached[Session(r)] = None -> Goto(r, "find")
         [] cached[Session(r)] = "active" -> Enter(r)
         [] OTHER -> Answer(r)
    /\ UNCHANGED <<status, redis, expired, rows, evidence, valid, harmed, faults>>

FindSession(r) ==
    /\ req[r].at = "find"
    /\ req' = [req EXCEPT ![r].at = "copy", ![r].read = status[Session(r)]]
    /\ UNCHANGED <<status, redis, expired, rows, evidence, valid, harmed, faults>>

\* The copy may be older than the row by now.
CopySession(r) ==
    LET s == Session(r)
    IN  /\ req[r].at = "copy"
        /\ cached' = IF s \in expired THEN cached ELSE [cached EXCEPT ![s] = req[r].read]
        /\ CASE req[r].read # "active" -> Answer(r)
             [] req[r].read = "active" /\ s \in expired ->
                    req' = [req EXCEPT ![r].at = "mark", ![r].end = "expired"]
             [] OTHER -> Enter(r)
        /\ UNCHANGED <<status, expired, rows, received, data, evidence, valid,
                       harmed, faults>>

\* updateSessionStatus: the row, then the copy.
MarkSession(r) ==
    /\ req[r].at = "mark"
    /\ status' = [status EXCEPT ![Session(r)] = req[r].end]
    /\ Goto(r, "uncache")
    /\ UNCHANGED <<redis, expired, rows, evidence, valid, harmed, faults>>

Uncache(r) ==
    /\ req[r].at = "uncache"
    /\ cached' = [cached EXCEPT ![Session(r)] = None]
    /\ IF req[r].end = "expired" THEN Answer(r) ELSE Goto(r, "cleanup")
    /\ UNCHANGED <<status, expired, rows, received, data, evidence, valid, harmed, faults>>

CleanupSession(r) ==
    /\ req[r].at = "cleanup"
    /\ received' = [received EXCEPT ![Session(r)] = {}]
    /\ data' = [data EXCEPT ![Session(r)] = {}]
    /\ Answer(r)
    /\ UNCHANGED <<status, cached, expired, rows, evidence, valid, harmed, faults>>

\* getReceivedChunks: the Redis set, or the table when the set is empty.
Received(s) == IF received[s] # {} THEN received[s] ELSE rows[s]

-----------------------------------------------------------------------------
\* uploadChunk: a registered chunk is not stored again.

CheckChunk(r) ==
    /\ req[r].at = "check"
    /\ IF req[r].chunk \in rows[Session(r)] THEN Answer(r)
       ELSE req' = [req EXCEPT ![r].at = "store", ![r].left = {"bytes", "set"}]
    /\ UNCHANGED <<status, redis, expired, rows, evidence, valid, harmed, faults>>

\* The request is answered when the last of its writes is done.
Write(r, write, next) ==
    /\ req[r].at = "store" /\ write \in req[r].left
    /\ LET left == (req[r].left \ {write}) \cup next
       IN  IF left = {} THEN Answer(r) ELSE req' = [req EXCEPT ![r].left = left]

\* storeChunk, in parallel with ...
StoreBytes(r) ==
    /\ Write(r, "bytes", {})
    /\ data' = [data EXCEPT ![Session(r)] = @ \cup {req[r].chunk}]
    /\ UNCHANGED <<status, cached, expired, rows, received, evidence, valid, harmed, faults>>

\* ... addReceivedChunk: the Redis set, then the table.
AddToSet(r) ==
    /\ Write(r, "set", {"row"})
    /\ received' = [received EXCEPT ![Session(r)] = @ \cup {req[r].chunk}]
    /\ UNCHANGED <<status, cached, expired, rows, data, evidence, valid, harmed, faults>>

UpsertChunk(r) ==
    /\ Write(r, "row", {})
    /\ rows' = [rows EXCEPT ![Session(r)] = @ \cup {req[r].chunk}]
    /\ UNCHANGED <<status, redis, expired, evidence, valid, harmed, faults>>

-----------------------------------------------------------------------------
\* finalize

CountChunks(r) ==
    /\ req[r].at = "count"
    /\ IF Received(Session(r)) = Chunks THEN Goto(r, "assemble") ELSE Answer(r)
    /\ UNCHANGED <<status, redis, expired, rows, evidence, valid, harmed, faults>>

\* getAllChunks throws when the bytes of a chunk are missing.
BrokenAssembles(s) == data[s] # {}

Assembles(s) == data[s] = Chunks

BrokenAssemble(r) ==
    /\ req[r].at = "assemble"
    /\ req' = [req EXCEPT ![r].at = "mark", ![r].end = IF valid THEN "completed" ELSE "aborted"]
    /\ UNCHANGED <<status, redis, expired, rows, evidence, valid, harmed, faults>>

\* Content that fails the check aborts the session.
Assemble(r) ==
    /\ req[r].at = "assemble"
    /\ IF ~Assembles(Session(r)) THEN Answer(r)
       ELSE IF valid
       THEN req' = [req EXCEPT ![r].at = "duplicate",
                              ![r].read = IF data[Session(r)] = Chunks THEN "whole" ELSE "part"]
       ELSE req' = [req EXCEPT ![r].at = "mark", ![r].end = "aborted"]
    /\ UNCHANGED <<status, redis, expired, rows, evidence, valid, harmed, faults>>

\* findFirst looks in the organization.
Duplicate(org) ==
    \E i \in DOMAIN evidence : evidence[i].status # "gone" /\ evidence[i].org = org

\* A duplicate completes the session; its staging file is dropped.
FindDuplicate(r) ==
    /\ req[r].at = "duplicate"
    /\ IF Duplicate(Org)
       THEN req' = [req EXCEPT ![r].at = "mark", ![r].end = "completed"]
       ELSE Goto(r, "create")
    /\ UNCHANGED <<status, redis, expired, rows, evidence, valid, harmed, faults>>

\* fileHash is unique in the table.
BrokenFileHashUnique == TRUE

FileHashUnique == \A i \in DOMAIN evidence : evidence[i].status = "gone"

\* The row is created, or the unique index refuses it and the request fails.
CreateItem(r, org, whole, go, refuse) ==
    IF FileHashUnique
    THEN /\ Len(evidence) < MaxItems
         /\ evidence' = Append(evidence, [org |-> org, whole |-> whole, status |-> "pending",
                                          staged |-> TRUE, key |-> FALSE, stored |-> FALSE,
                                          doomed |-> FALSE])
         /\ req' = [req EXCEPT ![r] = go]
    ELSE UNCHANGED evidence /\ req' = [req EXCEPT ![r] = refuse]

BrokenRefused(r) == [req[r] EXCEPT !.at = "cleanup"]

\* The session stays open.
Refused(r) == Idle

CreateEvidence(r) ==
    /\ req[r].at = "create"
    /\ CreateItem(r, Org, req[r].read = "whole",
                  [req[r] EXCEPT !.at = "mark", !.end = "completed"], Refused(r))
    /\ UNCHANGED <<status, redis, expired, rows, valid, harmed, faults>>

-----------------------------------------------------------------------------
\* EvidenceService.

\* queueEvidence
QueueEvidence(r, org) ==
    /\ req[r] = Idle /\ ~Duplicate(org)
    /\ req' = [req EXCEPT ![r] = [Idle EXCEPT !.at = "queue", !.op = "queue", !.read = org]]
    /\ UNCHANGED <<status, redis, expired, rows, evidence, valid, harmed, faults>>

CreateQueued(r) ==
    /\ req[r].at = "queue"
    /\ CreateItem(r, req[r].read, TRUE,
                  [Idle EXCEPT !.at = "load", !.op = "process", !.item = Len(evidence) + 1],
                  Idle)
    /\ UNCHANGED <<status, redis, expired, rows, valid, harmed, faults>>

\* retry and remove are for items in the queue, retry for unfinished ones.
RetryItem(r, i) ==
    /\ req[r] = Idle /\ evidence[i].status \notin {"gone", "completed"}
    /\ req' = [req EXCEPT ![r] = [Idle EXCEPT !.at = "retry", !.op = "process", !.item = i]]
    /\ UNCHANGED <<status, redis, expired, rows, evidence, valid, harmed, faults>>

RemoveItem(r, i) ==
    /\ req[r] = Idle /\ evidence[i].status # "gone"
    /\ req' = [req EXCEPT ![r] = [Idle EXCEPT !.op = "remove", !.item = i,
                                    !.at = IF evidence[i].key THEN "unstore" ELSE "unstage"]]
    /\ evidence' = [evidence EXCEPT ![i].doomed = TRUE]
    /\ UNCHANGED <<status, redis, expired, rows, valid, harmed, faults>>

Row(r) == evidence[req[r].item]

Gone == [org |-> Org, whole |-> TRUE, status |-> "gone", staged |-> FALSE,
         key |-> FALSE, stored |-> FALSE, doomed |-> TRUE]

\* An update of the item's row, which fails when the row is gone.
UpdateItem(r, at, row, next) ==
    /\ req[r].at = at
    /\ IF Row(r).status = "gone" THEN UNCHANGED evidence /\ Answer(r)
       ELSE /\ evidence' = [evidence EXCEPT ![req[r].item] = row]
            /\ IF next = "idle" THEN Answer(r) ELSE Goto(r, next)
    /\ UNCHANGED <<status, redis, expired, rows, valid, harmed, faults>>

Retry(r) == UpdateItem(r, "retry", [Row(r) EXCEPT !.status = "pending"], "load")

\* processUpload
LoadItem(r) ==
    /\ req[r].at = "load"
    /\ IF Row(r).status \in {"gone", "completed"} \/ Row(r).key THEN Answer(r)
       ELSE Goto(r, "uploading")
    /\ UNCHANGED <<status, redis, expired, rows, evidence, valid, harmed, faults>>

MarkUploading(r) ==
    UpdateItem(r, "uploading", [Row(r) EXCEPT !.status = "uploading"], "read")

\* The staging file is read and sent to the storage driver, under a new key.
StoreItem(r) ==
    /\ req[r].at = "read"
    /\ Goto(r, IF Row(r).staged THEN "stored" ELSE "failed")
    /\ UNCHANGED <<status, redis, expired, rows, evidence, valid, harmed, faults>>

\* The row gets the key, and only then does the staging file go.
BrokenAfterStored(row) ==
    [row EXCEPT !.status = "completed", !.staged = FALSE]

AfterStored(row) == [row EXCEPT !.status = "completed", !.key = TRUE, !.stored = TRUE]

MarkStored(r) == UpdateItem(r, "stored", AfterStored(Row(r)), "unstage")

Unstage(r) ==
    /\ req[r].at = "unstage"
    /\ evidence' = [evidence EXCEPT ![req[r].item].staged = FALSE]
    /\ IF req[r].op = "remove" THEN Goto(r, "delete") ELSE Answer(r)
    /\ UNCHANGED <<status, redis, expired, rows, valid, harmed, faults>>

MarkFailed(r) == UpdateItem(r, "failed", [Row(r) EXCEPT !.status = "failed"], "idle")

\* remove: the stored object, the staging file, the row.
Unstore(r) ==
    /\ req[r].at = "unstore"
    /\ evidence' = [evidence EXCEPT ![req[r].item].stored = FALSE]
    /\ Goto(r, "unstage")
    /\ UNCHANGED <<status, redis, expired, rows, valid, harmed, faults>>

DeleteItem(r) == UpdateItem(r, "delete", Gone, "idle")

-----------------------------------------------------------------------------
\* Faults.

\* A call fails, and with it the request.  processUpload catches an error of
\* the storage and of the row; an object or a file that cannot be deleted is
\* left behind; and of a chunk's parallel writes, the others go on.
AfterFailure(r) ==
    CASE req[r].at \in {"read", "stored"} -> [req[r] EXCEPT !.at = "failed"]
      [] req[r].op = "remove" /\ req[r].at = "unstore" -> [req[r] EXCEPT !.at = "unstage"]
      [] req[r].op = "remove" /\ req[r].at = "unstage" -> [req[r] EXCEPT !.at = "delete"]
      [] OTHER -> Idle

CallFails(r) ==
    /\ req[r].at \notin {"idle", "store"} /\ Fault
    /\ req' = [req EXCEPT ![r] = AfterFailure(r)]
    /\ UNCHANGED <<status, redis, expired, rows, evidence, valid, harmed>>

WriteFails(r, write) ==
    /\ Fault
    /\ Write(r, write, {})
    /\ harmed' = IF write = "bytes" THEN harmed \cup {Session(r)} ELSE harmed
    /\ UNCHANGED <<status, redis, expired, rows, evidence, valid>>

\* The server restarts; bytes not yet stored are gone.
ServerRestarts ==
    /\ \E r \in Requests : req[r] # Idle
    /\ Fault
    /\ req' = [r \in Requests |-> Idle]
    /\ harmed' = harmed \cup {Session(r) : r \in {q \in Requests : "bytes" \in req[q].left}}
    /\ UNCHANGED <<status, redis, expired, rows, evidence, valid>>

\* Redis comes back empty.
RedisRestarts ==
    /\ \E s \in Sessions : cached[s] # None \/ received[s] # {} \/ data[s] # {}
    /\ Fault
    /\ cached' = [s \in Sessions |-> None]
    /\ received' = [s \in Sessions |-> {}]
    /\ data' = [s \in Sessions |-> {}]
    /\ harmed' = Sessions
    /\ UNCHANGED <<status, expired, rows, evidence, req, valid>>

-----------------------------------------------------------------------------
Arriving(r) ==
    \/ \E s \in Sessions, i \in Chunks : Arrive(r, "upload", s, i)
    \/ \E s \in Sessions, op \in {"finalize", "status"} : Arrive(r, op, s, None)
    \/ \E org \in Orgs : QueueEvidence(r, org)
    \/ \E i \in DOMAIN evidence : RetryItem(r, i) \/ RemoveItem(r, i)

Handling(r) ==
    \/ GetSession(r) \/ FindSession(r) \/ CopySession(r)
    \/ MarkSession(r) \/ Uncache(r) \/ CleanupSession(r)
    \/ CheckChunk(r) \/ StoreBytes(r) \/ AddToSet(r) \/ UpsertChunk(r)
    \/ CountChunks(r) \/ Assemble(r) \/ FindDuplicate(r) \/ CreateEvidence(r)
    \/ CreateQueued(r) \/ Retry(r) \/ LoadItem(r) \/ MarkUploading(r)
    \/ StoreItem(r) \/ MarkStored(r) \/ Unstage(r) \/ MarkFailed(r)
    \/ Unstore(r) \/ DeleteItem(r)

Next ==
    \/ \E s \in Sessions : Create(s) \/ Expire(s)
    \/ \E r \in Requests :
        \/ Arriving(r) \/ Handling(r) \/ CallFails(r)
        \/ \E write \in {"bytes", "set", "row"} : WriteFails(r, write)
    \/ ServerRestarts
    \/ RedisRestarts

Spec == Init /\ [][Next]_vars

-----------------------------------------------------------------------------
TypeOK ==
    /\ status \in [Sessions -> Statuses \cup {"none"}]
    /\ cached \in [Sessions -> Statuses \cup {None}]
    /\ \A f \in {rows, received, data} : f \in [Sessions -> SUBSET Chunks]
    /\ \A i \in DOMAIN evidence :
        /\ evidence[i].org \in Orgs
        /\ evidence[i].status \in {"pending", "uploading", "completed", "failed", "gone"}
    /\ \A r \in Requests :
        /\ req[r].left \subseteq {"bytes", "set", "row"}
        /\ req[r].at = "store" <=> req[r].left # {}
        /\ req[r].item \in 0 .. Len(evidence)
    /\ valid \in BOOLEAN /\ harmed \subseteq Sessions /\ expired \subseteq Sessions
    /\ faults \in 0 .. MaxFaults

\* The file enters the evidence queue once, and whole: with finalizations that
\* overlap, in two organizations, and retried after a lost answer, and with
\* chunks that disappear from Redis in between.
EvidenceIsWholeAndUnique ==
    /\ \A i, j \in DOMAIN evidence :
        i # j => evidence[i].status = "gone" \/ evidence[j].status = "gone"
    /\ \A i \in DOMAIN evidence : evidence[i].whole

\* A session is completed only when the evidence is in the queue, wherever a
\* finalization was cut off.
CompletedHasEvidence ==
    \A s \in Sessions : status[s] = "completed" => evidence # <<>>

\* Clients resume from what is registered: the bytes of a registered chunk
\* are there, or on their way, as long as the session is open, unless a
\* write of them failed or Redis lost them.
RegisteredHasBytes ==
    \A s \in Sessions \ harmed :
        status[s] = "active" =>
            \A i \in Received(s) :
                \/ i \in data[s]
                \/ \E r \in Requests : Session(r) = s /\ req[r].chunk = i /\ "bytes" \in req[r].left

\* An item's bytes survive overlapping uploads, retries and failures: until it
\* is removed there is the staging file or the object that its row names.
BytesAreKept ==
    \A i \in DOMAIN evidence :
        evidence[i].status # "gone" /\ ~evidence[i].doomed
            => evidence[i].staged \/ (evidence[i].key /\ evidence[i].stored)

=============================================================================
