------------------------ MODULE EvidenceIntakeProofs ------------------------
(***************************************************************************)
(* What the evidence queue and the upload sessions guarantee for every     *)
(* number of sessions, chunks, organizations, requests, items and faults.  *)
(*                                                                         *)
(* A request acts on what it found some awaited calls ago.  The invariant  *)
(* says, for each place where a request may stand, what still holds of the *)
(* session or of the item that it goes on with.                            *)
(***************************************************************************)
EXTENDS EvidenceIntake, TLAPS

SessionAt ==
    {"get", "find", "copy", "mark", "uncache", "cleanup", "check", "store", "count",
     "assemble", "duplicate", "create"}

ItemAt ==
    {"retry", "load", "uploading", "read", "stored", "unstage", "failed", "unstore", "delete"}

Ops == {"none", "upload", "finalize", "status", "queue", "process", "remove"}

Places == {"idle", "queue"} \cup SessionAt \cup ItemAt

Reads == Statuses \cup Orgs \cup {"none", "whole", "part", None}

Ends == Statuses \cup {"none"}

Writes == SUBSET {"bytes", "set", "row"}

Request ==
    [at : Places, op : Ops, session : Sessions \cup {None}, chunk : Chunks \cup {None},
     read : Reads, left : Writes, end : Ends, item : Nat]

Item ==
    [org : Orgs, whole : BOOLEAN,
     status : {"pending", "uploading", "completed", "failed", "gone"},
     staged : BOOLEAN, key : BOOLEAN, stored : BOOLEAN, doomed : BOOLEAN]

Typed ==
    /\ status \in [Sessions -> Statuses \cup {"none"}]
    /\ cached \in [Sessions -> Statuses \cup {None}]
    /\ rows \in [Sessions -> SUBSET Chunks]
    /\ received \in [Sessions -> SUBSET Chunks]
    /\ data \in [Sessions -> SUBSET Chunks]
    /\ evidence \in Seq(Item)
    /\ req \in [Requests -> Request]
    /\ valid \in BOOLEAN /\ harmed \subseteq Sessions /\ expired \subseteq Sessions
    /\ faults \in 0 .. MaxFaults

\* A request that handles a session has one that exists; what it is about to
\* write to it is a status, and completed only once there is evidence.
SessionKnown(q) ==
    /\ q.at \in SessionAt => /\ q.session \in Sessions /\ status[q.session] # "none"
                             /\ q.op \in {"upload", "finalize", "status"}
                             /\ q.op = "upload" => q.chunk \in Chunks
    /\ q.at \in {"check", "store"} => q.op = "upload"
    /\ q.at = "store" <=> q.left # {}
    /\ q.at = "copy" => q.read \in Statuses
    /\ q.at = "mark" => /\ q.end \in Statuses \ {"active"}
                        /\ q.end = "completed" => evidence # <<>>
    /\ q.at \in {"uncache", "cleanup"} => status[q.session] # "active"

\* A chunk that is being registered is in Redis or on its way.
ChunkKept(q) ==
    q.at = "store" /\ q.session \notin harmed /\ status[q.session] = "active"
        => q.chunk \in data[q.session] \/ "bytes" \in q.left

\* A request that handles an item has one that exists; its staging file goes
\* only when the object is stored or the item is on its way out.
ItemKnown(q) ==
    /\ q.at \in ItemAt => q.item \in DOMAIN evidence
    /\ q.item \in 0 .. Len(evidence)
    /\ q.at = "queue" => q.read \in Orgs
    /\ q.op = "remove" => q.at \in {"unstore", "unstage", "delete"}
    /\ q.at \in {"duplicate", "create"} => q.read = "whole"
    /\ q.at = "unstage" =>
         evidence[q.item].doomed \/ (evidence[q.item].key /\ evidence[q.item].stored)
    /\ \/ q.at \in {"unstore", "delete"}
       \/ q.at = "unstage" /\ q.op = "remove"
       => evidence[q.item].doomed

Honest(q) == SessionKnown(q) /\ ChunkKept(q) /\ ItemKnown(q)

\* Where the requests stand.
Standing == {req[r] : r \in Requests}

AllHonest == \A q \in Standing : Honest(q)

\* A session that was not created has no chunks.
NewIsEmpty ==
    \A s \in Sessions : status[s] = "none" => rows[s] = {} /\ received[s] = {}

\* The bytes of every chunk registered anywhere are there or on their way, as
\* long as the session is open and unharmed.
AllRegisteredHaveBytes ==
    \A s \in Sessions \ harmed :
        status[s] = "active" =>
            \A i \in received[s] \cup rows[s] :
                \/ i \in data[s]
                \/ \E r \in Requests : /\ req[r].session = s /\ req[r].chunk = i
                                       /\ "bytes" \in req[r].left

ItemsInOrder == EvidenceIsWholeAndUnique /\ BytesAreKept

Inv ==
    /\ Typed
    /\ AllHonest
    /\ NewIsEmpty /\ AllRegisteredHaveBytes
    /\ ItemsInOrder /\ CompletedHasEvidence

-----------------------------------------------------------------------------
(* What a step leaves alone. *)

\* Sessions are not opened again, evidence does not disappear, and what is
\* doomed or stored stays so until it goes.
Onward ==
    /\ \A s \in Sessions :
        status[s] # "none" => /\ status'[s] # "none"
                              /\ status'[s] = "active" => status[s] = "active"
    /\ Len(evidence) <= Len(evidence')
    /\ \A i \in DOMAIN evidence :
        /\ evidence[i].doomed => evidence'[i].doomed
        /\ evidence[i].key /\ evidence[i].stored
             => evidence'[i].doomed \/ (evidence'[i].key /\ evidence'[i].stored)
    /\ harmed \subseteq harmed'
    /\ \A s \in Sessions :
        data[s] \subseteq data'[s] \/ s \in harmed' \/ status'[s] # "active"

\* A request that a step does not move stands as well as before.
LEMMA HonestStays ==
    ASSUME Typed, Typed', Onward, NEW q \in Request, Honest(q)
    PROVE  Honest(q)'
<1>1. DOMAIN evidence \subseteq DOMAIN evidence' /\ Len(evidence) \in Nat /\ Len(evidence') \in Nat
  BY DEF Typed, Onward
<1>2. evidence # <<>> => evidence' # <<>>
  BY <1>1 DEF Typed
<1>3. SessionKnown(q)'
  BY <1>2 DEF Honest, SessionKnown, Onward, SessionAt
<1>4. ChunkKept(q)'
  BY DEF Honest, SessionKnown, ChunkKept, Onward, SessionAt
<1>5. ItemKnown(q)'
  <2>1. q.item \in 0 .. Len(evidence')
    BY <1>1 DEF Honest, ItemKnown, Onward
  <2>2. q.at \in ItemAt => q.item \in DOMAIN evidence /\ q.item \in DOMAIN evidence'
    BY <1>1 DEF Honest, ItemKnown
  <2>3. q.at \in {"unstage", "unstore", "delete"} => q.item \in DOMAIN evidence
    BY <2>2 DEF ItemAt
  <2> QED
    BY <2>1, <2>2, <2>3 DEF Honest, ItemKnown, Onward
<1> QED
  BY <1>3, <1>4, <1>5 DEF Honest

\* An answered request is honest.
LEMMA IdleIsHonest ==
    ASSUME Typed
    PROVE  Idle \in Request /\ Honest(Idle)
<1>1. Idle \in Request
  BY DEF Idle, Request, Ops, Places, Reads, Writes, Ends
<1>2. SessionKnown(Idle) /\ ChunkKept(Idle)
  BY DEF SessionKnown, ChunkKept, Idle, SessionAt
<1>3. ItemKnown(Idle)
  BY DEF Typed, ItemKnown, Idle, ItemAt
<1> QED
  BY <1>1, <1>2, <1>3 DEF Honest

\* A step of one request leaves the others as honest as they were.
LEMMA RequestsStay ==
    ASSUME Typed, Typed', Onward, AllHonest, NEW r \in Requests, NEW q \in Request,
           req' = [req EXCEPT ![r] = q], Honest(q)'
    PROVE  AllHonest'
<1> SUFFICES ASSUME NEW p \in Standing' PROVE Honest(p)'
  BY DEF AllHonest
<1>1. PICK x \in Requests : p = req'[x]
  BY DEF Standing
<1>2. CASE x = r
  BY <1>1, <1>2 DEF Typed
<1>3. CASE x # r
  <2>1. p = req[x] /\ p \in Request
    BY <1>1, <1>3 DEF Typed
  <2>2. Honest(p)
    BY <2>1 DEF AllHonest, Standing
  <2> QED
    BY <2>1, <2>2, HonestStays
<1> QED
  BY <1>2, <1>3

LEMMA OneIsHonest ==
    ASSUME Inv, NEW r \in Requests
    PROVE  req[r] \in Request /\ Honest(req[r])
BY DEF Inv, Typed, AllHonest, Standing

\* A step that only moves a request, or the copies of sessions.
LEMMA QuietStep ==
    ASSUME Inv, NEW r \in Requests, NEW q \in Request, Honest(q),
           req' = [req EXCEPT ![r] = q], "bytes" \in req[r].left => q = req[r],
           cached' \in [Sessions -> Statuses \cup {None}], expired' \subseteq Sessions,
           faults' \in 0 .. MaxFaults,
           UNCHANGED <<status, rows, received, data, evidence, valid, harmed>>
    PROVE  Inv'
<1>1. Typed'
  BY DEF Inv, Typed
<1>2. Onward
  BY DEF Onward, Inv, Typed
<1>3. Honest(q)'
  BY <1>1, <1>2, HonestStays DEF Inv
<1>4. AllHonest'
  BY <1>1, <1>2, <1>3, RequestsStay DEF Inv
<1>5. NewIsEmpty' /\ ItemsInOrder' /\ CompletedHasEvidence'
  BY DEF Inv, NewIsEmpty, ItemsInOrder, EvidenceIsWholeAndUnique, BytesAreKept,
         CompletedHasEvidence
<1>6. AllRegisteredHaveBytes'
  BY DEF Inv, Typed, AllRegisteredHaveBytes
<1> QED
  BY <1>1, <1>4, <1>5, <1>6 DEF Inv

\* A request that goes on with the same session, chunk and item.
Moved(q, at, read, left, end) ==
    [q EXCEPT !.at = at, !.read = read, !.left = left, !.end = end]

LEMMA MovedFields ==
    ASSUME NEW q \in Request, NEW at \in Places, NEW read \in Reads, NEW left \in Writes, NEW end \in Ends,
           NEW m, m = Moved(q, at, read, left, end)
    PROVE  /\ m \in Request
           /\ m.at = at /\ m.read = read /\ m.left = left /\ m.end = end
           /\ m.op = q.op /\ m.session = q.session /\ m.chunk = q.chunk /\ m.item = q.item
BY DEF Moved, Request

\* Where a request that handles a session may go on from q.
Fits(q, at, read, left, end) ==
    /\ at = "store" <=> left # {}
    /\ at = "store" => "bytes" \in left
    /\ at \in {"check", "store"} => q.op = "upload"
    /\ at = "copy" => read \in Statuses
    /\ at \in {"duplicate", "create"} => read = "whole"
    /\ at = "mark" => /\ end # "active" /\ end # "none"
                      /\ end = "completed" => evidence # <<>>
    /\ at \in {"uncache", "cleanup"} => q.at \in {"uncache", "cleanup"}

\* A step within a request's handling of a session.
LEMMA SessionGoesOn ==
    ASSUME Inv, NEW r \in Requests, NEW q \in Request, q = req[r], q.at \in SessionAt \ {"store"},
           NEW at \in SessionAt, NEW read \in Reads, NEW left \in Writes, NEW end \in Ends,
           Fits(q, at, read, left, end),
           req' = [req EXCEPT ![r] = Moved(q, at, read, left, end)],
           cached' \in [Sessions -> Statuses \cup {None}],
           UNCHANGED <<status, expired, rows, received, data, evidence, valid, harmed, faults>>
    PROVE  Inv'
<1>m. PICK m : m = Moved(q, at, read, left, end)
  OBVIOUS
<1>1. Honest(q) /\ q.left = {} /\ Typed
  BY OneIsHonest DEF Honest, SessionKnown, SessionAt, Inv
<1>2. /\ m \in Request
      /\ m.at = at /\ m.read = read /\ m.left = left /\ m.end = end
      /\ m.op = q.op /\ m.session = q.session /\ m.chunk = q.chunk /\ m.item = q.item
  <2>1. at \in Places
    BY DEF Places
  <2> QED
    BY <1>m, <2>1, MovedFields
<1>3. SessionKnown(m)
  BY <1>1, <1>2 DEF SessionKnown, Honest, Ends, Fits
<1>4. ChunkKept(m)
  BY <1>2 DEF ChunkKept, Fits
<1>5. ItemKnown(m)
  BY <1>1, <1>2 DEF ItemKnown, Honest, SessionAt, ItemAt, Fits
<1>6. Honest(m) /\ req' = [req EXCEPT ![r] = m]
  BY <1>m, <1>3, <1>4, <1>5 DEF Honest
<1> QED
  BY <1>1, <1>2, <1>6, QuietStep DEF Typed

\* A request is answered.
LEMMA AnswerStep ==
    ASSUME Inv, NEW r \in Requests, Answer(r), "bytes" \notin req[r].left,
           cached' \in [Sessions -> Statuses \cup {None}], expired' \subseteq Sessions,
           faults' \in 0 .. MaxFaults,
           UNCHANGED <<status, rows, received, data, evidence, valid, harmed>>
    PROVE  Inv'
BY IdleIsHonest, QuietStep DEF Inv, Answer

\* The two ways in which the actions write where a request goes.
LEMMA GotoMoves ==
    ASSUME NEW q \in Request, NEW at
    PROVE  [q EXCEPT !.at = at] = Moved(q, at, q.read, q.left, q.end)
BY DEF Request, Moved

LEMMA EnterMoves ==
    ASSUME Inv, NEW r \in Requests, req[r].at \in {"get", "copy"}, Enter(r),
           cached' \in [Sessions -> Statuses \cup {None}],
           UNCHANGED <<status, expired, rows, received, data, evidence, valid, harmed, faults>>
    PROVE  Inv'
<1>q. PICK q \in Request : q = req[r] /\ Honest(q)
  BY OneIsHonest
<1>1. q.op \in {"upload", "finalize", "status"} /\ q.left = {} /\ Typed
  BY <1>q DEF Honest, SessionKnown, SessionAt, Inv
<1>2. q.read \in Reads /\ q.left \in Writes /\ q.end \in Ends /\ q.at \in SessionAt \ {"store"}
  BY <1>q DEF Request, SessionAt
<1>3. CASE q.op = "status"
  BY <1>q, <1>1, <1>3, AnswerStep DEF Enter, Typed
<1>4. CASE q.op \in {"upload", "finalize"}
  <2>1. PICK at \in {"check", "count"} :
            req' = [req EXCEPT ![r] = Moved(q, at, q.read, q.left, q.end)]
                /\ (at = "check" => q.op = "upload")
    BY <1>q, <1>4, GotoMoves DEF Enter, Goto
  <2>2. /\ at \in SessionAt
        /\ Fits(q, at, q.read, q.left, q.end)
    BY <1>1, <2>1 DEF SessionAt, Fits
  <2> QED
    BY <1>q, <1>1, <1>2, <2>1, <2>2, SessionGoesOn
<1> QED
  BY <1>1, <1>3, <1>4

\* The steps of a request that reads a session.
LEMMA SessionReads ==
    ASSUME UploadAssumption, Inv, NEW r \in Requests,
           \/ GetSession(r) \/ FindSession(r) \/ CopySession(r) \/ Uncache(r) \/ CheckChunk(r)
           \/ CountChunks(r) \/ Assemble(r) \/ FindDuplicate(r)
    PROVE  Inv'
<1>q. PICK q \in Request : q = req[r] /\ Honest(q)
  BY OneIsHonest
<1>0. q.at \in SessionAt \ {"store"} /\ q.left = {} /\ Typed
  BY <1>q DEF GetSession, FindSession, CopySession, Uncache, CheckChunk, CountChunks,
     Assemble, FindDuplicate, SessionAt, Honest, SessionKnown, Inv
<1>1. /\ q.read \in Reads /\ q.left \in Writes /\ q.end \in Ends
      /\ q.session \in Sessions /\ status[q.session] \in Statuses
  BY <1>q, <1>0 DEF Request, Honest, SessionKnown, Typed, Statuses
<1>2. cached \in [Sessions -> Statuses \cup {None}] /\ expired \subseteq Sessions
      /\ faults \in 0 .. MaxFaults
  BY <1>0 DEF Typed
<1>a. ASSUME Answer(r), cached' \in [Sessions -> Statuses \cup {None}],
             UNCHANGED <<status, expired, rows, received, data, evidence, valid, harmed, faults>>
      PROVE  Inv'
  BY <1>q, <1>0, <1>2, <1>a, AnswerStep
<1>g. ASSUME NEW at \in SessionAt, Goto(r, at), at \notin {"store", "copy", "mark"},
             at \in {"duplicate", "create"} => q.read = "whole",
             at \in {"uncache", "cleanup"} => q.at \in {"uncache", "cleanup"},
             at = "check" => q.op = "upload",
             cached' \in [Sessions -> Statuses \cup {None}],
             UNCHANGED <<status, expired, rows, received, data, evidence, valid, harmed, faults>>
      PROVE  Inv'
  <2>1. req' = [req EXCEPT ![r] = Moved(q, at, q.read, q.left, q.end)]
    BY <1>q, <1>g, GotoMoves DEF Goto
  <2>2. Fits(q, at, q.read, q.left, q.end)
    BY <1>0, <1>g DEF Fits
  <2> QED
    BY <1>q, <1>0, <1>1, <1>g, <2>1, <2>2, SessionGoesOn
<1>m. ASSUME NEW end \in Ends, req' = [req EXCEPT ![r] = Moved(q, "mark", q.read, q.left, end)],
             end # "active" /\ end # "none" /\ (end = "completed" => evidence # <<>>),
             cached' \in [Sessions -> Statuses \cup {None}],
             UNCHANGED <<status, expired, rows, received, data, evidence, valid, harmed, faults>>
      PROVE  Inv'
  <2>1. "mark" \in SessionAt /\ Fits(q, "mark", q.read, q.left, end)
    BY <1>0, <1>m DEF SessionAt, Fits
  <2> QED
    BY <1>q, <1>0, <1>1, <1>m, <2>1, SessionGoesOn
<1>3. CASE GetSession(r)
  <2>1. UNCHANGED <<status, redis, expired, rows, evidence, valid, harmed, faults>>
    BY <1>3 DEF GetSession
  <2>2. CASE Goto(r, "find")
    BY <1>1, <1>2, <1>g, <2>1, <2>2 DEF redis, SessionAt
  <2>3. CASE Enter(r)
    BY <1>2, <1>3, <2>1, <2>3, EnterMoves DEF GetSession, redis
  <2>4. CASE Answer(r)
    BY <1>2, <1>a, <2>1, <2>4 DEF redis
  <2> QED
    BY <1>3, <2>2, <2>3, <2>4 DEF GetSession
<1>4. CASE FindSession(r)
  <2>1. req' = [req EXCEPT ![r] = Moved(q, "copy", status[q.session], q.left, q.end)]
    BY <1>q, <1>4 DEF FindSession, Session, Moved, Request
  <2>2. "copy" \in SessionAt /\ status[q.session] \in Reads
        /\ Fits(q, "copy", status[q.session], q.left, q.end)
    BY <1>0, <1>1 DEF SessionAt, Reads, Fits
  <2>3. /\ cached' \in [Sessions -> Statuses \cup {None}]
        /\ UNCHANGED <<status, expired, rows, received, data, evidence, valid, harmed, faults>>
    BY <1>2, <1>4 DEF FindSession, redis
  <2> QED
    BY <1>q, <1>0, <1>1, <2>1, <2>2, <2>3, SessionGoesOn
<1>5. CASE CopySession(r)
  <2>1. /\ cached' \in [Sessions -> Statuses \cup {None}]
        /\ UNCHANGED <<status, expired, rows, received, data, evidence, valid, harmed, faults>>
    <3>1. q.read \in Statuses
      BY <1>q, <1>5 DEF CopySession, Honest, SessionKnown
    <3> QED
      BY <1>q, <1>1, <1>2, <1>5, <3>1 DEF CopySession, Session
  <2>2. CASE Enter(r)
    BY <1>5, <2>1, <2>2, EnterMoves DEF CopySession
  <2>3. CASE Answer(r)
    BY <1>a, <2>1, <2>3
  <2>4. CASE req' = [req EXCEPT ![r].at = "mark", ![r].end = "expired"]
    <3>1. req' = [req EXCEPT ![r] = Moved(q, "mark", q.read, q.left, "expired")]
      BY <1>q, <2>4 DEF Moved, Request
    <3> QED
      BY <1>m, <2>1, <3>1 DEF Ends, Statuses
  <2> QED
    BY <1>5, <2>2, <2>3, <2>4 DEF CopySession
<1>6. CASE Uncache(r)
  <2>1. /\ cached' \in [Sessions -> Statuses \cup {None}]
        /\ UNCHANGED <<status, expired, rows, received, data, evidence, valid, harmed, faults>>
    BY <1>2, <1>6 DEF Uncache
  <2> QED
    BY <1>q, <1>6, <1>a, <1>g, <2>1 DEF Uncache, SessionAt
<1>7. CASE CheckChunk(r)
  <2>1. UNCHANGED <<status, redis, expired, rows, evidence, valid, harmed, faults>>
    BY <1>7 DEF CheckChunk
  <2>2. CASE req' = [req EXCEPT ![r].at = "store", ![r].left = {"bytes", "set"}]
    <3>1. req' = [req EXCEPT ![r] = Moved(q, "store", q.read, {"bytes", "set"}, q.end)]
      BY <1>q, <2>2 DEF Moved, Request
    <3>2. "store" \in SessionAt /\ {"bytes", "set"} \in Writes
          /\ Fits(q, "store", q.read, {"bytes", "set"}, q.end)
      BY <1>q, <1>7 DEF SessionAt, Writes, CheckChunk, Honest, SessionKnown, Fits
    <3>3. /\ cached' \in [Sessions -> Statuses \cup {None}]
          /\ UNCHANGED <<status, expired, rows, received, data, evidence, valid, harmed, faults>>
      BY <1>2, <2>1 DEF redis
    <3> QED
      BY <1>q, <1>0, <1>1, <3>1, <3>2, <3>3, SessionGoesOn
  <2> QED
    BY <1>2, <1>7, <1>a, <2>1, <2>2 DEF CheckChunk, redis
<1>8. CASE CountChunks(r)
  BY <1>2, <1>8, <1>a, <1>g DEF CountChunks, redis, SessionAt
<1>9. CASE Assemble(r)
  <2>1. UNCHANGED <<status, redis, expired, rows, evidence, valid, harmed, faults>>
    BY <1>9 DEF Assemble
  <2>2. CASE Answer(r)
    BY <1>2, <1>a, <2>1, <2>2 DEF redis
  <2>3. CASE req' = [req EXCEPT ![r].at = "duplicate", ![r].read = "whole"]
    <3>1. req' = [req EXCEPT ![r] = Moved(q, "duplicate", "whole", q.left, q.end)]
      BY <1>q, <2>3 DEF Moved, Request
    <3>2. "duplicate" \in SessionAt /\ "whole" \in Reads
          /\ Fits(q, "duplicate", "whole", q.left, q.end)
      BY <1>0 DEF SessionAt, Reads, Fits
    <3>3. /\ cached' \in [Sessions -> Statuses \cup {None}]
          /\ UNCHANGED <<status, expired, rows, received, data, evidence, valid, harmed, faults>>
      BY <1>2, <2>1 DEF redis
    <3> QED
      BY <1>q, <1>0, <1>1, <3>1, <3>2, <3>3, SessionGoesOn
  <2>4. CASE req' = [req EXCEPT ![r].at = "mark", ![r].end = "aborted"]
    <3>1. req' = [req EXCEPT ![r] = Moved(q, "mark", q.read, q.left, "aborted")]
      BY <1>q, <2>4 DEF Moved, Request
    <3> QED
      BY <1>2, <1>m, <2>1, <3>1 DEF Ends, Statuses, redis
  <2> QED
    BY <1>9, <2>2, <2>3, <2>4 DEF Assemble, Assembles
<1>10. CASE FindDuplicate(r)
  <2>1. UNCHANGED <<status, redis, expired, rows, evidence, valid, harmed, faults>>
    BY <1>10 DEF FindDuplicate
  <2>2. CASE Duplicate(Org)
    <3>1. req' = [req EXCEPT ![r] = Moved(q, "mark", q.read, q.left, "completed")]
      BY <1>q, <1>10, <2>2 DEF FindDuplicate, Moved, Request
    <3>2. evidence # <<>>
      BY <2>2 DEF Duplicate
    <3> QED
      BY <1>2, <1>m, <2>1, <3>1, <3>2 DEF Ends, Statuses, redis
  <2>3. CASE ~Duplicate(Org)
    <3>1. Goto(r, "create") /\ q.read = "whole"
      BY <1>q, <1>10, <2>3 DEF FindDuplicate, Honest, ItemKnown
    <3> QED
      BY <1>2, <1>g, <2>1, <3>1 DEF redis, SessionAt
  <2> QED
    BY <2>2, <2>3
<1> QED
  BY <1>3, <1>4, <1>5, <1>6, <1>7, <1>8, <1>9, <1>10

\* A request that handles an item goes on to another place.
LEMMA ItemMovedIsHonest ==
    ASSUME Inv, NEW q \in Request, Honest(q), q.at \in ItemAt, NEW at \in ItemAt,
           at = "unstage" => evidence[q.item].doomed,
           at \in {"unstore", "delete"} => evidence[q.item].doomed,
           q.op = "remove" => at \in {"unstore", "unstage", "delete"}
    PROVE  /\ [q EXCEPT !.at = at] \in Request
           /\ Honest([q EXCEPT !.at = at])
<1>m. PICK m : m = [q EXCEPT !.at = at]
  OBVIOUS
<1>1. /\ m \in Request
      /\ m.at = at /\ m.read = q.read /\ m.left = q.left /\ m.end = q.end
      /\ m.op = q.op /\ m.session = q.session /\ m.chunk = q.chunk /\ m.item = q.item
  BY <1>m DEF Request, Places
<1>2. SessionKnown(m)
  BY <1>1 DEF Honest, SessionKnown, SessionAt, ItemAt
<1>3. ChunkKept(m)
  BY <1>1 DEF ChunkKept, ItemAt
<1>4. ItemKnown(m)
  BY <1>1 DEF Honest, ItemKnown, ItemAt
<1> QED
  BY <1>m, <1>1, <1>2, <1>3, <1>4 DEF Honest

LEMMA ItemReads ==
    ASSUME UploadAssumption, Inv, NEW r \in Requests, LoadItem(r) \/ StoreItem(r) \/ CallFails(r)
    PROVE  Inv'
<1>q. PICK q \in Request : q = req[r] /\ Honest(q)
  BY OneIsHonest
<1>0. /\ "bytes" \notin q.left /\ Typed /\ cached' = cached /\ expired' = expired
      /\ faults' \in 0 .. MaxFaults
      /\ UNCHANGED <<status, rows, received, data, evidence, valid, harmed>>
  BY <1>q DEF LoadItem, StoreItem, CallFails, Honest, SessionKnown, Inv, Typed, redis, Fault,
     UploadAssumption
<1>1. ASSUME q.at \in ItemAt, NEW at \in ItemAt,
             at \in {"unstage", "unstore", "delete"} => evidence[q.item].doomed,
             q.op = "remove" => at \in {"unstage", "unstore", "delete"},
             req' = [req EXCEPT ![r] = [q EXCEPT !.at = at]]
      PROVE  Inv'
  <2>1. PICK m : m = [q EXCEPT !.at = at]
    OBVIOUS
  <2>2. m \in Request /\ Honest(m)
    BY <1>q, <1>1, <2>1, ItemMovedIsHonest
  <2> QED
    BY <1>q, <1>0, <1>1, <2>1, <2>2, QuietStep DEF Typed
<1>2. CASE Answer(r)
  BY <1>q, <1>0, <1>2, AnswerStep DEF Typed
<1>3. CASE LoadItem(r) /\ ~Answer(r)
  <2>1. q.op # "remove"
    BY <1>q, <1>3 DEF LoadItem, Honest, ItemKnown
  <2> QED
    BY <1>q, <1>1, <1>3, <2>1 DEF LoadItem, Goto, ItemAt
<1>4. CASE StoreItem(r)
  <2>1. q.op # "remove"
    BY <1>q, <1>4 DEF StoreItem, Honest, ItemKnown
  <2> QED
    BY <1>q, <1>1, <1>4, <2>1 DEF StoreItem, Goto, ItemAt
<1>5. CASE CallFails(r) /\ ~Answer(r)
  <2>1. PICK at \in {"failed", "unstage", "delete"} :
            /\ req' = [req EXCEPT ![r] = [q EXCEPT !.at = at]]
            /\ at = "failed" => q.at \in {"read", "stored"}
            /\ at = "unstage" => q.at = "unstore"
            /\ at = "delete" => q.at = "unstage" /\ q.op = "remove"
    BY <1>q, <1>5 DEF CallFails, AfterFailure, Answer
  <2>2. q.at \in ItemAt /\ at \in ItemAt
    BY <2>1 DEF ItemAt
  <2>3. /\ at \in {"unstage", "unstore", "delete"} => evidence[q.item].doomed
        /\ q.op = "remove" => at \in {"unstage", "unstore", "delete"}
    BY <1>q, <2>1 DEF Honest, ItemKnown
  <2> QED
    BY <1>1, <2>1, <2>2, <2>3
<1> QED
  BY <1>2, <1>3, <1>4, <1>5

\* A request arrives at the server.
LEMMA ArrivalStep ==
    ASSUME UploadAssumption, Inv, NEW r \in Requests,
           \/ \E s \in Sessions, i \in Chunks : Arrive(r, "upload", s, i)
           \/ \E s \in Sessions, op \in {"finalize", "status"} : Arrive(r, op, s, None)
           \/ \E org \in Orgs : QueueEvidence(r, org)
           \/ \E i \in DOMAIN evidence : RetryItem(r, i)
    PROVE  Inv'
<1>0. Typed /\ req[r] = Idle /\ "bytes" \notin req[r].left
      /\ cached' = cached /\ expired' = expired /\ faults' = faults
      /\ UNCHANGED <<status, rows, received, data, evidence, valid, harmed>>
  <2>1. req[r] = Idle /\ UNCHANGED <<status, redis, expired, rows, evidence, valid, harmed, faults>>
    BY DEF Arrive, QueueEvidence, RetryItem
  <2> QED
    BY <2>1 DEF Inv, Idle, redis
<1>1. PICK q : req' = [req EXCEPT ![r] = q] /\
          \/ \E s \in Sessions, i \in Chunks \cup {None}, op \in {"upload", "finalize", "status"} :
                /\ status[s] # "none" /\ (op = "upload" => i \in Chunks)
                /\ q = [Idle EXCEPT !.at = "get", !.op = op, !.session = s, !.chunk = i]
          \/ \E org \in Orgs : q = [Idle EXCEPT !.at = "queue", !.op = "queue", !.read = org]
          \/ \E i \in DOMAIN evidence :
                q = [Idle EXCEPT !.at = "retry", !.op = "process", !.item = i]
  <2>1. CASE \E s \in Sessions, i \in Chunks : Arrive(r, "upload", s, i)
    <3>1. PICK s \in Sessions, i \in Chunks : Arrive(r, "upload", s, i)
      BY <2>1
    <3>2. i \in Chunks \cup {None} /\ "upload" \in {"upload", "finalize", "status"}
      OBVIOUS
    <3>3. PICK n : n = [Idle EXCEPT !.at = "get", !.op = "upload", !.session = s, !.chunk = i]
      OBVIOUS
    <3>4. req' = [req EXCEPT ![r] = n] /\ status[s] # "none"
      BY <3>1, <3>3 DEF Arrive
    <3> QED
      BY <3>2, <3>3, <3>4
  <2>2. CASE \E s \in Sessions, op \in {"finalize", "status"} : Arrive(r, op, s, None)
    <3>1. PICK s \in Sessions, op \in {"finalize", "status"} : Arrive(r, op, s, None)
      BY <2>2
    <3>2. op \in {"upload", "finalize", "status"} /\ op # "upload"
      OBVIOUS
    <3> QED
      BY <3>1, <3>2 DEF Arrive
  <2>3. CASE \E org \in Orgs : QueueEvidence(r, org)
    BY <2>3 DEF QueueEvidence
  <2>4. CASE \E i \in DOMAIN evidence : RetryItem(r, i)
    BY <2>4 DEF RetryItem
  <2> QED
    BY <2>1, <2>2, <2>3, <2>4
<1>2. q \in Request /\ Honest(q)
  <2>1. CASE \E s \in Sessions, i \in Chunks \cup {None}, op \in {"upload", "finalize", "status"} :
                /\ status[s] # "none" /\ (op = "upload" => i \in Chunks)
                /\ q = [Idle EXCEPT !.at = "get", !.op = op, !.session = s, !.chunk = i]
    <3>1. PICK s \in Sessions, i \in Chunks \cup {None}, op \in {"upload", "finalize", "status"} :
                /\ status[s] # "none" /\ (op = "upload" => i \in Chunks)
                /\ q = [Idle EXCEPT !.at = "get", !.op = op, !.session = s, !.chunk = i]
      BY <2>1
    <3>2. q = [at |-> "get", op |-> op, session |-> s, chunk |-> i, read |-> None,
               left |-> {}, end |-> "none", item |-> 0]
      BY <3>1 DEF Idle
    <3>3. q \in Request
      BY <3>2 DEF Request, Places, SessionAt, Ops, Reads, Writes, Ends
    <3>a. /\ q.at = "get" /\ q.op = op /\ q.session = s /\ q.chunk = i /\ q.left = {}
      BY <3>2
    <3>4. SessionKnown(q) /\ ChunkKept(q)
      BY <3>1, <3>a DEF SessionKnown, ChunkKept
    <3>5. ItemKnown(q)
      BY <1>0, <3>2 DEF Typed, ItemKnown, ItemAt
    <3> QED
      BY <3>3, <3>4, <3>5 DEF Honest
  <2>2. CASE \E org \in Orgs : q = [Idle EXCEPT !.at = "queue", !.op = "queue", !.read = org]
    <3>1. PICK org \in Orgs :
             q = [at |-> "queue", op |-> "queue", session |-> None, chunk |-> None, read |-> org,
                  left |-> {}, end |-> "none", item |-> 0]
      BY <2>2 DEF Idle
    <3>2. q \in Request
      BY <3>1 DEF Request, Places, Ops, Reads, Writes, Ends
    <3>3. SessionKnown(q) /\ ChunkKept(q)
      BY <3>1 DEF SessionKnown, ChunkKept, SessionAt
    <3>4. ItemKnown(q)
      BY <1>0, <3>1 DEF Typed, ItemKnown, ItemAt
    <3> QED
      BY <3>2, <3>3, <3>4 DEF Honest
  <2>3. CASE \E i \in DOMAIN evidence :
                q = [Idle EXCEPT !.at = "retry", !.op = "process", !.item = i]
    <3>1. PICK i \in DOMAIN evidence :
             q = [at |-> "retry", op |-> "process", session |-> None, chunk |-> None,
                  read |-> None, left |-> {}, end |-> "none", item |-> i]
      BY <2>3 DEF Idle
    <3>2. q \in Request
      BY <1>0, <3>1 DEF Request, Places, ItemAt, Ops, Reads, Writes, Ends, Typed
    <3>3. SessionKnown(q) /\ ChunkKept(q)
      BY <3>1 DEF SessionKnown, ChunkKept, SessionAt
    <3>4. ItemKnown(q)
      BY <1>0, <3>1 DEF Typed, ItemKnown, ItemAt
    <3> QED
      BY <3>2, <3>3, <3>4 DEF Honest
  <2> QED
    BY <1>1, <2>1, <2>2, <2>3
<1> QED
  BY <1>0, <1>1, <1>2, QuietStep DEF Typed

\* A step that writes the queue of evidence and moves a request.
LEMMA EvidenceStep ==
    ASSUME Inv, NEW r \in Requests, NEW q \in Request, req' = [req EXCEPT ![r] = q],
           "bytes" \notin req[r].left, evidence' \in Seq(Item), Onward, Honest(q)',
           ItemsInOrder', UNCHANGED <<status, redis, expired, rows, valid, harmed, faults>>
    PROVE  Inv'
<1>1. Typed'
  BY DEF Inv, Typed, redis
<1>2. AllHonest'
  BY <1>1, RequestsStay DEF Inv
<1>3. NewIsEmpty'
  BY DEF Inv, NewIsEmpty, redis
<1>4. CompletedHasEvidence'
  <2>1. evidence # <<>> => evidence' # <<>>
    BY <1>1 DEF Onward, Inv, Typed
  <2> QED
    BY <2>1 DEF Inv, CompletedHasEvidence
<1>5. AllRegisteredHaveBytes'
  BY DEF Inv, Typed, AllRegisteredHaveBytes, redis
<1> QED
  BY <1>1, <1>2, <1>3, <1>4, <1>5 DEF Inv

\* What a write to an item's row x may do to it.
Improves(x, y) ==
    /\ y.whole
    /\ x.status = "gone" => y.status = "gone"
    /\ x.doomed => y.doomed
    /\ x.key /\ x.stored => y.doomed \/ (y.key /\ y.stored)
    /\ y.status # "gone" /\ ~y.doomed => y.staged \/ (y.key /\ y.stored)

LEMMA RowStep ==
    ASSUME Inv, NEW i \in DOMAIN evidence, NEW y \in Item, Improves(evidence[i], y),
           evidence' = [evidence EXCEPT ![i] = y], UNCHANGED <<status, data, harmed>>
    PROVE  evidence' \in Seq(Item) /\ Onward /\ ItemsInOrder'
<1>1. evidence \in Seq(Item)
  BY DEF Inv, Typed
<1>2. /\ evidence' \in Seq(Item) /\ Len(evidence') = Len(evidence)
      /\ DOMAIN evidence' = DOMAIN evidence
      /\ \A j \in DOMAIN evidence : evidence'[j] = IF j = i THEN y ELSE evidence[j]
  BY <1>1
<1>3. Onward
  BY <1>1, <1>2 DEF Onward, Improves
<1>4. EvidenceIsWholeAndUnique'
  BY <1>2 DEF Inv, ItemsInOrder, EvidenceIsWholeAndUnique, Improves
<1>5. BytesAreKept'
  BY <1>2 DEF Inv, ItemsInOrder, BytesAreKept, Improves
<1> QED
  BY <1>2, <1>3, <1>4, <1>5 DEF ItemsInOrder

\* A new row, which only a queue with no row left takes.
LEMMA NewRowStep ==
    ASSUME Inv, FileHashUnique, NEW x \in Item, x.whole, x.staged,
           evidence' = Append(evidence, x), UNCHANGED <<status, data, harmed>>
    PROVE  /\ evidence' \in Seq(Item) /\ Onward /\ ItemsInOrder'
           /\ evidence' # <<>> /\ Len(evidence') = Len(evidence) + 1
           /\ DOMAIN evidence' = 1 .. Len(evidence')
<1>1. evidence \in Seq(Item)
  BY DEF Inv, Typed
<1>2. /\ evidence' \in Seq(Item) /\ Len(evidence') = Len(evidence) + 1
      /\ evidence' # <<>> /\ DOMAIN evidence' = 1 .. Len(evidence')
      /\ DOMAIN evidence = 1 .. Len(evidence) /\ Len(evidence) \in Nat
      /\ \A j \in DOMAIN evidence : evidence'[j] = evidence[j]
      /\ evidence'[Len(evidence) + 1] = x
  BY <1>1
<1>3. Onward
  BY <1>2 DEF Onward
<1>4. EvidenceIsWholeAndUnique'
  BY <1>2 DEF Inv, ItemsInOrder, EvidenceIsWholeAndUnique, FileHashUnique
<1>5. BytesAreKept'
  BY <1>2 DEF Inv, ItemsInOrder, BytesAreKept
<1> QED
  BY <1>2, <1>3, <1>4, <1>5 DEF ItemsInOrder

NewRow(org, whole) ==
    [org |-> org, whole |-> whole, status |-> "pending", staged |-> TRUE, key |-> FALSE,
     stored |-> FALSE, doomed |-> FALSE]

\* The two creations of a row.
LEMMA CreationStep ==
    ASSUME UploadAssumption, Inv, NEW r \in Requests, CreateEvidence(r) \/ CreateQueued(r)
    PROVE  Inv'
<1>q. PICK q \in Request : q = req[r] /\ Honest(q)
  BY OneIsHonest
<1>0. /\ Typed /\ "bytes" \notin req[r].left
      /\ UNCHANGED <<status, redis, expired, rows, valid, harmed, faults>>
  BY <1>q DEF CreateEvidence, CreateQueued, Honest, SessionKnown, Inv
<1>1. CASE ~FileHashUnique
  <2>1. Answer(r) /\ UNCHANGED evidence
    BY <1>1 DEF CreateEvidence, CreateQueued, CreateItem, Refused, Answer
  <2> QED
    BY <1>0, <2>1, AnswerStep DEF Typed, redis
<1>2. CASE FileHashUnique
  <2>1. ASSUME NEW org \in Orgs, evidence' = Append(evidence, NewRow(org, TRUE))
        PROVE  /\ evidence' \in Seq(Item) /\ Onward /\ ItemsInOrder'
               /\ evidence' # <<>> /\ Len(evidence') = Len(evidence) + 1
               /\ DOMAIN evidence' = 1 .. Len(evidence')
    <3>1. NewRow(org, TRUE) \in Item
      BY DEF NewRow, Item
    <3>2. NewRow(org, TRUE).whole /\ NewRow(org, TRUE).staged
      BY DEF NewRow
    <3> QED
      BY <1>0, <1>2, <2>1, <3>1, <3>2, NewRowStep DEF redis
  <2>2. CASE CreateEvidence(r)
    <3>1. /\ evidence' = Append(evidence, NewRow(Org, TRUE))
          /\ req' = [req EXCEPT ![r] = [q EXCEPT !.at = "mark", !.end = "completed"]]
          /\ q.at = "create"
      BY <1>q, <1>2, <2>2 DEF CreateEvidence, CreateItem, NewRow, Honest, ItemKnown
    <3>2. PICK m : m = [q EXCEPT !.at = "mark", !.end = "completed"]
      OBVIOUS
    <3>3. /\ m \in Request
          /\ m.at = "mark" /\ m.read = q.read /\ m.left = q.left /\ m.end = "completed"
          /\ m.op = q.op /\ m.session = q.session /\ m.chunk = q.chunk /\ m.item = q.item
      BY <3>2 DEF Request, Places, SessionAt, Ends, Statuses
    <3>4. /\ evidence' \in Seq(Item) /\ Onward /\ ItemsInOrder'
          /\ evidence' # <<>> /\ Len(evidence') = Len(evidence) + 1
      BY <2>1, <3>1 DEF UploadAssumption
    <3>5. SessionKnown(m)'
      BY <1>q, <1>0, <3>1, <3>3, <3>4 DEF Honest, SessionKnown, SessionAt, Statuses
    <3>6. ChunkKept(m)'
      BY <3>3 DEF ChunkKept
    <3>7. ItemKnown(m)'
      <4>1. q.op # "remove"
        BY <1>q, <3>1 DEF Honest, SessionKnown, SessionAt
      <4> QED
        BY <1>q, <1>0, <3>3, <3>4, <4>1 DEF Honest, ItemKnown, ItemAt, Typed
    <3> QED
      BY <1>0, <3>1, <3>2, <3>3, <3>4, <3>5, <3>6, <3>7, EvidenceStep DEF Honest
  <2>3. CASE CreateQueued(r)
    <3>1. /\ evidence' = Append(evidence, NewRow(q.read, TRUE)) /\ q.read \in Orgs
          /\ req' = [req EXCEPT ![r] =
                       [Idle EXCEPT !.at = "load", !.op = "process", !.item = Len(evidence) + 1]]
      BY <1>q, <1>2, <2>3 DEF CreateQueued, CreateItem, NewRow, Honest, ItemKnown
    <3>a. PICK n : n = Len(evidence) + 1
      OBVIOUS
    <3>2. PICK m : m = [Idle EXCEPT !.at = "load", !.op = "process", !.item = n]
      OBVIOUS
    <3>3. /\ req' = [req EXCEPT ![r] = m]
          /\ m = [at |-> "load", op |-> "process", session |-> None, chunk |-> None,
                  read |-> None, left |-> {}, end |-> "none", item |-> n]
      BY <3>1, <3>a, <3>2 DEF Idle
    <3>4. /\ evidence' \in Seq(Item) /\ Onward /\ ItemsInOrder'
          /\ evidence' # <<>> /\ Len(evidence') = Len(evidence) + 1
          /\ DOMAIN evidence' = 1 .. Len(evidence')
      BY <2>1, <3>1
    <3>5. n \in Nat /\ Len(evidence') \in Nat /\ m.item \in 1 .. Len(evidence')
      BY <1>0, <3>a, <3>3, <3>4 DEF Typed
    <3>6. m \in Request
      BY <3>3, <3>5 DEF Request, Places, ItemAt, Ops, Reads, Writes, Ends
    <3>7. SessionKnown(m)' /\ ChunkKept(m)'
      BY <3>3 DEF SessionKnown, ChunkKept, SessionAt
    <3>8. ItemKnown(m)'
      BY <3>3, <3>4, <3>5 DEF ItemKnown, ItemAt
    <3> QED
      BY <1>0, <3>3, <3>4, <3>6, <3>7, <3>8, EvidenceStep DEF Honest
  <2> QED
    BY <2>2, <2>3
<1> QED
  BY <1>1, <1>2

\* The steps that write an item's row: a request of the queue, or remove.
LEMMA RowChanges ==
    ASSUME Inv, NEW r \in Requests, NEW q \in Request, q = req[r], Honest(q), q.at \in ItemAt,
           NEW y \in Item, Improves(evidence[q.item], y),
           evidence' = [evidence EXCEPT ![q.item] = y],
           NEW at \in ItemAt \cup {"idle"},
           \/ at = "idle" /\ Answer(r)
           \/ at # "idle" /\ req' = [req EXCEPT ![r] = [q EXCEPT !.at = at]],
           at = "unstage" => y.doomed \/ (y.key /\ y.stored),
           at = "unstage" /\ q.op = "remove" => y.doomed,
           at \in {"unstore", "delete"} => y.doomed,
           q.op = "remove" => at \in {"idle", "unstore", "unstage", "delete"},
           UNCHANGED <<status, redis, expired, rows, valid, harmed, faults>>
    PROVE  Inv'
<1>1. Typed /\ q.item \in DOMAIN evidence /\ evidence \in Seq(Item)
      /\ q.left = {} /\ "bytes" \notin req[r].left
  BY DEF Inv, Typed, Honest, SessionKnown, ItemKnown, ItemAt
<1>2. evidence' \in Seq(Item) /\ Onward /\ ItemsInOrder'
  BY <1>1, RowStep DEF redis
<1>3. PICK m : req' = [req EXCEPT ![r] = m] /\
          \/ at = "idle" /\ m = Idle
          \/ at # "idle" /\ m = [q EXCEPT !.at = at]
  BY DEF Answer
<1>4. Typed'
  <2>1. m \in Request
    BY <1>1, <1>3, IdleIsHonest DEF Request, Places
  <2> QED
    BY <1>1, <1>2, <1>3, <2>1 DEF Typed, redis
<1>5. m \in Request /\ Honest(m)'
  <2>1. CASE at = "idle"
    BY <1>1, <1>2, <1>3, <1>4, <2>1, IdleIsHonest, HonestStays
  <2>2. CASE at # "idle"
    <3>1. /\ m \in Request
          /\ m.at = at /\ m.read = q.read /\ m.left = q.left /\ m.end = q.end
          /\ m.op = q.op /\ m.session = q.session /\ m.chunk = q.chunk /\ m.item = q.item
      BY <1>3, <2>2 DEF Request, Places
    <3>2. SessionKnown(m)' /\ ChunkKept(m)'
      BY <1>1, <2>2, <3>1 DEF SessionKnown, ChunkKept, SessionAt, ItemAt
    <3>3. DOMAIN evidence' = DOMAIN evidence /\ Len(evidence') = Len(evidence)
          /\ evidence'[q.item] = y
      BY <1>1
    <3>4. ItemKnown(m)'
      BY <1>1, <2>2, <3>1, <3>3 DEF Honest, ItemKnown, ItemAt
    <3> QED
      BY <3>1, <3>2, <3>4 DEF Honest
  <2> QED
    BY <2>1, <2>2
<1> QED
  BY <1>1, <1>2, <1>3, <1>5, EvidenceStep

\* A write that the row of an item may take: the types and the promise.
LEMMA RowWrites ==
    ASSUME UploadAssumption, NEW x \in Item, x.whole, x.status # "gone" /\ ~x.doomed =>
             x.staged \/ (x.key /\ x.stored)
    PROVE  /\ \A st \in {"pending", "uploading", "failed"} :
                x.status # "gone" =>
                  [x EXCEPT !.status = st] \in Item /\ Improves(x, [x EXCEPT !.status = st])
           /\ x.status # "gone" => AfterStored(x) \in Item /\ Improves(x, AfterStored(x))
           /\ Gone \in Item /\ Improves(x, Gone)
           /\ x.doomed \/ (x.key /\ x.stored) =>
                [x EXCEPT !.staged = FALSE] \in Item /\ Improves(x, [x EXCEPT !.staged = FALSE])
           /\ x.doomed =>
                [x EXCEPT !.stored = FALSE] \in Item /\ Improves(x, [x EXCEPT !.stored = FALSE])
           /\ [x EXCEPT !.doomed = TRUE] \in Item /\ Improves(x, [x EXCEPT !.doomed = TRUE])
<1>1. ASSUME NEW st \in {"pending", "uploading", "failed"}, x.status # "gone"
      PROVE  [x EXCEPT !.status = st] \in Item /\ Improves(x, [x EXCEPT !.status = st])
  BY <1>1 DEF Item, Improves
<1>2. x.status # "gone" => AfterStored(x) \in Item /\ Improves(x, AfterStored(x))
  BY DEF Item, Improves, AfterStored
<1>3. Gone \in Item /\ Improves(x, Gone)
  BY DEF Item, Improves, Gone, UploadAssumption
<1>4. x.doomed \/ (x.key /\ x.stored) =>
        [x EXCEPT !.staged = FALSE] \in Item /\ Improves(x, [x EXCEPT !.staged = FALSE])
  BY DEF Item, Improves
<1>5. x.doomed =>
        [x EXCEPT !.stored = FALSE] \in Item /\ Improves(x, [x EXCEPT !.stored = FALSE])
  BY DEF Item, Improves
<1>6. [x EXCEPT !.doomed = TRUE] \in Item /\ Improves(x, [x EXCEPT !.doomed = TRUE])
  BY DEF Item, Improves
<1> QED
  BY <1>1, <1>2, <1>3, <1>4, <1>5, <1>6

LEMMA ItemWrites ==
    ASSUME UploadAssumption, Inv, NEW r \in Requests,
           \/ Retry(r) \/ MarkUploading(r) \/ MarkStored(r) \/ MarkFailed(r) \/ DeleteItem(r)
           \/ Unstage(r) \/ Unstore(r)
    PROVE  Inv'
<1>q. PICK q \in Request : q = req[r] /\ Honest(q)
  BY OneIsHonest
<1>p. q.at \in ItemAt
  BY <1>q DEF Retry, MarkUploading, MarkStored, MarkFailed, DeleteItem, Unstage, Unstore,
     UpdateItem, ItemAt
<1>x. PICK x : x = evidence[q.item]
  OBVIOUS
<1>0. /\ Typed /\ q.item \in DOMAIN evidence /\ "bytes" \notin req[r].left
      /\ x \in Item /\ x.whole
      /\ x.status # "gone" /\ ~x.doomed => x.staged \/ (x.key /\ x.stored)
      /\ Row(r) = x
  BY <1>q, <1>p, <1>x DEF Inv, Typed, Honest, SessionKnown, ItemKnown, ItemAt, ItemsInOrder,
     EvidenceIsWholeAndUnique, BytesAreKept, Row
<1>1. UNCHANGED <<status, redis, expired, rows, valid, harmed, faults>>
  BY DEF Retry, MarkUploading, MarkStored, MarkFailed, DeleteItem, Unstage, Unstore, UpdateItem
<1>2. ASSUME NEW at, NEW next \in ItemAt \cup {"idle"}, NEW y, UpdateItem(r, at, y, next),
             x.status # "gone" => y \in Item /\ Improves(x, y),
             next = "unstage" => y.doomed \/ (y.key /\ y.stored),
             next \notin {"unstore", "delete"}, q.op # "remove" \/ next = "idle"
      PROVE  Inv'
  <2>1. CASE x.status = "gone"
    <3>1. Answer(r) /\ UNCHANGED evidence
      BY <1>0, <1>2, <2>1 DEF UpdateItem
    <3> QED
      BY <1>0, <1>1, <3>1, AnswerStep DEF Typed, redis
  <2>2. CASE x.status # "gone"
    <3>1. evidence' = [evidence EXCEPT ![q.item] = y]
      BY <1>q, <1>0, <1>2, <2>2 DEF UpdateItem
    <3>2. \/ next = "idle" /\ Answer(r)
          \/ next # "idle" /\ req' = [req EXCEPT ![r] = [q EXCEPT !.at = next]]
      BY <1>q, <1>0, <1>2, <2>2 DEF UpdateItem, Goto
    <3> QED
      BY <1>q, <1>p, <1>x, <1>1, <1>2, <2>2, <3>1, <3>2, RowChanges
  <2> QED
    BY <2>1, <2>2
<1>3. CASE Retry(r)
  <2>1. PICK y : y = [x EXCEPT !.status = "pending"]
    OBVIOUS
  <2>2. /\ UpdateItem(r, "retry", y, "load") /\ "load" \in ItemAt /\ q.op # "remove"
        /\ x.status # "gone" => y \in Item /\ Improves(x, y)
    BY <1>q, <1>0, <1>3, <2>1, RowWrites DEF Retry, UpdateItem, ItemAt, Honest, ItemKnown
  <2> QED
    BY <1>2, <2>2
<1>4. CASE MarkUploading(r)
  <2>1. PICK y : y = [x EXCEPT !.status = "uploading"]
    OBVIOUS
  <2>2. /\ UpdateItem(r, "uploading", y, "read") /\ "read" \in ItemAt /\ q.op # "remove"
        /\ x.status # "gone" => y \in Item /\ Improves(x, y)
    BY <1>q, <1>0, <1>4, <2>1, RowWrites DEF MarkUploading, UpdateItem, ItemAt, Honest,
       ItemKnown
  <2> QED
    BY <1>2, <2>2
<1>5. CASE MarkStored(r)
  <2>1. PICK y : y = AfterStored(x)
    OBVIOUS
  <2>2. /\ UpdateItem(r, "stored", y, "unstage") /\ "unstage" \in ItemAt /\ q.op # "remove"
        /\ x.status # "gone" => y \in Item /\ Improves(x, y)
    BY <1>q, <1>0, <1>5, <2>1, RowWrites DEF MarkStored, UpdateItem, ItemAt, Honest, ItemKnown
  <2>3. y.key /\ y.stored
    BY <1>0, <2>1 DEF AfterStored, Item
  <2> QED
    BY <1>2, <2>2, <2>3
<1>6. CASE MarkFailed(r)
  <2>1. PICK y : y = [x EXCEPT !.status = "failed"]
    OBVIOUS
  <2>2. /\ UpdateItem(r, "failed", y, "idle")
        /\ x.status # "gone" => y \in Item /\ Improves(x, y)
    BY <1>0, <1>6, <2>1, RowWrites DEF MarkFailed
  <2> QED
    BY <1>2, <2>2
<1>7. CASE DeleteItem(r)
  <2>1. PICK y : y = Gone
    OBVIOUS
  <2>2. UpdateItem(r, "delete", y, "idle") /\ y \in Item /\ Improves(x, y)
    BY <1>0, <1>7, <2>1, RowWrites DEF DeleteItem
  <2> QED
    BY <1>2, <2>2
<1>8. CASE Unstage(r)
  <2>1. PICK y : y = [x EXCEPT !.staged = FALSE]
    OBVIOUS
  <2>2. /\ evidence' = [evidence EXCEPT ![q.item] = y]
        /\ \/ q.op = "remove" /\ req' = [req EXCEPT ![r] = [q EXCEPT !.at = "delete"]]
           \/ q.op # "remove" /\ Answer(r)
        /\ q.at = "unstage"
    BY <1>q, <1>x, <1>8, <2>1 DEF Unstage, Goto
  <2>3. /\ x.doomed \/ (x.key /\ x.stored)
        /\ q.op = "remove" => x.doomed /\ y.doomed
    BY <1>q, <1>x, <1>0, <2>1, <2>2 DEF Honest, ItemKnown, Item
  <2>4. y \in Item /\ Improves(x, y)
    BY <1>0, <2>1, <2>3, RowWrites
  <2>5. "delete" \in ItemAt
    BY DEF ItemAt
  <2>6. CASE q.op = "remove"
    BY <1>q, <1>p, <1>x, <1>1, <2>2, <2>3, <2>4, <2>5, <2>6, RowChanges
  <2>7. CASE q.op # "remove"
    BY <1>q, <1>p, <1>x, <1>1, <2>2, <2>4, <2>7, RowChanges
  <2> QED
    BY <2>6, <2>7
<1>9. CASE Unstore(r)
  <2>1. PICK y : y = [x EXCEPT !.stored = FALSE]
    OBVIOUS
  <2>2. /\ evidence' = [evidence EXCEPT ![q.item] = y]
        /\ req' = [req EXCEPT ![r] = [q EXCEPT !.at = "unstage"]]
        /\ q.at = "unstore"
    BY <1>q, <1>x, <1>9, <2>1 DEF Unstore, Goto
  <2>3. x.doomed /\ y.doomed
    BY <1>q, <1>x, <1>0, <2>1, <2>2 DEF Honest, ItemKnown, Item
  <2>4. y \in Item /\ Improves(x, y)
    BY <1>0, <2>1, <2>3, RowWrites
  <2>5. "unstage" \in ItemAt
    BY DEF ItemAt
  <2> QED
    BY <1>q, <1>p, <1>x, <1>1, <2>2, <2>3, <2>4, <2>5, RowChanges
<1> QED
  BY <1>3, <1>4, <1>5, <1>6, <1>7, <1>8, <1>9

LEMMA RemovalStep ==
    ASSUME UploadAssumption, Inv, NEW r \in Requests, NEW i \in DOMAIN evidence, RemoveItem(r, i)
    PROVE  Inv'
<1>0. /\ Typed /\ req[r] = Idle
      /\ UNCHANGED <<status, redis, expired, rows, valid, harmed, faults>>
  BY DEF RemoveItem, Inv
<1>x. PICK x : x = evidence[i]
  OBVIOUS
<1>y. PICK y : y = [x EXCEPT !.doomed = TRUE]
  OBVIOUS
<1>1. x \in Item /\ x.whole /\ "bytes" \notin req[r].left /\ i \in Nat
      /\ (x.status # "gone" /\ ~x.doomed => x.staged \/ (x.key /\ x.stored))
  BY <1>0, <1>x DEF Inv, Typed, ItemsInOrder, EvidenceIsWholeAndUnique, BytesAreKept, Idle
<1>2. evidence' = [evidence EXCEPT ![i] = y] /\ y \in Item /\ Improves(x, y) /\ y.doomed
  <2>1. evidence' = [evidence EXCEPT ![i] = y]
    BY <1>x, <1>y DEF RemoveItem
  <2>2. y \in Item /\ Improves(x, y)
    BY <1>1, <1>y, RowWrites
  <2>3. y.doomed
    BY <1>1, <1>y DEF Item
  <2> QED
    BY <2>1, <2>2, <2>3
<1>3. evidence' \in Seq(Item) /\ Onward /\ ItemsInOrder'
  BY <1>0, <1>x, <1>2, RowStep DEF redis
<1>4. /\ DOMAIN evidence' = DOMAIN evidence /\ evidence'[i].doomed
      /\ i \in 0 .. Len(evidence')
  BY <1>0, <1>2 DEF Typed
<1>5. PICK at \in {"unstore", "unstage"} :
         req' = [req EXCEPT ![r] = [Idle EXCEPT !.op = "remove", !.item = i, !.at = at]]
  BY DEF RemoveItem
<1>6. PICK m : m = [Idle EXCEPT !.op = "remove", !.item = i, !.at = at]
  OBVIOUS
<1>7. m = [at |-> at, op |-> "remove", session |-> None, chunk |-> None,
           read |-> None, left |-> {}, end |-> "none", item |-> i]
  BY <1>6 DEF Idle
<1>8. m \in Request
  BY <1>1, <1>7 DEF Request, Places, ItemAt, Ops, Reads, Writes, Ends
<1>9. SessionKnown(m)' /\ ChunkKept(m)'
  BY <1>7 DEF SessionKnown, ChunkKept, SessionAt
<1>10. ItemKnown(m)'
  BY <1>4, <1>7 DEF ItemKnown, ItemAt
<1> QED
  BY <1>0, <1>1, <1>3, <1>5, <1>6, <1>8, <1>9, <1>10, EvidenceStep DEF Honest

\* A session is created, grows old, is marked or is cleaned up.
LEMMA SessionSteps ==
    ASSUME UploadAssumption, Inv, NEW s \in Sessions, Create(s) \/ Expire(s)
    PROVE  Inv'
<1>0. Typed /\ UNCHANGED <<rows, received, data, evidence, req, valid, harmed, faults>>
      /\ (status[s] = "none" \/ status' = status)
  BY DEF Inv, Create, Expire
<1>1. Typed'
  BY <1>0 DEF Create, Expire, Typed, Statuses
<1>2. Onward
  BY <1>0 DEF Create, Expire, Onward, Typed
<1>3. AllHonest'
  BY <1>0, <1>1, <1>2, HonestStays DEF Inv, AllHonest, Standing, Typed
<1>4. NewIsEmpty'
  BY <1>0 DEF Inv, NewIsEmpty, Create, Expire, Typed
<1>5. AllRegisteredHaveBytes'
  BY <1>0 DEF Inv, AllRegisteredHaveBytes, NewIsEmpty, Create, Expire, Typed
<1>6. ItemsInOrder' /\ CompletedHasEvidence'
  BY <1>0 DEF Inv, ItemsInOrder, EvidenceIsWholeAndUnique, BytesAreKept, CompletedHasEvidence,
     Create, Expire, Typed
<1> QED
  BY <1>1, <1>3, <1>4, <1>5, <1>6 DEF Inv

LEMMA MarkStep ==
    ASSUME UploadAssumption, Inv, NEW r \in Requests, MarkSession(r)
    PROVE  Inv'
<1>q. PICK q \in Request : q = req[r] /\ Honest(q)
  BY OneIsHonest
<1>0. /\ Typed /\ q.at = "mark" /\ q.left = {} /\ q.session \in Sessions
      /\ status[q.session] # "none"
      /\ q.end \in Statuses \ {"active"} /\ (q.end = "completed" => evidence # <<>>)
      /\ q.op \in {"upload", "finalize", "status"} /\ (q.op = "upload" => q.chunk \in Chunks)
  <2>1. Typed /\ q.at = "mark" /\ SessionKnown(q)
    BY <1>q DEF MarkSession, Inv, Honest
  <2>2. q.at \in SessionAt
    BY <2>1 DEF SessionAt
  <2> QED
    BY <2>1, <2>2 DEF SessionKnown
<1>m. PICK m : m = [q EXCEPT !.at = "uncache"]
  OBVIOUS
<1>1. /\ status' = [status EXCEPT ![q.session] = q.end]
      /\ req' = [req EXCEPT ![r] = m]
      /\ UNCHANGED <<cached, received, data, expired, rows, evidence, valid, harmed, faults>>
  BY <1>q, <1>m DEF MarkSession, Goto, Session, redis
<1>2. /\ m \in Request
      /\ m.at = "uncache" /\ m.read = q.read /\ m.left = q.left /\ m.end = q.end
      /\ m.op = q.op /\ m.session = q.session /\ m.chunk = q.chunk /\ m.item = q.item
  BY <1>m DEF Request, Places, SessionAt
<1>3. Typed'
  BY <1>0, <1>1, <1>2 DEF Typed, Statuses
<1>4. Onward
  BY <1>0, <1>1 DEF Onward, Typed, Statuses
<1>5. Honest(m)'
  <2>1. status'[q.session] = q.end /\ q.end # "active" /\ q.end # "none"
    BY <1>0, <1>1 DEF Typed, Statuses
  <2>2. SessionKnown(m)'
    BY <1>0, <1>2, <2>1 DEF SessionKnown
  <2>3. ChunkKept(m)'
    BY <1>2 DEF ChunkKept
  <2>4. ItemKnown(m)'
    BY <1>q, <1>0, <1>1, <1>2 DEF Honest, ItemKnown, ItemAt
  <2> QED
    BY <2>2, <2>3, <2>4 DEF Honest
<1>6. AllHonest'
  BY <1>0, <1>1, <1>2, <1>3, <1>4, <1>5, RequestsStay DEF Inv
<1>7. NewIsEmpty' /\ ItemsInOrder' /\ CompletedHasEvidence'
  BY <1>0, <1>1 DEF Inv, NewIsEmpty, ItemsInOrder, EvidenceIsWholeAndUnique, BytesAreKept,
     CompletedHasEvidence, Typed, Statuses
<1>8. AllRegisteredHaveBytes'
  <2>1. \A x \in Requests : /\ req'[x].session = req[x].session /\ req'[x].chunk = req[x].chunk
                           /\ req'[x].left = req[x].left
    BY <1>q, <1>0, <1>1, <1>2 DEF Typed
  <2> QED
    BY <1>0, <1>1, <2>1 DEF Inv, AllRegisteredHaveBytes, Typed
<1> QED
  BY <1>3, <1>6, <1>7, <1>8 DEF Inv

\* The stores of a session lose what it held once it is no longer open.
LEMMA CleanupStep ==
    ASSUME UploadAssumption, Inv, NEW r \in Requests, CleanupSession(r)
    PROVE  Inv'
<1>q. PICK q \in Request : q = req[r] /\ Honest(q)
  BY OneIsHonest
<1>0. /\ Typed /\ q.at = "cleanup" /\ q.left = {} /\ q.session \in Sessions
      /\ status[q.session] # "active"
  <2>1. Typed /\ q.at = "cleanup" /\ SessionKnown(q)
    BY <1>q DEF CleanupSession, Inv, Honest
  <2>2. q.at \in SessionAt
    BY <2>1 DEF SessionAt
  <2> QED
    BY <2>1, <2>2 DEF SessionKnown
<1>1. /\ received' = [received EXCEPT ![q.session] = {}]
      /\ data' = [data EXCEPT ![q.session] = {}]
      /\ req' = [req EXCEPT ![r] = Idle]
      /\ UNCHANGED <<status, cached, expired, rows, evidence, valid, harmed, faults>>
  BY <1>q DEF CleanupSession, Session, Answer
<1>2. Idle \in Request
  BY <1>0, IdleIsHonest
<1>3. Typed'
  BY <1>0, <1>1, <1>2 DEF Typed
<1>4. Onward
  BY <1>0, <1>1 DEF Onward, Typed
<1>5. Honest(Idle)'
  BY <1>0, <1>2, <1>3, <1>4, IdleIsHonest, HonestStays
<1>6. AllHonest'
  BY <1>0, <1>1, <1>2, <1>3, <1>4, <1>5, RequestsStay DEF Inv
<1>7. NewIsEmpty' /\ ItemsInOrder' /\ CompletedHasEvidence'
  BY <1>0, <1>1 DEF Inv, NewIsEmpty, ItemsInOrder, EvidenceIsWholeAndUnique, BytesAreKept,
     CompletedHasEvidence, Typed
<1>8. AllRegisteredHaveBytes'
  <2>1. \A x \in Requests : "bytes" \in req[x].left => req'[x] = req[x]
    BY <1>q, <1>0, <1>1 DEF Typed
  <2> QED
    BY <1>0, <1>1, <2>1 DEF Inv, AllRegisteredHaveBytes, Typed
<1> QED
  BY <1>3, <1>6, <1>7, <1>8 DEF Inv

\* One of a chunk's writes is over: the request waits for the others.
WriteDone(q, write, next) ==
    LET left == (q.left \ {write}) \cup next
    IN  IF left = {} THEN Idle ELSE [q EXCEPT !.left = left]

LEMMA WriteMoves ==
    ASSUME NEW q \in Request, SessionKnown(q), q.at = "store", NEW write \in q.left,
           NEW next \in Writes, NEW m, m = WriteDone(q, write, next)
    PROVE  /\ m \in Request
           /\ \/ m = Idle /\ q.left \subseteq {write}
              \/ /\ m.left = (q.left \ {write}) \cup next /\ m.left # {}
                 /\ m.at = "store" /\ m.op = q.op /\ m.session = q.session
                 /\ m.chunk = q.chunk /\ m.item = q.item /\ m.read = q.read /\ m.end = q.end
<1>1. Idle \in Request
  BY DEF Idle, Request, Ops, Places, Reads, Writes, Ends
<1>2. q.left \in Writes
  BY DEF Request
<1>3. (q.left \ {write}) \cup next \in Writes
  BY <1>2 DEF Writes
<1> QED
  BY <1>1, <1>3 DEF WriteDone, Request

\* A write of a chunk ends, with or without success.
LEMMA WriteStep ==
    ASSUME Inv, NEW r \in Requests, NEW q \in Request, q = req[r], q.at = "store",
           NEW write \in q.left, NEW next \in Writes, "bytes" \notin next,
           req' = [req EXCEPT ![r] = WriteDone(q, write, next)],
           UNCHANGED <<status, cached, expired, evidence, valid>>,
           rows' \in [Sessions -> SUBSET Chunks], received' \in [Sessions -> SUBSET Chunks],
           data' \in [Sessions -> SUBSET Chunks], \A s \in Sessions : data[s] \subseteq data'[s],
           harmed \subseteq harmed', harmed' \subseteq Sessions, faults' \in 0 .. MaxFaults,
           write = "bytes" => q.session \in harmed' \/ q.chunk \in data'[q.session],
           \A s \in Sessions : rows'[s] \cup received'[s] \subseteq
               rows[s] \cup received[s] \cup {c \in {q.chunk} : s = q.session}
    PROVE  Inv'
<1>m. PICK m : m = WriteDone(q, write, next)
  OBVIOUS
<1>0. /\ Typed /\ Honest(q) /\ q.session \in Sessions /\ status[q.session] # "none"
      /\ q.op = "upload" /\ q.chunk \in Chunks
  <2>1. Typed /\ Honest(q)
    BY OneIsHonest DEF Inv
  <2>2. q.at \in SessionAt
    BY DEF SessionAt
  <2> QED
    BY <2>1, <2>2 DEF SessionKnown, Honest
<1>1. /\ m \in Request
      /\ \/ m = Idle /\ q.left \subseteq {write}
         \/ /\ m.left = (q.left \ {write}) \cup next /\ m.left # {}
            /\ m.at = "store" /\ m.op = q.op /\ m.session = q.session
            /\ m.chunk = q.chunk /\ m.item = q.item /\ m.read = q.read /\ m.end = q.end
  BY <1>m, <1>0, WriteMoves DEF Honest
<1>2. Typed'
  BY <1>0, <1>m, <1>1 DEF Typed
<1>3. Onward
  BY <1>0 DEF Onward, Typed
<1>4. \/ q.chunk \in data'[q.session] \/ q.session \in harmed' \/ status[q.session] # "active"
      \/ m # Idle /\ "bytes" \in m.left
  <2>1. \/ q.chunk \in data[q.session] \/ q.session \in harmed \/ status[q.session] # "active"
        \/ "bytes" \in q.left
    BY <1>0 DEF Honest, ChunkKept
  <2> QED
    BY <1>0, <1>1, <2>1 DEF Idle
<1>5. Honest(m)'
  <2>1. CASE m = Idle
    BY <1>0, <1>1, <1>2, <1>3, <2>1, IdleIsHonest, HonestStays
  <2>2. CASE m # Idle
    <3>1. SessionKnown(m)'
      BY <1>0, <1>1, <2>2 DEF SessionKnown
    <3>2. ChunkKept(m)'
      BY <1>0, <1>1, <1>4, <2>2 DEF ChunkKept
    <3>3. ItemKnown(m)'
      BY <1>0, <1>1, <2>2 DEF Honest, ItemKnown, ItemAt
    <3> QED
      BY <3>1, <3>2, <3>3 DEF Honest
  <2> QED
    BY <2>1, <2>2
<1>6. AllHonest'
  BY <1>0, <1>m, <1>1, <1>2, <1>3, <1>5, RequestsStay DEF Inv
<1>7. NewIsEmpty'
  <2> SUFFICES ASSUME NEW s \in Sessions, status'[s] = "none"
               PROVE  rows'[s] = {} /\ received'[s] = {}
    BY DEF NewIsEmpty
  <2>1. s # q.session /\ rows[s] = {} /\ received[s] = {}
    BY <1>0 DEF Inv, NewIsEmpty
  <2> QED
    BY <2>1
<1>8. ItemsInOrder' /\ CompletedHasEvidence'
  BY DEF Inv, ItemsInOrder, EvidenceIsWholeAndUnique, BytesAreKept, CompletedHasEvidence
<1>9. AllRegisteredHaveBytes'
  <2> SUFFICES ASSUME NEW s \in Sessions \ harmed', status'[s] = "active",
                      NEW i \in received'[s] \cup rows'[s], i \notin data'[s]
               PROVE  \E x \in Requests : /\ req'[x].session = s /\ req'[x].chunk = i
                                          /\ "bytes" \in req'[x].left
    BY DEF AllRegisteredHaveBytes
  <2>0. req'[r] = m /\ \A x \in Requests \ {r} : req'[x] = req[x]
    BY <1>0, <1>m DEF Typed
  <2>1. CASE s = q.session /\ i = q.chunk
    BY <1>1, <1>4, <2>0, <2>1 DEF Idle
  <2>2. CASE ~(s = q.session /\ i = q.chunk)
    <3>1. i \in received[s] \cup rows[s] /\ i \notin data[s] /\ s \in Sessions \ harmed
          /\ status[s] = "active"
      BY <2>2
    <3>2. PICK x \in Requests : /\ req[x].session = s /\ req[x].chunk = i
                                /\ "bytes" \in req[x].left
      BY <3>1 DEF Inv, AllRegisteredHaveBytes
    <3> QED
      BY <2>0, <2>2, <3>2
  <2> QED
    BY <2>1, <2>2
<1> QED
  BY <1>2, <1>6, <1>7, <1>8, <1>9 DEF Inv

LEMMA ChunkWrites ==
    ASSUME UploadAssumption, Inv, NEW r \in Requests,
           \/ StoreBytes(r) \/ AddToSet(r) \/ UpsertChunk(r)
           \/ \E write \in {"bytes", "set", "row"} : WriteFails(r, write)
    PROVE  Inv'
<1>q. PICK q \in Request : q = req[r] /\ Honest(q)
  BY OneIsHonest
<1>0. /\ Typed /\ q.at = "store" /\ SessionKnown(q) /\ q.session \in Sessions
      /\ q.chunk \in Chunks
  <2>1. Typed /\ q.at = "store" /\ SessionKnown(q)
    BY <1>q DEF Inv, Honest, StoreBytes, AddToSet, UpsertChunk, WriteFails, Write
  <2>2. q.at \in SessionAt
    BY <2>1 DEF SessionAt
  <2> QED
    BY <2>1, <2>2 DEF SessionKnown
<1>1. ASSUME NEW write, NEW next, Write(r, write, next)
      PROVE  write \in q.left /\ req' = [req EXCEPT ![r] = WriteDone(q, write, next)]
  <2>1. write \in q.left
    BY <1>q, <1>1 DEF Write
  <2>2. CASE (q.left \ {write}) \cup next = {}
    BY <1>q, <1>1, <2>1, <2>2 DEF Write, WriteDone, Answer
  <2>3. CASE (q.left \ {write}) \cup next # {}
    BY <1>q, <1>1, <2>1, <2>3 DEF Write, WriteDone
  <2> QED
    BY <2>1, <2>2, <2>3
<1>w. {} \in Writes /\ {"row"} \in Writes
  BY DEF Writes
<1>2. CASE StoreBytes(r)
  <2>1. Write(r, "bytes", {}) /\ data' = [data EXCEPT ![q.session] = @ \cup {q.chunk}]
        /\ UNCHANGED <<status, cached, expired, rows, received, evidence, valid, harmed, faults>>
    BY <1>q, <1>2 DEF StoreBytes, Session
  <2>2. /\ data' \in [Sessions -> SUBSET Chunks] /\ q.chunk \in data'[q.session]
        /\ \A s \in Sessions : data[s] \subseteq data'[s]
    BY <1>0, <2>1 DEF Typed
  <2>3. "bytes" \in q.left /\ req' = [req EXCEPT ![r] = WriteDone(q, "bytes", {})]
    BY <1>1, <2>1
  <2> QED
    BY <1>q, <1>0, <1>w, <2>1, <2>2, <2>3, WriteStep DEF Typed
<1>3. CASE AddToSet(r)
  <2>1. Write(r, "set", {"row"}) /\ received' = [received EXCEPT ![q.session] = @ \cup {q.chunk}]
        /\ UNCHANGED <<status, cached, expired, rows, data, evidence, valid, harmed, faults>>
    BY <1>q, <1>3 DEF AddToSet, Session
  <2>2. /\ received' \in [Sessions -> SUBSET Chunks]
        /\ \A s \in Sessions : received'[s] \subseteq
              received[s] \cup {c \in {q.chunk} : s = q.session}
    BY <1>0, <2>1 DEF Typed
  <2>3. "set" \in q.left /\ req' = [req EXCEPT ![r] = WriteDone(q, "set", {"row"})]
    BY <1>1, <2>1
  <2>4. \A s \in Sessions : rows'[s] \cup received'[s] \subseteq
               rows[s] \cup received[s] \cup {c \in {q.chunk} : s = q.session}
    BY <2>1, <2>2
  <2> QED
    BY <1>q, <1>0, <1>w, <2>1, <2>2, <2>3, <2>4, WriteStep DEF Typed
<1>4. CASE UpsertChunk(r)
  <2>1. Write(r, "row", {}) /\ rows' = [rows EXCEPT ![q.session] = @ \cup {q.chunk}]
        /\ UNCHANGED <<status, cached, expired, received, data, evidence, valid, harmed, faults>>
    BY <1>q, <1>4 DEF UpsertChunk, Session, redis
  <2>2. /\ rows' \in [Sessions -> SUBSET Chunks]
        /\ \A s \in Sessions : rows'[s] \subseteq
              rows[s] \cup {c \in {q.chunk} : s = q.session}
    BY <1>0, <2>1 DEF Typed
  <2>3. "row" \in q.left /\ req' = [req EXCEPT ![r] = WriteDone(q, "row", {})]
    BY <1>1, <2>1
  <2>4. \A s \in Sessions : rows'[s] \cup received'[s] \subseteq
               rows[s] \cup received[s] \cup {c \in {q.chunk} : s = q.session}
    BY <2>1, <2>2
  <2> QED
    BY <1>q, <1>0, <1>w, <2>1, <2>2, <2>3, <2>4, WriteStep DEF Typed
<1>5. ASSUME NEW write \in {"bytes", "set", "row"}, WriteFails(r, write)
      PROVE  Inv'
  <2>1. Write(r, write, {}) /\ UNCHANGED <<status, redis, expired, rows, evidence, valid>>
        /\ harmed' = (IF write = "bytes" THEN harmed \cup {q.session} ELSE harmed)
        /\ faults' \in 0 .. MaxFaults
    BY <1>q, <1>0, <1>5 DEF WriteFails, Session, Fault, Typed, UploadAssumption
  <2>2. write \in q.left /\ req' = [req EXCEPT ![r] = WriteDone(q, write, {})]
    BY <1>1, <2>1
  <2>3. /\ harmed \subseteq harmed' /\ harmed' \subseteq Sessions
        /\ write = "bytes" => q.session \in harmed'
    BY <1>0, <2>1 DEF Typed
  <2> QED
    BY <1>q, <1>0, <1>w, <2>1, <2>2, <2>3, WriteStep DEF Typed, redis
<1> QED
  BY <1>2, <1>3, <1>4, <1>5

\* The server and Redis restart.
LEMMA Restarts ==
    ASSUME UploadAssumption, Inv, ServerRestarts \/ RedisRestarts
    PROVE  Inv'
<1>0. Typed /\ UNCHANGED <<status, expired, rows, evidence, valid>> /\ harmed \subseteq harmed'
      /\ faults' \in 0 .. MaxFaults
  BY DEF Inv, Typed, ServerRestarts, RedisRestarts, redis, Fault, UploadAssumption
<1>1. CASE ServerRestarts
  <2>0. UNCHANGED <<cached, received, data>> /\ req' = [r \in Requests |-> Idle]
    BY <1>1 DEF ServerRestarts, redis
  <2>1. harmed' \subseteq Sessions
    <3> SUFFICES ASSUME NEW r \in Requests, "bytes" \in req[r].left
                 PROVE  req[r].session \in Sessions
      BY <1>0, <1>1 DEF ServerRestarts, Session, Typed
    <3>1. req[r].at = "store" /\ SessionKnown(req[r])
      BY OneIsHonest DEF Honest, SessionKnown
    <3> QED
      BY <3>1 DEF SessionKnown, SessionAt
  <2>2. Typed'
    BY <1>0, <2>0, <2>1, IdleIsHonest DEF Typed
  <2>3. Onward
    BY <1>0, <2>0 DEF Onward, Typed
  <2>4. Honest(Idle)'
    BY <1>0, <2>2, <2>3, IdleIsHonest, HonestStays
  <2>5. AllHonest'
    <3>1. \A q \in Standing' : q = Idle
      BY <2>0 DEF Standing
    <3> QED
      BY <2>4, <3>1 DEF AllHonest
  <2>6. NewIsEmpty' /\ ItemsInOrder' /\ CompletedHasEvidence'
    BY <1>0, <2>0 DEF Inv, NewIsEmpty, ItemsInOrder, EvidenceIsWholeAndUnique, BytesAreKept,
       CompletedHasEvidence
  <2>7. AllRegisteredHaveBytes'
    <3> SUFFICES ASSUME NEW s \in Sessions \ harmed', status[s] = "active",
                        NEW i \in received[s] \cup rows[s]
                 PROVE  i \in data[s]
      BY <1>0, <2>0 DEF AllRegisteredHaveBytes
    <3>1. s \notin harmed /\ \A r \in Requests : "bytes" \in req[r].left => req[r].session # s
      BY <1>0, <1>1 DEF ServerRestarts, Session
    <3> QED
      BY <1>0, <3>1 DEF Inv, AllRegisteredHaveBytes
  <2> QED
    BY <2>2, <2>5, <2>6, <2>7 DEF Inv
<1>2. CASE RedisRestarts
  <2>0. /\ req' = req /\ harmed' = Sessions
        /\ cached' = [s \in Sessions |-> None] /\ received' = [s \in Sessions |-> {}]
        /\ data' = [s \in Sessions |-> {}]
    BY <1>2 DEF RedisRestarts
  <2>1. Typed'
    BY <1>0, <2>0 DEF Typed
  <2>2. Onward
    BY <1>0, <2>0 DEF Onward, Typed
  <2>3. AllHonest'
    BY <1>0, <2>0, <2>1, <2>2, HonestStays DEF Inv, AllHonest, Standing, Typed
  <2>4. NewIsEmpty' /\ ItemsInOrder' /\ CompletedHasEvidence'
    BY <1>0, <2>0 DEF Inv, NewIsEmpty, ItemsInOrder, EvidenceIsWholeAndUnique, BytesAreKept,
       CompletedHasEvidence
  <2>5. AllRegisteredHaveBytes'
    BY <2>0 DEF AllRegisteredHaveBytes
  <2> QED
    BY <2>1, <2>3, <2>4, <2>5 DEF Inv
<1> QED
  BY <1>1, <1>2

-----------------------------------------------------------------------------
(* The invariant and what follows from it. *)

LEMMA InvInit ==
    ASSUME UploadAssumption, Init
    PROVE  Inv
<1>1. Typed
  <2>1. <<>> \in Seq(Item)
    OBVIOUS
  <2>2. \A r \in Requests : req[r] = Idle
    BY DEF Init
  <2>3. Idle \in Request
    BY DEF Idle, Request, Ops, Places, Reads, Writes, Ends
  <2>4. req \in [Requests -> Request]
    BY <2>3 DEF Init
  <2> QED
    BY <2>1, <2>4 DEF Init, Typed, UploadAssumption
<1>2. AllHonest
  BY <1>1, IdleIsHonest DEF Init, AllHonest, Standing
<1>3. NewIsEmpty /\ AllRegisteredHaveBytes
  BY DEF Init, NewIsEmpty, AllRegisteredHaveBytes
<1>4. ItemsInOrder
  BY DEF Init, ItemsInOrder, EvidenceIsWholeAndUnique, BytesAreKept
<1>5. CompletedHasEvidence
  BY DEF Init, CompletedHasEvidence
<1> QED
  BY <1>1, <1>2, <1>3, <1>4, <1>5 DEF Inv

LEMMA InvNext ==
    ASSUME UploadAssumption, Inv, [Next]_vars
    PROVE  Inv'
<1>1. ASSUME NEW s \in Sessions, Create(s) \/ Expire(s)
      PROVE  Inv'
  BY <1>1, SessionSteps
<1>2. ASSUME NEW r \in Requests, Arriving(r)
      PROVE  Inv'
  BY <1>2, ArrivalStep, RemovalStep DEF Arriving
<1>3. ASSUME NEW r \in Requests, Handling(r)
      PROVE  Inv'
  <2>1. CASE \/ GetSession(r) \/ FindSession(r) \/ CopySession(r) \/ Uncache(r) \/ CheckChunk(r)
             \/ CountChunks(r) \/ Assemble(r) \/ FindDuplicate(r)
    BY <2>1, SessionReads
  <2>2. CASE MarkSession(r)
    BY <2>2, MarkStep
  <2>3. CASE CleanupSession(r)
    BY <2>3, CleanupStep
  <2>4. CASE StoreBytes(r) \/ AddToSet(r) \/ UpsertChunk(r)
    BY <2>4, ChunkWrites
  <2>5. CASE CreateEvidence(r) \/ CreateQueued(r)
    BY <2>5, CreationStep
  <2>6. CASE LoadItem(r) \/ StoreItem(r)
    BY <2>6, ItemReads
  <2>7. CASE \/ Retry(r) \/ MarkUploading(r) \/ MarkStored(r) \/ MarkFailed(r) \/ DeleteItem(r)
             \/ Unstage(r) \/ Unstore(r)
    BY <2>7, ItemWrites
  <2> QED
    BY <1>3, <2>1, <2>2, <2>3, <2>4, <2>5, <2>6, <2>7 DEF Handling
<1>4. ASSUME NEW r \in Requests, CallFails(r)
      PROVE  Inv'
  BY <1>4, ItemReads
<1>5. ASSUME NEW r \in Requests, NEW write \in {"bytes", "set", "row"}, WriteFails(r, write)
      PROVE  Inv'
  BY <1>5, ChunkWrites
<1>6. CASE ServerRestarts \/ RedisRestarts
  BY <1>6, Restarts
<1>7. CASE UNCHANGED vars
  <2>1. Typed'
    BY <1>7 DEF vars, Inv, Typed
  <2>2. Onward
    BY <1>7 DEF vars, Inv, Typed, Onward
  <2>3. AllHonest'
    BY <1>7, <2>1, <2>2, HonestStays DEF vars, Inv, AllHonest, Standing, Typed
  <2>4. NewIsEmpty' /\ ItemsInOrder' /\ CompletedHasEvidence'
    BY <1>7 DEF vars, Inv, NewIsEmpty, ItemsInOrder, EvidenceIsWholeAndUnique, BytesAreKept,
       CompletedHasEvidence
  <2>5. AllRegisteredHaveBytes'
    BY <1>7 DEF vars, Inv, AllRegisteredHaveBytes
  <2> QED
    BY <2>1, <2>3, <2>4, <2>5 DEF Inv
<1> QED
  BY <1>1, <1>2, <1>3, <1>4, <1>5, <1>6, <1>7 DEF Next

\* The inductive invariant of the evidence queue and the upload sessions holds
\* always, whatever is uploaded, retried, removed and lost.
THEOREM InvHolds == Spec => []Inv
<1>1. Init => Inv
  BY UploadAssumption, InvInit
<1>2. Inv /\ [Next]_vars => Inv'
  BY UploadAssumption, InvNext
<1> QED
  BY <1>1, <1>2, PTL DEF Spec

\* Every session, chunk, row and request is of its type.
THEOREM TypesHold == Spec => []TypeOK
<1>1. Inv => TypeOK
  <2> SUFFICES ASSUME Inv PROVE TypeOK
    OBVIOUS
  <2>1. \A i \in DOMAIN evidence : evidence[i] \in Item
    BY DEF Inv, Typed
  <2>2. \A r \in Requests : /\ req[r].left \subseteq {"bytes", "set", "row"}
                            /\ req[r].at = "store" <=> req[r].left # {}
                            /\ req[r].item \in 0 .. Len(evidence)
    BY OneIsHonest DEF Request, Writes, Honest, SessionKnown, ItemKnown
  <2> QED
    BY <2>1, <2>2 DEF Inv, Typed, TypeOK, Item
<1> QED
  BY <1>1, InvHolds, PTL

\* The file is in the queue once at most, and whole, through overlapping
\* finalizations, two organizations, retries and chunks that Redis loses
\* (UploadSessionService.finalize, EvidenceService.queueEvidence).
THEOREM EvidenceStaysWhole == Spec => []EvidenceIsWholeAndUnique
<1>1. Inv => EvidenceIsWholeAndUnique
  BY DEF Inv, ItemsInOrder
<1> QED
  BY <1>1, InvHolds, PTL

\* A session is completed only once there is evidence (finalize).
THEOREM CompletedMeansEvidence == Spec => []CompletedHasEvidence
<1>1. Inv => CompletedHasEvidence
  BY DEF Inv
<1> QED
  BY <1>1, InvHolds, PTL

\* A registered chunk of an open session has its bytes, or a request that is
\* about to store them, unless a fault took them (uploadChunk, getReceivedChunks).
THEOREM RegisteredKeepsBytes == Spec => []RegisteredHasBytes
<1>1. Inv => RegisteredHasBytes
  BY DEF Inv, AllRegisteredHaveBytes, RegisteredHasBytes, Received, Session
<1> QED
  BY <1>1, InvHolds, PTL

\* An item that nobody removes has its staging file or the object its row names,
\* whatever overlaps and fails (processUpload, remove).
THEOREM BytesSurvive == Spec => []BytesAreKept
<1>1. Inv => BytesAreKept
  BY DEF Inv, ItemsInOrder
<1> QED
  BY <1>1, InvHolds, PTL

=============================================================================
