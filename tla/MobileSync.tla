----------------------------- MODULE MobileSync -----------------------------
(***************************************************************************)
(* The sync queue of the mobile app: actions dispatched online or queued   *)
(* offline, the flush that runs the queue, what the user does to queued    *)
(* actions, and the copy in AsyncStorage that a restarted app reads back.  *)
(*                                                                         *)
(* The code between two awaits is one step.  A flush works on the items it *)
(* copied when it started and writes them back after every answer.  Every  *)
(* change of the items is stored at once: an app that dies before a write  *)
(* completes is one that died before the change, with the server's part of *)
(* it done.                                                                *)
(***************************************************************************)
EXTENDS Naturals, FiniteSets, Functions

CONSTANTS
    Keys,       \* idempotency keys of claim submissions
    MaxActions, \* actions ever queued
    MaxRetries, \* maxRetries of an action
    SaverMax,   \* SAVER_MAX_ACTIONS_PER_FLUSH
    MaxReads,   \* reads of the stored queue in flight at start-up
    MaxCrashes, \* restarts of the app
    Urgent,     \* requests that are marked urgent
    None        \* stands for every other type of action, which has no key

ASSUME SyncAssumption ==
    /\ None \notin Keys /\ Urgent \subseteq Keys \cup {None}
    /\ MaxActions \in Nat /\ MaxReads \in Nat /\ MaxCrashes \in Nat
    /\ MaxRetries \in Nat \ {0} /\ SaverMax \in Nat \ {0}

VARIABLES
    items,      \* queueState.items, and its copy in AsyncStorage: the actions by
                \* id, which is the order they were queued in
    image,      \* what the reads still in flight have found there
    hydrated,
    reads,      \* reads of hydrateQueue in flight
    flush,      \* the running flush: its copy and what it has still to run
    call,       \* the online dispatch in flight, if any
    nextId,
    taken,      \* keys the server has accepted
    fate,       \* of each action: owed when it is queued, or overlapped when
                \* a flush or a read is under way; then settled, when it ran
                \* or the user removed it
    crashes

vars == <<items, image, hydrated, reads, flush, call, nextId, taken,
          fate, crashes>>

queue == <<items, image, hydrated, reads, flush, call, nextId>>

\* A request is known by its idempotency key.
Requests == Keys \cup {None}

States == {"pending", "retrying", "failed", "submitted", "conflict"}

\* The options of flushPendingNetworkActions; metered: without an opt-in.
Options == [saver : BOOLEAN, force : BOOLEAN, low : BOOLEAN, metered : BOOLEAN]

NoItems == [id \in {} |-> None]

NoFlush == [items |-> NoItems, todo |-> {}]

\* syncingPromise
Flushing == flush.todo # {}

\* The action that the flush is running.
Running(id) == id \in flush.todo /\ \A other \in flush.todo : id <= other

Init ==
    /\ items = NoItems /\ image = NoItems
    /\ hydrated = FALSE /\ reads = 0
    /\ flush = NoFlush
    /\ call = {}
    /\ nextId = 1
    /\ taken = {}
    /\ fate = [id \in 1 .. MaxActions |-> "none"]
    /\ crashes = 0

-----------------------------------------------------------------------------
\* Reading and writing the stored queue.

\* hydrateQueue is entered by every operation and reads while none has ended.
HydrateStart ==
    /\ ~hydrated /\ reads < MaxReads
    /\ reads' = reads + 1
    /\ UNCHANGED <<items, image, hydrated, flush, call, nextId, taken,
                   fate, crashes>>

\* Every one of the reads replaces the queue, with what was stored when the
\* first of them came back.
HydrateEnd ==
    /\ reads > 0
    /\ reads' = reads - 1
    /\ items' = IF hydrated THEN image ELSE items
    /\ image' = IF reads' = 0 THEN NoItems ELSE items'
    /\ hydrated' = TRUE
    /\ UNCHANGED <<flush, call, nextId, taken, fate, crashes>>

-----------------------------------------------------------------------------
\* Queueing.

Item(r, state, retries) ==
    [key |-> r, state |-> state, retries |-> retries, due |-> TRUE]

Append1(item) ==
    /\ nextId <= MaxActions
    /\ items' = [id \in DOMAIN items \cup {nextId} |->
                    IF id = nextId THEN item ELSE items[id]]
    /\ nextId' = nextId + 1
    /\ fate' = [fate EXCEPT ![nextId] = IF Flushing \/ reads > 0 THEN "overlapped" ELSE "owed"]

Settle(ids) == [id \in DOMAIN fate |-> IF id \in ids THEN "settled" ELSE fate[id]]

\* enqueue: one live submission per idempotency key.
Queued(r) ==
    /\ r # None
    /\ \E id \in DOMAIN items :
        items[id].key = r /\ items[id].state \notin {"failed", "submitted"}

Enqueue(r) ==
    IF Queued(r) THEN UNCHANGED <<items, nextId, fate>>
    ELSE Append1(Item(r, "pending", 0))

\* dispatchNetworkAction without a connection.
DispatchOffline(r) ==
    /\ hydrated /\ ~Queued(r)
    /\ Enqueue(r)
    /\ UNCHANGED <<image, hydrated, reads, flush, call, taken,
                   crashes>>

\* dispatchNetworkAction with one: the action runs outside the queue.
DispatchOnline(r) ==
    /\ hydrated /\ call = {}
    /\ call' = {r}
    /\ UNCHANGED <<items, image, hydrated, reads, flush, nextId, taken,
                   fate, crashes>>

\* runAction: the server takes the action or not, and the answer arrives or
\* not.  A submission conflicts when the server has its key.
Outcomes(key) ==
    {"ok", "lost", "retryable", "permanent"} \cup
        (IF key = None \/ key \in taken THEN {"conflict"} ELSE {})

Effect(key, outcome) ==
    IF key # None /\ outcome \in {"ok", "lost"} THEN taken \cup {key} ELSE taken

DispatchResult(r, outcome) ==
    /\ r \in call /\ outcome \in Outcomes(r)
    /\ call' = {}
    /\ taken' = Effect(r, outcome)
    /\ CASE outcome = "conflict" -> Append1(Item(r, "conflict", 1))
         [] outcome \in {"lost", "retryable"} -> Enqueue(r)
         [] OTHER -> UNCHANGED <<items, nextId, fate>>
    /\ UNCHANGED <<image, hydrated, reads, flush, crashes>>

-----------------------------------------------------------------------------
\* flushPendingNetworkActions.

\* Urgent actions are deferred for the battery only.
Deferred(item, o) ==
    ~o.force /\ (o.low \/ (o.metered /\ item.key \notin Urgent))

\* Every due action runs, whatever its state; in saver mode the first few.
ToRun(s, o) ==
    LET runs == {id \in DOMAIN s : s[id].due /\ ~Deferred(s[id], o)}
        First(n) == {id \in runs : Cardinality({other \in runs : other < id}) < n}
    IN  IF o.saver THEN First(SaverMax) ELSE runs

BrokenCopied(s, o) == Restrict(s, ToRun(s, o))

\* The flush copies the whole queue.
Copied(s, o) == s

FlushStart(o) ==
    /\ hydrated /\ ~Flushing
    /\ ToRun(items, o) # {}
    /\ flush' = [items |-> Copied(items, o), todo |-> ToRun(items, o)]
    /\ UNCHANGED <<items, image, hydrated, reads, call, nextId, taken,
                   fate, crashes>>

\* The state of an action after an answer.
BrokenNextState(retries, outcome) ==
    CASE outcome \in {"conflict", "permanent"} -> "conflict"
      [] retries >= MaxRetries -> "failed"
      [] OTHER -> "retrying"

NextState(retries, outcome) ==
    CASE outcome = "conflict" -> "conflict"
      [] outcome = "permanent" \/ retries >= MaxRetries -> "failed"
      [] OTHER -> "retrying"

\* Failed actions run again and count on; past the limit it makes no difference.
RetryCount(retries) == IF retries < MaxRetries THEN retries + 1 ELSE retries

\* An action after its answer.
AfterAnswer(item, outcome) ==
    LET retries == RetryCount(item.retries)
    IN  IF outcome = "ok" THEN [item EXCEPT !.state = "submitted"]
        ELSE [item EXCEPT !.state = NextState(retries, outcome),
                          !.retries = retries, !.due = FALSE]

\* The copy after the answer for one of its actions.
Answered(s, id, outcome) ==
    IF outcome = "ok" /\ s[id].key = None THEN Restrict(s, DOMAIN s \ {id})
    ELSE [s EXCEPT ![id] = AfterAnswer(@, outcome)]

\* The flush of the remaining actions; after the last, syncingPromise is
\* cleared.
Remaining(s, todo) == IF todo = {} THEN NoFlush ELSE [items |-> s, todo |-> todo]

FlushResult(id, outcome) ==
    /\ hydrated /\ Running(id)
    /\ LET key == flush.items[id].key
       IN  outcome \in Outcomes(key) /\ taken' = Effect(key, outcome)
    /\ items' = Answered(flush.items, id, outcome)
    /\ flush' = Remaining(items', flush.todo \ {id})
    /\ fate' = IF outcome = "ok" THEN Settle({id}) ELSE fate
    /\ UNCHANGED <<image, hydrated, reads, call, nextId, crashes>>

\* A retry becomes due.  (For a flush under way it is too late.)
RetryDue(id) ==
    /\ hydrated /\ reads = 0 /\ ~Flushing
    /\ ~items[id].due
    /\ items' = [items EXCEPT ![id].due = TRUE]
    /\ UNCHANGED <<image, hydrated, reads, flush, call, nextId, taken, fate, crashes>>

-----------------------------------------------------------------------------
\* The user, and other operators.

RequeueAction(id) ==
    /\ hydrated
    /\ items' = [items EXCEPT ![id] =
                    [@ EXCEPT !.state = "pending", !.retries = 0, !.due = TRUE]]
    /\ UNCHANGED <<image, hydrated, reads, flush, call, nextId, taken,
                   fate, crashes>>

DiscardAction(id) ==
    /\ hydrated
    /\ items' = Restrict(items, DOMAIN items \ {id})
    /\ fate' = Settle({id})
    /\ UNCHANGED <<image, hydrated, reads, flush, call, nextId, taken,
                   crashes>>

ClearSyncQueue ==
    /\ hydrated /\ DOMAIN items # {}
    /\ items' = NoItems
    /\ fate' = Settle(DOMAIN items)
    /\ UNCHANGED <<image, hydrated, reads, flush, call, nextId, taken,
                   crashes>>

OtherOperator(key) ==
    /\ key \notin taken
    /\ taken' = taken \cup {key}
    /\ UNCHANGED <<queue, fate, crashes>>

\* The app is killed; requests in flight may still be taken.
Crash ==
    /\ hydrated /\ crashes < MaxCrashes
    /\ crashes' = crashes + 1
    /\ hydrated' = FALSE /\ reads' = 0
    /\ image' = NoItems
    /\ flush' = NoFlush
    /\ call' = {}
    /\ \/ UNCHANGED taken
       \/ \E id \in flush.todo : Running(id) /\ taken' = Effect(flush.items[id].key, "ok")
       \/ \E r \in Requests : r \in call /\ taken' = Effect(r, "ok")
    /\ UNCHANGED <<items, nextId, fate>>

-----------------------------------------------------------------------------
Next ==
    \/ HydrateStart
    \/ HydrateEnd
    \/ \E r \in Requests :
        \/ DispatchOffline(r)
        \/ DispatchOnline(r)
        \/ \E outcome \in Outcomes(r) : DispatchResult(r, outcome)
    \/ \E o \in Options : FlushStart(o)
    \/ \E id \in flush.todo :
        \E outcome \in {"ok", "lost", "retryable", "permanent", "conflict"} :
            FlushResult(id, outcome)
    \/ \E id \in DOMAIN items : RetryDue(id) \/ RequeueAction(id) \/ DiscardAction(id)
    \/ ClearSyncQueue
    \/ \E key \in Keys : OtherOperator(key)
    \/ Crash

Spec == Init /\ [][Next]_vars

-----------------------------------------------------------------------------
\* A queue holds actions; one that waits for a retry has retries left.
IsQueue(s) ==
    /\ DOMAIN s \subseteq 1 .. MaxActions
    /\ \A id \in DOMAIN s :
        /\ s[id] \in [key : Requests, state : States, retries : 0 .. MaxRetries, due : BOOLEAN]
        /\ s[id].state = "retrying" => s[id].retries < MaxRetries

TypeOK ==
    /\ IsQueue(items) /\ IsQueue(image)
    /\ DOMAIN flush = {"items", "todo"} /\ IsQueue(flush.items)
    /\ flush.todo \subseteq DOMAIN flush.items
    /\ hydrated \in BOOLEAN /\ reads \in 0 .. MaxReads
    /\ call \in SUBSET Requests
    /\ nextId \in 1 .. MaxActions + 1
    /\ taken \subseteq Keys
    /\ fate \in [1 .. MaxActions -> {"none", "owed", "overlapped", "settled"}]
    /\ crashes \in 0 .. MaxCrashes

\* What the submission queue shows is so: a claim shown as submitted, or as
\* conflicting with the server's records, is one that the server has, through
\* lost answers, restarts, stale copies and requests run outside the queue.
StatesTellTheTruth ==
    \A id \in DOMAIN items :
        items[id].key # None /\ items[id].state \in {"submitted", "conflict"}
            => items[id].key \in taken

\* An action whose queueing was saved leaves the queue only by running or by
\* the user's hand, whatever crashes, retries and requeueing come, unless it
\* was queued while a flush was under way or a start-up read still out.
SavedIsKept ==
    hydrated => {id \in DOMAIN fate : fate[id] = "owed"} \subseteq DOMAIN items

\* What doc/api-integration-guide.md says of writes made while offline: they
\* are queued and replayed.  (An action is lost when the flush that was under
\* way writes its copy back.)
QueuedIsReplayed ==
    hydrated => {id \in DOMAIN fate : fate[id] \in {"owed", "overlapped"}} \subseteq DOMAIN items

=============================================================================
