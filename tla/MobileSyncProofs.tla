-------------------------- MODULE MobileSyncProofs --------------------------
(***************************************************************************)
(* What the sync queue guarantees for every set of keys, every number of   *)
(* actions, retries, reads and restarts, and every limit of a flush.       *)
(*                                                                         *)
(* The queue exists up to three times: in memory and in storage, in the    *)
(* copy of a flush, and in what a start-up read has found.  Any of them    *)
(* may become the queue.  So what is said of the queue has to hold of each *)
(* copy: it tells the truth (Honest), and it misses no action that was     *)
(* queued while no copy was out (NothingMissing).                          *)
(***************************************************************************)
EXTENDS MobileSync, TLAPS

Action == [key : Requests, state : States, retries : 0 .. MaxRetries, due : BOOLEAN]

WellFormed(item) ==
    item \in Action /\ (item.state = "retrying" => item.retries < MaxRetries)

\* A claim is shown as submitted or conflicting only if the server has it.
Honest(item, server) ==
    item.key # None /\ item.state \in {"submitted", "conflict"} => item.key \in server

Sound(s, server) ==
    /\ DOMAIN s \subseteq 1 .. MaxActions
    /\ \A id \in DOMAIN s : WellFormed(s[id]) /\ Honest(s[id], server)

Owed == {id \in DOMAIN fate : fate[id] = "owed"}

\* An owed action is in every copy that may still become the queue.
NothingMissing ==
    /\ Owed \subseteq DOMAIN items
    /\ Flushing => Owed \subseteq DOMAIN flush.items
    /\ hydrated /\ reads > 0 => Owed \subseteq DOMAIN image

Copies ==
    /\ Sound(items, taken) /\ Sound(image, taken) /\ Sound(flush.items, taken)
    /\ DOMAIN flush = {"items", "todo"} /\ flush.todo \subseteq DOMAIN flush.items

Counted ==
    /\ hydrated \in BOOLEAN /\ reads \in 0 .. MaxReads
    /\ call \in SUBSET Requests
    /\ nextId \in 1 .. MaxActions + 1
    /\ taken \subseteq Keys
    /\ fate \in [1 .. MaxActions -> {"none", "owed", "overlapped", "settled"}]
    /\ crashes \in 0 .. MaxCrashes

Inv == Counted /\ Copies /\ NothingMissing

-----------------------------------------------------------------------------
(* What the changes of a queue preserve. *)

\* The queue of a first start is sound.
LEMMA EmptyIsSound == ASSUME NEW server PROVE Sound(NoItems, server)
BY DEF Sound, NoItems

\* What a queue says stays true when the server takes more.
LEMMA SoundGrows ==
    ASSUME NEW s, NEW T, NEW U, T \subseteq U, Sound(s, T)
    PROVE  Sound(s, U)
BY DEF Sound, Honest

\* Removing actions leaves the others as they are (filter).
LEMMA RestrictIsSound ==
    ASSUME NEW s, NEW T, Sound(s, T), NEW S, S \subseteq DOMAIN s
    PROVE  Sound(Restrict(s, S), T) /\ DOMAIN Restrict(s, S) = S
BY DEF Sound, Restrict

\* One action of the queue is replaced (map).
LEMMA ChangeIsSound ==
    ASSUME NEW s, NEW T, Sound(s, T), NEW id \in DOMAIN s,
           NEW item, WellFormed(item), Honest(item, T)
    PROVE  /\ Sound([s EXCEPT ![id] = item], T)
           /\ DOMAIN [s EXCEPT ![id] = item] = DOMAIN s
BY DEF Sound

\* The effect of a request on the server.
LEMMA ServerGrows ==
    ASSUME taken \subseteq Keys, NEW key \in Requests, NEW outcome
    PROVE  /\ taken \subseteq Effect(key, outcome) /\ Effect(key, outcome) \subseteq Keys
           /\ outcome = "ok" /\ key # None => key \in Effect(key, outcome)
BY DEF Effect, Requests

\* An action is as well-formed and as honest after its answer as before: a
\* claim is marked submitted when the server has just taken it, and marked
\* conflicting when the server had its key.
LEMMA AnswerIsHonest ==
    ASSUME taken \subseteq Keys, NEW item, WellFormed(item), Honest(item, taken),
           NEW outcome \in Outcomes(item.key)
    PROVE  /\ WellFormed(AfterAnswer(item, outcome))
           /\ Honest(AfterAnswer(item, outcome), Effect(item.key, outcome))
<1> DEFINE r == RetryCount(item.retries)
           a == AfterAnswer(item, outcome)
<1>1. item \in Action
  BY DEF WellFormed
<1>2. r \in 0 .. MaxRetries /\ MaxRetries \in Nat
  BY <1>1, SyncAssumption DEF RetryCount, Action
<1>3. a.key = item.key
  BY <1>1 DEF AfterAnswer, Action
<1>4. CASE outcome = "ok"
  BY <1>1, <1>4 DEF AfterAnswer, Action, WellFormed, Honest, Effect, States
<1>5. CASE outcome # "ok"
  <2> DEFINE n == NextState(r, outcome)
  <2>1. a = [item EXCEPT !.state = n, !.retries = r, !.due = FALSE]
    BY <1>5 DEF AfterAnswer
  <2>2. n \in {"conflict", "failed", "retrying"} /\ (n = "retrying" => r < MaxRetries)
    BY <1>2 DEF NextState
  <2>3. n = "conflict" => outcome = "conflict"
    BY DEF NextState
  <2>4. a.state = n /\ a.retries = r /\ a \in Action
    BY <1>1, <1>2, <2>1, <2>2 DEF Action, States
  <2>5. outcome = "conflict" => item.key = None \/ item.key \in taken
    BY DEF Outcomes
  <2>6. WellFormed(a)
    BY <2>2, <2>4 DEF WellFormed
  <2>7. Honest(a, Effect(item.key, outcome))
    BY <1>3, <2>2, <2>3, <2>4, <2>5 DEF Honest, Effect
  <2> QED BY <2>6, <2>7
<1> QED BY <1>4, <1>5

\* A settled action is owed no more.
LEMMA SettledIsNotOwed ==
    ASSUME NEW ids, fate \in [1 .. MaxActions -> {"none", "owed", "overlapped", "settled"}],
           fate' = Settle(ids)
    PROVE  /\ fate' \in [1 .. MaxActions -> {"none", "owed", "overlapped", "settled"}]
           /\ Owed' = Owed \ ids
BY DEF Settle, Owed

-----------------------------------------------------------------------------
(* What the steps preserve. *)

\* Queueing an action: it is owed only when no copy is out that misses it.
LEMMA Appending ==
    ASSUME Inv, NEW item, WellFormed(item), Append1(item),
           taken \subseteq taken', taken' \subseteq Keys, Honest(item, taken'),
           call' \in SUBSET Requests,
           UNCHANGED <<image, hydrated, reads, flush, crashes>>
    PROVE  Inv'
<1>1. nextId \in 1 .. MaxActions /\ nextId' \in 1 .. MaxActions + 1
  BY SyncAssumption DEF Inv, Counted, Append1
<1>2. fate' \in [1 .. MaxActions -> {"none", "owed", "overlapped", "settled"}]
  BY DEF Inv, Counted, Append1
<1>3. DOMAIN items' = DOMAIN items \cup {nextId}
  BY DEF Append1
<1>4. Sound(items', taken')
  <2>1. Sound(items, taken')
    BY SoundGrows DEF Inv, Copies
  <2>2. ASSUME NEW id \in DOMAIN items'
        PROVE  items'[id] = IF id = nextId THEN item ELSE items[id]
    BY <1>3, <2>2 DEF Append1
  <2> QED BY <1>1, <1>3, <2>1, <2>2 DEF Sound
<1>5. Copies'
  BY <1>4, SoundGrows DEF Inv, Copies
<1>6. Counted'
  BY <1>1, <1>2 DEF Inv, Counted
<1>7. CASE Flushing \/ reads > 0
  <2>1. Owed' \subseteq Owed
    BY <1>1, <1>7 DEF Append1, Owed, Inv, Counted
  <2> QED BY <1>3, <1>5, <1>6, <2>1 DEF Inv, NothingMissing, Flushing
<1>8. CASE ~(Flushing \/ reads > 0)
  <2>1. Owed' \subseteq Owed \cup {nextId}
    BY <1>1 DEF Append1, Owed, Inv, Counted
  <2> QED BY <1>3, <1>5, <1>6, <1>8, <2>1 DEF Inv, NothingMissing, Flushing
<1> QED BY <1>7, <1>8

\* The queue is replaced by a sound one with the same actions, or fewer and
\* those settled.
LEMMA Replacing ==
    ASSUME Inv, NEW ids, Sound(items', taken), DOMAIN items' = DOMAIN items \ ids,
           fate' = Settle(ids),
           UNCHANGED <<image, hydrated, reads, flush, call, nextId, taken, crashes>>
    PROVE  Inv'
<1>1. Counted' /\ Owed' = Owed \ ids
  BY SettledIsNotOwed DEF Inv, Counted
<1>2. Copies'
  BY DEF Inv, Copies
<1>3. NothingMissing'
  BY <1>1 DEF Inv, NothingMissing, Flushing
<1> QED BY <1>1, <1>2, <1>3 DEF Inv

LEMMA SettlesNothing ==
    ASSUME Inv, UNCHANGED fate
    PROVE  fate' = Settle({})
BY DEF Inv, Counted, Settle

\* enqueue of a request that is pending.
LEMMA Enqueueing ==
    ASSUME Inv, NEW r \in Requests, Enqueue(r),
           taken \subseteq taken', taken' \subseteq Keys, call' \in SUBSET Requests,
           UNCHANGED <<image, hydrated, reads, flush, crashes>>
    PROVE  Inv'
<1>1. CASE Queued(r)
  <2>1. UNCHANGED <<items, nextId, fate>>
    BY <1>1 DEF Enqueue
  <2>2. Copies'
    BY <2>1, SoundGrows DEF Inv, Copies
  <2> QED BY <2>1, <2>2 DEF Inv, Counted, NothingMissing, Flushing, Owed
<1>2. CASE ~Queued(r)
  <2> DEFINE item == Item(r, "pending", 0)
  <2>1. Append1(item)
    BY <1>2 DEF Enqueue
  <2>2. WellFormed(item) /\ Honest(item, taken')
    BY SyncAssumption DEF Item, WellFormed, Action, Honest, States
  <2> QED BY <2>1, <2>2, Appending
<1> QED BY <1>1, <1>2

\* The server takes requests while the queue and its copies stand.
LEMMA ServerTakes ==
    ASSUME Inv, taken \subseteq taken', taken' \subseteq Keys, call' \in SUBSET Requests,
           UNCHANGED <<items, image, hydrated, reads, flush, nextId, fate, crashes>>
    PROVE  Inv'
<1>1. Copies'
  BY SoundGrows DEF Inv, Copies
<1> QED BY <1>1 DEF Inv, Counted, NothingMissing, Flushing, Owed

LEMMA InitHolds == ASSUME Init PROVE Inv
<1>1. Counted
  <2>1. 0 \in 0 .. MaxReads /\ 0 \in 0 .. MaxCrashes /\ 1 \in 1 .. MaxActions + 1
    BY SyncAssumption
  <2>2. [id \in 1 .. MaxActions |-> "none"]
            \in [1 .. MaxActions -> {"none", "owed", "overlapped", "settled"}]
    OBVIOUS
  <2> QED BY <2>1, <2>2 DEF Init, Counted
<1>2. Copies
  BY EmptyIsSound DEF Init, Copies, NoFlush
<1>3. NothingMissing
  BY DEF Init, NothingMissing, Owed, Flushing, NoFlush
<1> QED BY <1>1, <1>2, <1>3 DEF Inv

LEMMA Hydrating == ASSUME Inv, HydrateStart \/ HydrateEnd PROVE Inv'
<1>1. CASE HydrateStart
  <2>1. Counted'
    BY <1>1, SyncAssumption DEF HydrateStart, Inv, Counted
  <2> QED BY <1>1, <2>1 DEF HydrateStart, Inv, Copies, NothingMissing, Flushing, Owed
<1>2. CASE HydrateEnd
  <2>1. Counted'
    BY <1>2, SyncAssumption DEF HydrateEnd, Inv, Counted
  <2>2. Sound(items', taken') /\ Sound(image', taken')
    BY <1>2, EmptyIsSound DEF HydrateEnd, Inv, Copies
  <2>3. Copies'
    BY <1>2, <2>2 DEF HydrateEnd, Inv, Copies
  <2>4. Owed' \subseteq DOMAIN items'
    BY <1>2 DEF HydrateEnd, Inv, Counted, NothingMissing, Owed
  <2>5. reads' > 0 => image' = items'
    BY <1>2 DEF HydrateEnd, Inv, Counted
  <2> QED BY <1>2, <2>1, <2>3, <2>4, <2>5 DEF HydrateEnd, Inv, NothingMissing, Flushing, Owed
<1> QED BY <1>1, <1>2

LEMMA Dispatching ==
    ASSUME Inv, NEW r \in Requests,
           \/ DispatchOffline(r) \/ DispatchOnline(r)
           \/ \E outcome \in Outcomes(r) : DispatchResult(r, outcome)
    PROVE  Inv'
<1> taken \subseteq Keys /\ call \in SUBSET Requests
  BY DEF Inv, Counted
<1>1. CASE DispatchOffline(r)
  BY <1>1, Enqueueing DEF DispatchOffline
<1>2. CASE DispatchOnline(r)
  BY <1>2, ServerTakes DEF DispatchOnline
<1>3. CASE \E outcome \in Outcomes(r) : DispatchResult(r, outcome)
  <2>1. PICK outcome \in Outcomes(r) : DispatchResult(r, outcome)
    BY <1>3
  <2>2. taken \subseteq taken' /\ taken' \subseteq Keys /\ call' \in SUBSET Requests
    BY <2>1, ServerGrows DEF DispatchResult
  <2>3. UNCHANGED <<image, hydrated, reads, flush, crashes>>
    BY <2>1 DEF DispatchResult
  <2>4. CASE outcome = "conflict"
    <3> DEFINE item == Item(r, "conflict", 1)
    <3>1. Append1(item)
      BY <2>1, <2>4 DEF DispatchResult
    <3>2. WellFormed(item)
      BY SyncAssumption DEF Item, WellFormed, Action, States
    <3>3. Honest(item, taken')
      BY <2>2, <2>4 DEF Item, Honest, Outcomes
    <3> QED BY <2>2, <2>3, <3>1, <3>2, <3>3, Appending
  <2>5. CASE outcome \in {"lost", "retryable"}
    <3>1. Enqueue(r)
      BY <2>1, <2>5 DEF DispatchResult
    <3> QED BY <2>2, <2>3, <3>1, Enqueueing
  <2>6. CASE outcome \notin {"conflict", "lost", "retryable"}
    <3>1. UNCHANGED <<items, nextId, fate>>
      BY <2>1, <2>6 DEF DispatchResult
    <3> QED BY <2>2, <2>3, <3>1, ServerTakes
  <2> QED BY <2>4, <2>5, <2>6
<1> QED BY <1>1, <1>2, <1>3

LEMMA FlushStarting == ASSUME Inv, NEW o \in Options, FlushStart(o) PROVE Inv'
<1>1. ToRun(items, o) \subseteq DOMAIN items
  BY DEF ToRun
<1>2. DOMAIN flush' = {"items", "todo"} /\ flush'.items = items /\ flush'.todo = ToRun(items, o)
  BY DEF FlushStart, Copied
<1>3. UNCHANGED <<items, image, hydrated, reads, call, nextId, taken, fate, crashes>>
  BY DEF FlushStart
<1> QED BY <1>1, <1>2, <1>3 DEF Inv, Counted, Copies, NothingMissing, Flushing, Owed

\* The answer for an action makes the copy of the flush the queue.  The copy
\* misses no action that is owed; the one it drops has run.
LEMMA FlushAnswering ==
    ASSUME Inv, NEW id \in flush.todo, NEW outcome, FlushResult(id, outcome)
    PROVE  Inv'
<1> DEFINE s == flush.items
           key == s[id].key
           removed == outcome = "ok" /\ key = None
<1>1. id \in DOMAIN s /\ Sound(s, taken) /\ taken \subseteq Keys
  BY DEF Inv, Copies, Counted
<1>2. key \in Requests /\ WellFormed(s[id]) /\ Honest(s[id], taken)
  BY <1>1 DEF Sound, WellFormed, Action
<1>3. outcome \in Outcomes(key) /\ taken' = Effect(key, outcome) /\ items' = Answered(s, id, outcome)
  BY DEF FlushResult
<1>4. taken \subseteq taken' /\ taken' \subseteq Keys
  BY <1>1, <1>2, <1>3, ServerGrows
<1>5. Sound(s, taken') /\ Sound(image, taken')
  BY <1>4, SoundGrows DEF Inv, Copies
<1>6. /\ Sound(items', taken')
      /\ DOMAIN items' = IF removed THEN DOMAIN s \ {id} ELSE DOMAIN s
  <2>1. CASE removed
    <3>1. items' = Restrict(s, DOMAIN s \ {id})
      BY <1>3, <2>1 DEF Answered
    <3>2. DOMAIN s \ {id} \subseteq DOMAIN s
      OBVIOUS
    <3> QED BY <1>5, <2>1, <3>1, <3>2, RestrictIsSound
  <2>2. CASE ~removed
    <3> DEFINE item == AfterAnswer(s[id], outcome)
    <3>1. items' = [s EXCEPT ![id] = item]
      BY <1>3, <2>2 DEF Answered
    <3>2. WellFormed(item) /\ Honest(item, taken')
      BY <1>1, <1>2, <1>3, AnswerIsHonest
    <3> HIDE DEF item
    <3> QED BY <1>1, <1>5, <2>2, <3>1, <3>2, ChangeIsSound
  <2> QED BY <2>1, <2>2
<1>7. flush' = Remaining(items', flush.todo \ {id})
  BY DEF FlushResult
<1>8. UNCHANGED <<image, hydrated, reads, call, nextId, crashes>>
  BY DEF FlushResult
<1>9. Copies'
  <2>1. CASE flush.todo \ {id} = {}
    <3>1. flush' = NoFlush
      BY <1>7, <2>1 DEF Remaining
    <3> QED BY <1>5, <1>6, <1>8, <3>1, EmptyIsSound DEF Copies, NoFlush
  <2>2. CASE flush.todo \ {id} # {}
    <3>1. flush' = [items |-> items', todo |-> flush.todo \ {id}]
      BY <1>7, <2>2 DEF Remaining
    <3>2. flush.todo \ {id} \subseteq DOMAIN items'
      BY <1>6 DEF Inv, Copies
    <3> QED BY <1>5, <1>6, <1>8, <3>1, <3>2 DEF Copies
  <2> QED BY <2>1, <2>2
<1>10. /\ fate' \in [1 .. MaxActions -> {"none", "owed", "overlapped", "settled"}]
       /\ Owed' \subseteq Owed
       /\ removed => id \notin Owed'
  <2>1. CASE outcome = "ok"
    <3>1. fate' = Settle({id})
      BY <2>1 DEF FlushResult
    <3>2. fate \in [1 .. MaxActions -> {"none", "owed", "overlapped", "settled"}]
      BY DEF Inv, Counted
    <3>3. /\ fate' \in [1 .. MaxActions -> {"none", "owed", "overlapped", "settled"}]
          /\ Owed' = Owed \ {id}
      BY <3>1, <3>2, SettledIsNotOwed
    <3> QED BY <3>3
  <2>2. CASE outcome # "ok"
    BY <2>2 DEF FlushResult, Inv, Counted, Owed
  <2> QED BY <2>1, <2>2
<1>11. Counted'
  BY <1>4, <1>8, <1>10 DEF Inv, Counted
<1>12. Owed' \subseteq DOMAIN items'
  BY <1>6, <1>10 DEF Inv, NothingMissing, Flushing
<1>13. Flushing' => flush'.items = items'
  BY <1>7 DEF Remaining, NoFlush, Flushing
<1>14. NothingMissing'
  BY <1>8, <1>10, <1>12, <1>13 DEF Inv, NothingMissing
<1> QED BY <1>9, <1>11, <1>14 DEF Inv

\* A retry becomes due, and what the user does to an action.
LEMMA Editing ==
    ASSUME Inv, NEW id \in DOMAIN items,
           RetryDue(id) \/ RequeueAction(id) \/ DiscardAction(id)
    PROVE  Inv'
<1>1. Sound(items, taken) /\ WellFormed(items[id]) /\ Honest(items[id], taken)
  BY DEF Inv, Copies, Sound
<1>2. CASE RetryDue(id)
  <2> DEFINE item == [items[id] EXCEPT !.due = TRUE]
  <2>1. items' = [items EXCEPT ![id] = item]
    BY <1>2 DEF RetryDue
  <2>2. WellFormed(item) /\ Honest(item, taken)
    BY <1>1 DEF WellFormed, Honest, Action
  <2> HIDE DEF item
  <2>3. Sound(items', taken) /\ DOMAIN items' = DOMAIN items \ {}
    BY <1>1, <2>1, <2>2, ChangeIsSound
  <2> QED BY <1>2, <2>3, SettlesNothing, Replacing DEF RetryDue
<1>3. CASE RequeueAction(id)
  <2> DEFINE item == [items[id] EXCEPT !.state = "pending", !.retries = 0, !.due = TRUE]
  <2>1. items' = [items EXCEPT ![id] = item]
    BY <1>3 DEF RequeueAction
  <2>2. item \in Action /\ item.state = "pending"
    <3>1. items[id] \in Action /\ 0 \in 0 .. MaxRetries
      BY <1>1, SyncAssumption DEF WellFormed
    <3> QED BY <3>1 DEF Action, States
  <2>3. WellFormed(item) /\ Honest(item, taken)
    BY <2>2 DEF WellFormed, Honest
  <2> HIDE DEF item
  <2>4. Sound(items', taken) /\ DOMAIN items' = DOMAIN items \ {}
    BY <1>1, <2>1, <2>3, ChangeIsSound
  <2> QED BY <1>3, <2>4, SettlesNothing, Replacing DEF RequeueAction
<1>4. CASE DiscardAction(id)
  <2>1. DOMAIN items \ {id} \subseteq DOMAIN items
    OBVIOUS
  <2>2. Sound(items', taken) /\ DOMAIN items' = DOMAIN items \ {id}
    BY <1>1, <1>4, <2>1, RestrictIsSound DEF DiscardAction
  <2> QED BY <1>4, <2>2, Replacing DEF DiscardAction
<1> QED BY <1>2, <1>3, <1>4

LEMMA Clearing == ASSUME Inv, ClearSyncQueue PROVE Inv'
<1>1. Sound(items', taken) /\ DOMAIN items' = DOMAIN items \ DOMAIN items
  BY EmptyIsSound DEF ClearSyncQueue, NoItems
<1> QED BY <1>1, Replacing DEF ClearSyncQueue

\* A killed app leaves what is stored, which misses nothing.
LEMMA Crashing == ASSUME Inv, Crash PROVE Inv'
<1>1. taken \subseteq taken' /\ taken' \subseteq Keys
  <2>1. taken \subseteq Keys
    BY DEF Inv, Counted
  <2>2. CASE \E id \in flush.todo : Running(id) /\ taken' = Effect(flush.items[id].key, "ok")
    <3>1. PICK id \in flush.todo : taken' = Effect(flush.items[id].key, "ok")
      BY <2>2
    <3>2. flush.items[id].key \in Requests
      BY DEF Inv, Copies, Sound, WellFormed, Action
    <3> QED BY <2>1, <3>1, <3>2, ServerGrows
  <2>3. CASE \E r \in Requests : r \in call /\ taken' = Effect(r, "ok")
    BY <2>1, <2>3, ServerGrows
  <2> QED BY <2>1, <2>2, <2>3 DEF Crash
<1>2. Counted'
  <2>1. /\ crashes < MaxCrashes /\ crashes' = crashes + 1
        /\ hydrated' = FALSE /\ reads' = 0 /\ call' = {}
        /\ UNCHANGED <<nextId, fate>>
    BY DEF Crash
  <2>2. crashes' \in 0 .. MaxCrashes
    BY <2>1, SyncAssumption DEF Inv, Counted
  <2>3. reads' \in 0 .. MaxReads
    BY <2>1, SyncAssumption
  <2> QED BY <1>1, <2>1, <2>2, <2>3 DEF Inv, Counted
<1>3. Sound(items, taken')
  BY <1>1, SoundGrows DEF Inv, Copies
<1>4. Copies'
  BY <1>3, EmptyIsSound DEF Crash, Copies, NoFlush
<1>5. NothingMissing'
  BY DEF Crash, Inv, NothingMissing, Owed, Flushing, NoFlush
<1> QED BY <1>2, <1>4, <1>5 DEF Inv

-----------------------------------------------------------------------------
(* The results. *)

LEMMA NextKeepsInv == ASSUME Inv, [Next]_vars PROVE Inv'
<1>1. CASE Next
  <2>1. CASE \E key \in Keys : OtherOperator(key)
    BY <2>1, ServerTakes DEF OtherOperator, queue, Inv, Counted
  <2> QED BY <1>1, <2>1, Hydrating, Dispatching, FlushStarting, FlushAnswering,
             Editing, Clearing, Crashing DEF Next
<1>2. CASE UNCHANGED vars
  BY <1>2, ServerTakes DEF vars, Inv, Counted
<1> QED BY <1>1, <1>2

\* The queue, the copy of a flush and what a start-up read found are true to
\* the server and miss nothing that is owed, in every reachable state of
\* syncQueue.ts.
THEOREM InvHolds == Spec => []Inv
BY InitHolds, NextKeepsInv, PTL DEF Spec

\* Every variable of the queue keeps its type, and an action that waits for a
\* retry has retries left.
THEOREM TypesHold == Spec => []TypeOK
<1>1. Inv => TypeOK
  BY DEF Inv, Counted, Copies, Sound, WellFormed, Action, TypeOK, IsQueue
<1> QED BY <1>1, InvHolds, PTL

\* A claim that the submission queue shows as submitted, or as conflicting, is
\* one that the server has, whatever answers are lost and copies written back.
THEOREM ShownIsTrue == Spec => []StatesTellTheTruth
<1>1. Inv => StatesTellTheTruth
  BY DEF Inv, Copies, Sound, Honest, StatesTellTheTruth
<1> QED BY <1>1, InvHolds, PTL

\* An action queued while neither a flush nor a start-up read was under way
\* leaves the queue only by running or by the user's hand.
THEOREM SavedStays == Spec => []SavedIsKept
<1>1. Inv => SavedIsKept
  BY DEF Inv, NothingMissing, Owed, SavedIsKept
<1> QED BY <1>1, InvHolds, PTL

=============================================================================
