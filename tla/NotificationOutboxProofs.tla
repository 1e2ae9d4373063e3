---------------------- MODULE NotificationOutboxProofs ----------------------
(***************************************************************************)
(* What the outbox guarantees for every number of records, jobs,           *)
(* operators, attempts, failures and faults.                               *)
(*                                                                         *)
(* That a record has one job at a time is a matter of who may add the      *)
(* next one.  The right to add it is with the sender that has just created *)
(* the row, with the job in the queue, with the event that will give the   *)
(* record up, with the row that says dead_letter, or with the operator     *)
(* that claimed it: it passes from one to the next and is never doubled,   *)
(* except by the two replays that go around the row.                       *)
(***************************************************************************)
EXTENDS NotificationOutbox, TLAPS

Job ==
    [at : {"none", "waiting", "active", "completed", "failed"},
     rec : Records \cup {None}, made : Nat, attempts : Nat]

WorkerEvent ==
    [job : Jobs, made : Nat, status : {"sent", "enqueued", "dead_letter"},
     at : {"outbox", "dlq"}]

Op ==
    [at : {"idle", "claim", "add", "mark", "remove"}, rec : Records \cup {None},
     job : Jobs \cup {None}]

Circuit ==
    [state : {"closed", "open", "half_open"}, failures : 0 .. Threshold, due : BOOLEAN]

Typed ==
    /\ status \in [Records -> {"none", "pending", "enqueued", "sent", "dead_letter"}]
    /\ delivered \subseteq Records /\ forced \subseteq Records
    /\ send \in [Records -> {"none", "add", "mark", "done"}]
    /\ job \in [Jobs -> Job]
    /\ events \subseteq WorkerEvent
    /\ dlq \subseteq Jobs
    /\ op \in [Operators -> Op]

TypedCircuit == circuit \in Circuit /\ faults \in 0 .. MaxFaults

\* A job in the queue belongs to a record and has attempts left.
JobsConsistent ==
    \A j \in Jobs :
        /\ job[j].at = "none" => job[j] = NoJob
        /\ job[j].at # "none" => job[j].rec \in Records /\ send[job[j].rec] # "none"
        /\ Live(j) => job[j].made < job[j].attempts

\* An event is about an attempt that was made; one that gives a record up is
\* about a job that failed, one that says sent about a message that was taken.
EventsConsistent ==
    \A e \in events :
        /\ job[e.job].at # "none"
        /\ e.made <= job[e.job].made
        /\ e.status = "sent" => job[e.job].rec \in delivered /\ e.at = "outbox"
        /\ e.at = "dlq" => e.status = "dead_letter"
        /\ e.status = "dead_letter" => job[e.job].at = "failed"

OpsConsistent ==
    \A p \in Operators :
        /\ op[p].at \in {"claim", "add", "mark"}
             => op[p].rec \in Records /\ send[op[p].rec] # "none"
        /\ op[p].at = "remove" => op[p].job \in Jobs

\* Before sendEmail or sendSms there is no row.
UnsentIsEmpty == \A n \in Records : send[n] = "none" => status[n] = "none"

\* Who may add a job for a record.
Holders(n) ==
    {<<"sender", n>> : m \in {n} \cap {r \in Records : send[r] = "add"}}
    \cup {<<"row", n>> : m \in {n} \cap {r \in Records : status[r] = "dead_letter"}}
    \cup {<<"operator", p>> : p \in {q \in Operators : op[q].at = "add" /\ op[q].rec = n}}
    \cup {<<"job", j>> : j \in {k \in Jobs : Live(k) /\ job[k].rec = n}}
    \cup {<<"event", e>> : e \in {d \in events : d.status = "dead_letter" /\ job[d.job].rec = n}}

\* Unless a record was replayed around the row, one at most may.
OneHolder ==
    \A n \in Records \ forced : \A x, y \in Holders(n) : x = y

LettersAreDead == dlq \subseteq {j \in Jobs : job[j].at = "failed"}

Consistent ==
    /\ Typed
    /\ JobsConsistent /\ EventsConsistent /\ OpsConsistent
    /\ UnsentIsEmpty /\ LettersAreDead /\ SentWasDelivered

Inv ==
    /\ Consistent /\ OneHolder
    /\ TypedCircuit /\ CutOffIsEarned

-----------------------------------------------------------------------------
(* What the steps of the worker and the additions to the queue have in     *)
(* common.                                                                 *)

\* A worker's step moves one live job and emits at most one event about it.
Moved(j) ==
    /\ Live(j)
    /\ job' = [job EXCEPT ![j] = job'[j]]
    /\ job'[j] \in Job
    /\ job'[j].at # "none"
    /\ job'[j].rec = job[j].rec
    /\ job'[j].made >= job[j].made
    /\ Live(j)' => job'[j].made < job'[j].attempts
    /\ delivered' \in {delivered, delivered \cup {job[j].rec}}

Emitted(j) ==
    \/ events' = events /\ Live(j)'
    \/ \E e \in WorkerEvent :
        /\ events' = events \cup {e}
        /\ e.job = j /\ e.made <= job'[j].made
        /\ \/ e.status = "dead_letter" /\ job'[j].at = "failed"
           \/ e.status = "enqueued" /\ e.at = "outbox" /\ Live(j)'
           \/ /\ e.status = "sent" /\ e.at = "outbox"
              /\ job'[j].at = "completed" /\ job[j].rec \in delivered'

\* An attempt that fails leaves the job waiting or, after the last, failed.
LEMMA AttemptShape ==
    ASSUME OutboxAssumption, Typed, NEW j \in Jobs, Live(j), AttemptFails(j),
           UNCHANGED delivered
    PROVE  Moved(j) /\ Emitted(j)
<1> DEFINE made == AttemptsMade(job[j].made)
           exhausted == Exhausted(j, made)
           e == IF exhausted THEN [Event(j, made, "dead_letter") EXCEPT !.at = "dlq"]
                ELSE Event(j, made, "enqueued")
<1>1. job \in [Jobs -> Job] /\ job[j].made \in Nat /\ job[j].attempts \in Nat
  BY DEF Typed, Job
<1>2. /\ job' = [job EXCEPT ![j].at = IF exhausted THEN "failed" ELSE "waiting", ![j].made = made]
      /\ events' = events \cup {e}
  BY DEF AttemptFails
<1>3. /\ job'[j] \in Job
      /\ job'[j].at = IF exhausted THEN "failed" ELSE "waiting"
      /\ job'[j].rec = job[j].rec
      /\ job'[j].made = job[j].made + 1
      /\ job'[j].attempts = job[j].attempts
      /\ job' = [job EXCEPT ![j] = job'[j]]
  BY <1>1, <1>2 DEF AttemptsMade, Job
<1>4. ~exhausted => job[j].made + 1 < job[j].attempts
  BY <1>1 DEF Exhausted, AttemptsMade
<1>5. /\ e \in WorkerEvent /\ e.job = j /\ e.made = job[j].made + 1
      /\ exhausted => e.status = "dead_letter"
      /\ ~exhausted => e.status = "enqueued" /\ e.at = "outbox"
  BY <1>1 DEF Event, WorkerEvent, AttemptsMade
<1> HIDE DEF made, exhausted, e
<1> QED
  BY <1>1, <1>2, <1>3, <1>4, <1>5 DEF Moved, Emitted, Live

\* Taking a job, delivering, failing before it and dying under it.
LEMMA WorkerShape ==
    ASSUME OutboxAssumption, Typed, JobsConsistent, NEW j \in Jobs,
           Working(j) \/ StartFails(j) \/ WorkerDies(j)
    PROVE  /\ Moved(j) /\ Emitted(j)
           /\ UNCHANGED <<status, send, dlq, op, forced>>
<1>1. /\ job \in [Jobs -> Job]
      /\ job[j].made \in Nat /\ job[j].attempts \in Nat
      /\ Live(j) => job[j].made < job[j].attempts
  BY DEF Typed, Job, JobsConsistent
<1>2. ASSUME NEW at \in {"waiting", "active", "completed"},
             job' = [job EXCEPT ![j].at = at], Live(j),
             delivered' \in {delivered, delivered \cup {job[j].rec}}
      PROVE  /\ Moved(j)
             /\ job'[j].at = at
             /\ job'[j].made = job[j].made
  BY <1>1, <1>2 DEF Moved, Live, Job
<1>3. CASE Start(j)
  <2>1. Live(j) /\ UNCHANGED <<status, delivered, send, dlq, op, forced>>
    BY <1>3 DEF Start, Live
  <2>2. CASE Allowed(circuit)
    <3>1. job' = [job EXCEPT ![j].at = "active"] /\ events' = events
      BY <1>3, <2>2 DEF Start
    <3> QED
      BY <1>2, <2>1, <3>1 DEF Emitted, Live
  <2>3. CASE ~Allowed(circuit)
    BY <1>3, <2>1, <2>3, AttemptShape DEF Start
  <2> QED
    BY <2>2, <2>3
<1>4. ASSUME NEW success \in BOOLEAN, Deliver(j, success)
      PROVE  /\ Moved(j) /\ Emitted(j)
             /\ UNCHANGED <<status, send, dlq, op, forced>>
  <2>1. Live(j) /\ UNCHANGED <<status, send, dlq, op, forced>>
    BY <1>4 DEF Deliver, Live
  <2>2. CASE success
    <3>1. /\ job' = [job EXCEPT ![j].at = "completed"]
          /\ events' = events \cup {Event(j, job[j].made, "sent")}
          /\ delivered' = delivered \cup {job[j].rec}
      BY <1>4, <2>2 DEF Deliver, Completes
    <3>2. Moved(j) /\ job'[j].at = "completed" /\ job'[j].made = job[j].made
      BY <1>2, <2>1, <3>1
    <3>3. /\ Event(j, job[j].made, "sent") \in WorkerEvent
          /\ Event(j, job[j].made, "sent").job = j
          /\ Event(j, job[j].made, "sent").made = job[j].made
          /\ Event(j, job[j].made, "sent").status = "sent"
          /\ Event(j, job[j].made, "sent").at = "outbox"
      BY <1>1 DEF Event, WorkerEvent
    <3>4. job[j].made <= job'[j].made /\ job[j].rec \in delivered'
      BY <1>1, <3>1, <3>2
    <3> QED
      BY <2>1, <3>1, <3>2, <3>3, <3>4 DEF Emitted
  <2>3. CASE ~success
    BY <1>4, <2>1, <2>3, AttemptShape DEF Deliver, Completes
  <2> QED
    BY <2>2, <2>3
<1>5. CASE StartFails(j)
  BY <1>5, AttemptShape DEF StartFails, Live
<1>6. CASE WorkerDies(j)
  BY <1>2, <1>6 DEF WorkerDies, Emitted, Live
<1> QED
  BY <1>3, <1>4, <1>5, <1>6 DEF Working

\* A job is added for a record that was sent once, and with attempts to make.
Added(j, n) ==
    /\ job[j] = NoJob
    /\ n \in Records /\ send[n] # "none"
    /\ \E a \in Nat \ {0} :
        job' = [job EXCEPT ![j] = [at |-> "waiting", rec |-> n, made |-> 0, attempts |-> a]]
    /\ UNCHANGED events

-----------------------------------------------------------------------------
(* The circuit breaker. *)

\* Each operation of the breaker returns a state of it, cut off exactly when
\* the threshold has been reached if that was so before.
LEMMA BreakerOperations ==
    ASSUME OutboxAssumption, NEW c \in Circuit,
           (c.state # "closed") = (c.failures >= Threshold),
           NEW d \in {c, AfterAssert(c), RecordSuccess(c), RecordFailure(c)}
    PROVE  d \in Circuit /\ (d.state # "closed") = (d.failures >= Threshold)
<1>1. c.failures \in 0 .. Threshold /\ Threshold \in Nat \ {0}
  BY DEF Circuit, OutboxAssumption
<1>2. ASSUME NEW x \in Circuit
      PROVE  Opened(x) \in Circuit /\ Opened(x).state = "open" /\ Opened(x).failures = x.failures
  BY DEF Circuit, Opened
<1>3. CASE d = AfterAssert(c)
  <2> DEFINE probe == [c EXCEPT !.state = "half_open", !.due = FALSE]
  <2>1. probe \in Circuit /\ probe.state = "half_open" /\ probe.failures = c.failures
    BY DEF Circuit
  <2>2. \/ d = probe /\ c.state = "open"
        \/ d = Opened(c) /\ c.state = "half_open"
        \/ d = c
    BY <1>3 DEF AfterAssert
  <2> QED
    BY <1>2, <2>1, <2>2
<1>4. CASE d = RecordSuccess(c)
  BY <1>1, <1>4 DEF RecordSuccess, Circuit
<1>5. CASE d = RecordFailure(c)
  <2> DEFINE counted == [c EXCEPT !.failures = IF @ < Threshold THEN @ + 1 ELSE @]
  <2>1. /\ counted \in Circuit /\ counted.state = c.state
        /\ counted.failures = IF c.failures < Threshold THEN c.failures + 1 ELSE c.failures
    BY <1>1 DEF Circuit
  <2>2. d = IF counted.failures >= Threshold THEN Opened(counted) ELSE counted
    BY <1>5 DEF RecordFailure
  <2> HIDE DEF counted
  <2> QED
    BY <1>1, <1>2, <2>1, <2>2
<1> QED
  BY <1>3, <1>4, <1>5

\* assertAttemptAllowed, recordSuccess, recordFailure and the passing of the
\* probe window keep the breaker's state in step with its count.
LEMMA CircuitStep ==
    ASSUME OutboxAssumption, TypedCircuit, CutOffIsEarned, [Next]_vars
    PROVE  TypedCircuit' /\ CutOffIsEarned'
<1>1. \/ circuit' \in {circuit, AfterAssert(circuit), RecordSuccess(circuit), RecordFailure(circuit)}
      \/ circuit' = [circuit EXCEPT !.due = TRUE]
  BY DEF Next, vars, Sending, CreateOutbox, Enqueue, MarkEnqueued, SendFails, Working, Start,
         Deliver, StartFails, WorkerDies, MoveToDlq, UpdateOutbox, Replaying, Replay, Claim,
         ReplayAdd, ReplayDone, ReplayFails, ReplayJob, RemoveFromDlq, ProbeWindow
<1>2. circuit' \in Circuit /\ (circuit'.state # "closed") = (circuit'.failures >= Threshold)
  <2>1. CASE circuit' = [circuit EXCEPT !.due = TRUE]
    BY <2>1 DEF TypedCircuit, Circuit, CutOffIsEarned
  <2> QED
    BY <1>1, <2>1, BreakerOperations DEF TypedCircuit, CutOffIsEarned
<1>3. faults' = faults \/ Fault
  BY DEF Next, vars, Sending, CreateOutbox, Enqueue, MarkEnqueued, SendFails, Working, Start,
         Deliver, StartFails, WorkerDies, MoveToDlq, UpdateOutbox, Replaying, Replay, Claim,
         ReplayAdd, ReplayDone, ReplayFails, ReplayJob, RemoveFromDlq, ProbeWindow
<1> QED
  BY <1>2, <1>3 DEF TypedCircuit, CutOffIsEarned, Fault, OutboxAssumption

-----------------------------------------------------------------------------
(* The groups of steps keep rows, jobs, events and operators consistent. *)

\* A step of the worker.
LEMMA WorkerKeeps ==
    ASSUME OutboxAssumption, Consistent, NEW j \in Jobs, Moved(j), Emitted(j),
           UNCHANGED <<status, send, dlq, op, forced>>
    PROVE  Consistent'
<1>1. /\ job \in [Jobs -> Job] /\ job[j].rec \in Records
      /\ job[j].at # "none" /\ job[j].at # "failed"
      /\ send[job[j].rec] # "none"
  BY DEF Consistent, Typed, JobsConsistent, Moved, Live
<1>2. Typed'
  BY <1>1 DEF Consistent, Typed, Moved, Emitted
<1>3. JobsConsistent'
  BY <1>1 DEF Consistent, JobsConsistent, Moved, Live
<1>4. \A k \in Jobs : k # j => job'[k] = job[k]
  BY <1>1 DEF Moved
<1>5. ASSUME NEW e \in events
      PROVE  /\ e.job \in Jobs
             /\ job'[e.job].at # "none"
             /\ e.made <= job'[e.job].made
             /\ e.status = "sent" => job'[e.job].rec \in delivered' /\ e.at = "outbox"
             /\ e.at = "dlq" => e.status = "dead_letter"
             /\ e.status = "dead_letter" => job'[e.job].at = "failed"
  <2>1. e \in WorkerEvent /\ e.job \in Jobs /\ e.made \in Nat
    BY DEF Consistent, Typed, WorkerEvent
  <2>2. job[e.job].made \in Nat /\ job'[j].made \in Nat /\ job[j].made \in Nat
    BY <1>1, <2>1 DEF Job, Moved
  <2> QED
    BY <1>1, <1>4, <2>1, <2>2 DEF Consistent, EventsConsistent, Moved
<1>6. EventsConsistent'
  BY <1>5 DEF EventsConsistent, Emitted, Moved, Live
<1>7. OpsConsistent' /\ UnsentIsEmpty' /\ SentWasDelivered'
  BY DEF Consistent, OpsConsistent, UnsentIsEmpty, SentWasDelivered, Moved
<1>8. LettersAreDead'
  BY <1>1, <1>4 DEF Consistent, LettersAreDead
<1> QED
  BY <1>2, <1>3, <1>6, <1>7, <1>8 DEF Consistent

\* A job is added, by whomever.
LEMMA AddKeeps ==
    ASSUME OutboxAssumption, Consistent, NEW j \in Jobs, NEW n \in Records, Added(j, n),
           UNCHANGED <<status, delivered, dlq>>,
           forced' \subseteq Records,
           send' \in [Records -> {"none", "add", "mark", "done"}],
           \A m \in Records : send'[m] = "none" <=> send[m] = "none",
           op' \in [Operators -> Op], OpsConsistent'
    PROVE  Consistent'
<1>1. /\ job \in [Jobs -> Job]
      /\ job[j].at = "none"
      /\ \A k \in Jobs : k # j => job'[k] = job[k]
      /\ job' \in [Jobs -> Job]
      /\ job'[j].at = "waiting" /\ job'[j].rec = n
      /\ job'[j].made < job'[j].attempts
  BY DEF Consistent, Typed, Added, NoJob, Job
<1>2. Typed'
  BY <1>1 DEF Consistent, Typed, Added
<1>3. JobsConsistent'
  BY <1>1 DEF Consistent, Typed, Job, JobsConsistent, Added, Live
<1>4. \A e \in events : e.job \in Jobs /\ e.job # j
  BY <1>1 DEF Consistent, Typed, WorkerEvent, EventsConsistent
<1>5. EventsConsistent'
  BY <1>1, <1>4 DEF Consistent, EventsConsistent, Added
<1>6. UnsentIsEmpty' /\ SentWasDelivered'
  BY DEF Consistent, UnsentIsEmpty, SentWasDelivered
<1>7. LettersAreDead'
  BY <1>1 DEF Consistent, LettersAreDead
<1> QED
  BY <1>2, <1>3, <1>5, <1>6, <1>7 DEF Consistent

\* sendEmail and sendSms write the row.
LEMMA SendKeeps ==
    ASSUME Consistent, NEW n \in Records, CreateOutbox(n) \/ MarkEnqueued(n) \/ SendFails(n)
    PROVE  Consistent'
<1>1. /\ UNCHANGED <<delivered, job, events, dlq, op, forced>>
      /\ \A m \in Records : send[m] # "none" => send'[m] # "none"
      /\ Typed'
  BY DEF CreateOutbox, MarkEnqueued, SendFails, SetStatus, Consistent, Typed
<1>2. UnsentIsEmpty'
  BY DEF CreateOutbox, MarkEnqueued, SendFails, SetStatus, Consistent, Typed, UnsentIsEmpty
<1>3. SentWasDelivered'
  BY DEF CreateOutbox, MarkEnqueued, SendFails, SetStatus, Consistent, Typed, SentWasDelivered
<1>4. JobsConsistent' /\ EventsConsistent' /\ OpsConsistent' /\ LettersAreDead'
  BY <1>1 DEF Consistent, JobsConsistent, EventsConsistent, OpsConsistent, LettersAreDead, Live
<1> QED
  BY <1>1, <1>2, <1>3, <1>4 DEF Consistent

\* The handlers of worker events.
LEMMA EventKeeps ==
    ASSUME Consistent, NEW e \in events, MoveToDlq(e) \/ UpdateOutbox(e)
    PROVE  Consistent'
<1>1. /\ e \in WorkerEvent /\ e.job \in Jobs
      /\ job[e.job].rec \in Records
      /\ send[job[e.job].rec] # "none"
      /\ e.status = "sent" => job[e.job].rec \in delivered
      /\ e.at = "dlq" => e.status = "dead_letter" /\ job[e.job].at = "failed"
  BY DEF Consistent, Typed, WorkerEvent, EventsConsistent, JobsConsistent
<1>2. CASE MoveToDlq(e)
  <2> DEFINE f == [e EXCEPT !.at = "outbox"]
  <2>1. /\ f \in WorkerEvent /\ f.job = e.job /\ f.made = e.made
        /\ f.status = "dead_letter" /\ f.at = "outbox"
    BY <1>1, <1>2 DEF WorkerEvent, MoveToDlq
  <2>2. /\ events' = (events \ {e}) \cup {f}
        /\ dlq' \in {dlq, dlq \cup {e.job}}
        /\ UNCHANGED <<status, delivered, send, job, op, forced>>
    BY <1>2 DEF MoveToDlq
  <2> HIDE DEF f
  <2>3. Typed'
    BY <1>1, <2>1, <2>2 DEF Consistent, Typed
  <2>4. EventsConsistent'
    BY <1>1, <1>2, <2>1, <2>2 DEF Consistent, EventsConsistent, MoveToDlq
  <2>5. LettersAreDead'
    BY <1>1, <1>2, <2>2 DEF Consistent, LettersAreDead, MoveToDlq
  <2>6. JobsConsistent' /\ OpsConsistent' /\ UnsentIsEmpty' /\ SentWasDelivered'
    BY <2>2 DEF Consistent, JobsConsistent, OpsConsistent, UnsentIsEmpty, SentWasDelivered, Live
  <2> QED
    BY <2>3, <2>4, <2>5, <2>6 DEF Consistent
<1>3. CASE UpdateOutbox(e)
  <2>1. /\ events' = events \ {e}
        /\ status' = status \/ status' = [status EXCEPT ![job[e.job].rec] = e.status]
        /\ UNCHANGED <<delivered, send, job, dlq, op, forced>>
    BY <1>3 DEF UpdateOutbox, SetStatus
  <2>2. Typed'
    BY <1>1, <2>1 DEF Consistent, Typed, WorkerEvent
  <2>3. UnsentIsEmpty' /\ SentWasDelivered'
    BY <1>1, <2>1 DEF Consistent, Typed, UnsentIsEmpty, SentWasDelivered
  <2>4. JobsConsistent' /\ EventsConsistent' /\ OpsConsistent' /\ LettersAreDead'
    BY <2>1 DEF Consistent, JobsConsistent, EventsConsistent, OpsConsistent, LettersAreDead, Live
  <2> QED
    BY <2>2, <2>3, <2>4 DEF Consistent
<1> QED
  BY <1>2, <1>3

\* The steps of a replay that add no job.
LEMMA ReplayKeeps ==
    ASSUME Consistent, NEW p \in Operators,
           \/ \E n \in Records : Replay(p, n)
           \/ Claim(p) \/ ReplayDone(p) \/ ReplayFails(p) \/ RemoveFromDlq(p)
    PROVE  Consistent'
<1>1. /\ op \in [Operators -> Op]
      /\ op[p].at \in {"claim", "add", "mark"} => op[p].rec \in Records /\ send[op[p].rec] # "none"
  BY DEF Consistent, Typed, OpsConsistent
<1>2. /\ UNCHANGED <<delivered, send, job, events>>
      /\ dlq' \subseteq dlq
      /\ \/ status' = status
         \/ /\ op[p].at \in {"claim", "add", "mark"}
            /\ \E s \in {"enqueued", "dead_letter"} : status' = [status EXCEPT ![op[p].rec] = s]
      /\ forced' \in {forced, forced \cup {op[p].rec}}
      /\ forced' # forced => op[p].at = "mark"
  BY DEF Replay, Claim, ReplayDone, ReplayFails, RemoveFromDlq, SetStatus
<1>3. \E at \in {"idle", "claim", "add"}, n \in Records \cup {None} :
        /\ op' = [op EXCEPT ![p] = [at |-> at, rec |-> n, job |-> None]]
        /\ at # "idle" => n \in Records /\ send[n] # "none"
  <2>1. ASSUME NEW n \in Records, Replay(p, n)
        PROVE  <1>3
    BY <2>1 DEF Replay, Goto, Consistent, UnsentIsEmpty
  <2>2. CASE Claim(p)
    BY <1>1, <2>2 DEF Claim, Goto
  <2>3. CASE ReplayDone(p) \/ ReplayFails(p) \/ RemoveFromDlq(p)
    BY <2>3 DEF ReplayDone, ReplayFails, RemoveFromDlq, Goto
  <2> QED
    BY <2>1, <2>2, <2>3
<1>4. op' \in [Operators -> Op] /\ OpsConsistent'
  BY <1>1, <1>2, <1>3 DEF Op, Consistent, OpsConsistent
<1>5. Typed'
  BY <1>1, <1>2, <1>4 DEF Consistent, Typed
<1>6. UnsentIsEmpty' /\ SentWasDelivered'
  BY <1>1, <1>2 DEF Consistent, Typed, UnsentIsEmpty, SentWasDelivered
<1>7. JobsConsistent' /\ EventsConsistent' /\ LettersAreDead'
  BY <1>2 DEF Consistent, JobsConsistent, EventsConsistent, LettersAreDead, Live
<1> QED
  BY <1>4, <1>5, <1>6, <1>7 DEF Consistent

\* The three ways a job is added: by the sender, by a replay of the row, and
\* by a replay of a dead letter, which forces the record.
LEMMA AddShape ==
    ASSUME OutboxAssumption, Consistent, NEW j \in Jobs,
           \/ \E n \in Records : Enqueue(n, j)
           \/ \E p \in Operators : ReplayAdd(p, j) \/ \E d \in Jobs : ReplayJob(p, d, j)
    PROVE  \E n \in Records :
             /\ Added(j, n)
             /\ UNCHANGED <<status, delivered, dlq>>
             /\ \/ /\ send[n] = "add" /\ send' = [send EXCEPT ![n] = "mark"]
                   /\ UNCHANGED <<op, forced>>
                \/ /\ \E p \in Operators :
                        /\ op[p].at = "add" /\ op[p].rec = n
                        /\ op' = [op EXCEPT ![p] = [at |-> "mark", rec |-> n, job |-> j]]
                   /\ UNCHANGED <<send, forced>>
                \/ /\ \E p \in Operators, d \in Jobs :
                        op' = [op EXCEPT ![p] = [at |-> "remove", rec |-> None, job |-> d]]
                   /\ forced' = forced \cup {n}
                   /\ UNCHANGED send
<1>1. MaxAttempts \in Nat \ {0} /\ 1 \in Nat \ {0}
  BY DEF OutboxAssumption
<1>2. ASSUME NEW n \in Records, Enqueue(n, j)
      PROVE  Added(j, n) /\ UNCHANGED <<status, delivered, dlq, op, forced>>
             /\ send[n] = "add" /\ send' = [send EXCEPT ![n] = "mark"]
  BY <1>1, <1>2 DEF Enqueue, AddJob, Added
<1>3. ASSUME NEW p \in Operators, ReplayAdd(p, j)
      PROVE  /\ op[p].rec \in Records /\ op[p].at = "add" /\ Added(j, op[p].rec)
             /\ op' = [op EXCEPT ![p] = [at |-> "mark", rec |-> op[p].rec, job |-> j]]
             /\ UNCHANGED <<status, delivered, dlq, send, forced>>
  BY <1>1, <1>3 DEF ReplayAdd, AddJob, Added, Goto, Consistent, OpsConsistent
<1>4. ASSUME NEW p \in Operators, NEW d \in Jobs, ReplayJob(p, d, j)
      PROVE  /\ job[d].rec \in Records /\ Added(j, job[d].rec)
             /\ op' = [op EXCEPT ![p] = [at |-> "remove", rec |-> None, job |-> d]]
             /\ forced' = forced \cup {job[d].rec}
             /\ UNCHANGED <<status, delivered, dlq, send>>
  <2>1. job[d].at # "none"
    BY <1>4 DEF ReplayJob, Consistent, LettersAreDead
  <2> QED
    BY <1>1, <1>4, <2>1 DEF ReplayJob, AddJob, Added, Goto, Consistent, JobsConsistent
<1> QED
  BY <1>2, <1>3, <1>4

\* Every step keeps rows, jobs, events and operators consistent.
LEMMA ConsistentStep ==
    ASSUME OutboxAssumption, Consistent, [Next]_vars
    PROVE  Consistent'
<1>1. ASSUME NEW n \in Records, CreateOutbox(n) \/ MarkEnqueued(n) \/ SendFails(n)
      PROVE  Consistent'
  BY <1>1, SendKeeps
<1>2. ASSUME NEW j \in Jobs,
             \/ \E n \in Records : Enqueue(n, j)
             \/ \E p \in Operators : ReplayAdd(p, j) \/ \E d \in Jobs : ReplayJob(p, d, j)
      PROVE  Consistent'
  <2>1. PICK n \in Records :
             /\ Added(j, n)
             /\ UNCHANGED <<status, delivered, dlq>>
             /\ \/ /\ send[n] = "add" /\ send' = [send EXCEPT ![n] = "mark"]
                   /\ UNCHANGED <<op, forced>>
                \/ /\ \E p \in Operators :
                        /\ op[p].at = "add" /\ op[p].rec = n
                        /\ op' = [op EXCEPT ![p] = [at |-> "mark", rec |-> n, job |-> j]]
                   /\ UNCHANGED <<send, forced>>
                \/ /\ \E p \in Operators, d \in Jobs :
                        op' = [op EXCEPT ![p] = [at |-> "remove", rec |-> None, job |-> d]]
                   /\ forced' = forced \cup {n}
                   /\ UNCHANGED send
    BY <1>2, AddShape
  <2>2. /\ forced' \subseteq Records
        /\ send' \in [Records -> {"none", "add", "mark", "done"}]
        /\ \A m \in Records : send'[m] = "none" <=> send[m] = "none"
    BY <2>1 DEF Consistent, Typed
  <2>3. op' \in [Operators -> Op] /\ OpsConsistent'
    BY <2>1, <2>2 DEF Consistent, Typed, Op, OpsConsistent, Added
  <2> QED
    BY <2>1, <2>2, <2>3, AddKeeps
<1>3. ASSUME NEW j \in Jobs, Working(j) \/ StartFails(j) \/ WorkerDies(j)
      PROVE  Consistent'
  BY <1>3, WorkerShape, WorkerKeeps DEF Consistent
<1>4. ASSUME NEW e \in events, MoveToDlq(e) \/ UpdateOutbox(e)
      PROVE  Consistent'
  BY <1>4, EventKeeps
<1>5. ASSUME NEW p \in Operators,
             \/ \E n \in Records : Replay(p, n)
             \/ Claim(p) \/ ReplayDone(p) \/ ReplayFails(p) \/ RemoveFromDlq(p)
      PROVE  Consistent'
  BY <1>5, ReplayKeeps
<1>6. CASE UNCHANGED <<status, delivered, send, job, events, dlq, op, forced>>
  BY <1>6 DEF Consistent, Typed, JobsConsistent, EventsConsistent, OpsConsistent, UnsentIsEmpty,
              LettersAreDead, SentWasDelivered, Live
<1> QED
  BY <1>1, <1>2, <1>3, <1>4, <1>5, <1>6 DEF Next, vars, Sending, Replaying, ProbeWindow

-----------------------------------------------------------------------------
(* The right to add a job is passed on and never doubled. *)

\* The holders of a record, kind by kind.
LEMMA HoldersAre ==
    ASSUME NEW n \in Records, NEW h
    PROVE  /\ h \in Holders(n) <=>
                \/ h = <<"sender", n>> /\ send[n] = "add"
                \/ h = <<"row", n>> /\ status[n] = "dead_letter"
                \/ \E p \in Operators : h = <<"operator", p>> /\ op[p].at = "add" /\ op[p].rec = n
                \/ \E j \in Jobs : h = <<"job", j>> /\ Live(j) /\ job[j].rec = n
                \/ \E e \in events :
                     h = <<"event", e>> /\ e.status = "dead_letter" /\ job[e.job].rec = n
           /\ h \in Holders(n)' <=>
                \/ h = <<"sender", n>> /\ send'[n] = "add"
                \/ h = <<"row", n>> /\ status'[n] = "dead_letter"
                \/ \E p \in Operators : h = <<"operator", p>> /\ op'[p].at = "add" /\ op'[p].rec = n
                \/ \E j \in Jobs : h = <<"job", j>> /\ Live(j)' /\ job'[j].rec = n
                \/ \E e \in events' :
                     h = <<"event", e>> /\ e.status = "dead_letter" /\ job'[e.job].rec = n
BY DEF Holders

\* A step after which nobody holds it who did not before.
LEMMA NobodyNew ==
    ASSUME NEW n \in Records, Holders(n)' \subseteq Holders(n),
           \A x, y \in Holders(n) : x = y
    PROVE  \A x, y \in Holders(n)' : x = y
OBVIOUS

\* A step that passes it on: the one who held it does no more.
LEMMA PassedOn ==
    ASSUME NEW n \in Records, NEW x \in Holders(n), NEW y,
           x \notin Holders(n)', Holders(n)' \subseteq Holders(n) \cup {y},
           \A u, v \in Holders(n) : u = v
    PROVE  \A u, v \in Holders(n)' : u = v
OBVIOUS

\* A worker's step: from the job that failed to the event that gives it up.
LEMMA WorkerPasses ==
    ASSUME Consistent, OneHolder, NEW j \in Jobs, Moved(j), Emitted(j),
           UNCHANGED <<status, send, dlq, op, forced>>
    PROVE  OneHolder'
<1> SUFFICES ASSUME NEW n \in Records \ forced
             PROVE  \A x, y \in Holders(n)' : x = y
  BY DEF OneHolder
<1>1. \A x, y \in Holders(n) : x = y
  BY DEF OneHolder
<1>2. /\ \A k \in Jobs : k # j => job'[k] = job[k] /\ Live(k)' = Live(k)
      /\ \A k \in Jobs : job'[k].rec = job[k].rec
      /\ Live(j)
      /\ \A e \in events : e.job \in Jobs
  BY DEF Consistent, Typed, WorkerEvent, Moved, Live
<1>3. ASSUME NEW h \in Holders(n)', h \notin Holders(n)
      PROVE  \E e \in events' : h = <<"event", e>> /\ e \notin events /\ e.status = "dead_letter"
  BY <1>2, <1>3, HoldersAre
<1>4. CASE Holders(n)' \subseteq Holders(n)
  BY <1>1, <1>4, NobodyNew
<1>5. CASE ~(Holders(n)' \subseteq Holders(n))
  <2>1. PICK e \in events' : /\ <<"event", e>> \in Holders(n)'
                             /\ e \notin events /\ e.status = "dead_letter"
    BY <1>3, <1>5
  <2>2. /\ events' = events \cup {e} /\ e.job = j
        /\ job'[j].at = "failed"
    BY <2>1 DEF Emitted, Live
  <2>3. job[j].rec = n
    BY <1>2, <2>1, <2>2, HoldersAre
  <2>4. <<"job", j>> \in Holders(n)
    BY <1>2, <2>3, HoldersAre
  <2>5. <<"job", j>> \notin Holders(n)'
    BY <2>2, HoldersAre DEF Live
  <2>6. Holders(n)' \subseteq Holders(n) \cup {<<"event", e>>}
    BY <1>3, <2>1, <2>2
  <2> QED
    BY <1>1, <2>4, <2>5, <2>6, PassedOn
<1> QED
  BY <1>4, <1>5

\* An addition: from the sender or the operator to the job.
LEMMA AddPasses ==
    ASSUME Consistent, OneHolder, NEW j \in Jobs, NEW m \in Records, Added(j, m),
           UNCHANGED status,
           \/ /\ send[m] = "add" /\ send' = [send EXCEPT ![m] = "mark"]
              /\ UNCHANGED <<op, forced>>
           \/ /\ \E p \in Operators :
                   /\ op[p].at = "add" /\ op[p].rec = m
                   /\ op' = [op EXCEPT ![p] = [at |-> "mark", rec |-> m, job |-> j]]
              /\ UNCHANGED <<send, forced>>
           \/ /\ \E p \in Operators, d \in Jobs :
                   op' = [op EXCEPT ![p] = [at |-> "remove", rec |-> None, job |-> d]]
              /\ forced' = forced \cup {m}
              /\ UNCHANGED send
    PROVE  OneHolder'
<1> SUFFICES ASSUME NEW n \in Records \ forced'
             PROVE  \A x, y \in Holders(n)' : x = y
  BY DEF OneHolder
<1>1. \A x, y \in Holders(n) : x = y
  BY DEF OneHolder
<1>2. /\ \A k \in Jobs : k # j => job'[k] = job[k] /\ Live(k)' = Live(k)
      /\ job'[j].rec = m
      /\ \A e \in events : e.job \in Jobs /\ e.job # j
      /\ events' = events
  BY DEF Consistent, Typed, WorkerEvent, EventsConsistent, NoJob, Added, Live
<1>3. \A i \in Records : send'[i] = "add" => send[i] = "add"
  BY DEF Consistent, Typed
<1>4. \A q \in Operators : op'[q].at = "add" => op'[q] = op[q]
  BY DEF Consistent, Typed
<1>5. ASSUME NEW h \in Holders(n)', h \notin Holders(n)
      PROVE  h = <<"job", j>> /\ m = n
  BY <1>2, <1>3, <1>4, <1>5, HoldersAre
<1>6. CASE Holders(n)' \subseteq Holders(n)
  BY <1>1, <1>6, NobodyNew
<1>7. CASE ~(Holders(n)' \subseteq Holders(n))
  <2>1. m = n /\ Holders(n)' \subseteq Holders(n) \cup {<<"job", j>>}
    BY <1>5, <1>7
  <2>2. CASE send[m] = "add" /\ send' = [send EXCEPT ![m] = "mark"]
    <3>1. <<"sender", n>> \in Holders(n)
      BY <2>1, <2>2, HoldersAre
    <3>2. <<"sender", n>> \notin Holders(n)'
      BY <2>1, <2>2, HoldersAre DEF Consistent, Typed
    <3> QED
      BY <1>1, <2>1, <3>1, <3>2, PassedOn
  <2>3. ASSUME NEW p \in Operators, op[p].at = "add", op[p].rec = m,
               op' = [op EXCEPT ![p] = [at |-> "mark", rec |-> m, job |-> j]]
        PROVE  \A x, y \in Holders(n)' : x = y
    <3>1. <<"operator", p>> \in Holders(n)
      BY <2>1, <2>3, HoldersAre
    <3>2. <<"operator", p>> \notin Holders(n)'
      BY <2>1, <2>3, HoldersAre DEF Consistent, Typed
    <3> QED
      BY <1>1, <2>1, <3>1, <3>2, PassedOn
  <2> QED
    BY <2>1, <2>2, <2>3
<1> QED
  BY <1>6, <1>7

\* sendEmail and sendSms: the first holder of a new record.
LEMMA SendPasses ==
    ASSUME Consistent, OneHolder, NEW m \in Records,
           CreateOutbox(m) \/ MarkEnqueued(m) \/ SendFails(m)
    PROVE  OneHolder'
<1> SUFFICES ASSUME NEW n \in Records \ forced
             PROVE  \A x, y \in Holders(n)' : x = y
  BY DEF OneHolder, CreateOutbox, MarkEnqueued, SendFails
<1>1. \A x, y \in Holders(n) : x = y
  BY DEF OneHolder
<1>2. UNCHANGED <<job, events, op>> /\ \A k \in Jobs : Live(k)' = Live(k)
  BY DEF CreateOutbox, MarkEnqueued, SendFails, Live
<1>3. \A i \in Records : status'[i] = "dead_letter" => status[i] = "dead_letter"
  BY DEF CreateOutbox, MarkEnqueued, SendFails, SetStatus, Consistent, Typed
<1>4. CASE CreateOutbox(m) /\ n = m
  <2>1. /\ send[n] = "none" /\ status[n] = "none"
        /\ \A j \in Jobs : job[j].at # "none" => job[j].rec # n
        /\ \A j \in Jobs : Live(j) => job[j].at # "none"
        /\ \A e \in events : e.job \in Jobs /\ job[e.job].at # "none"
        /\ \A p \in Operators : op[p].at = "add" => op[p].rec # n
    BY <1>4 DEF CreateOutbox, Consistent, Typed, WorkerEvent, UnsentIsEmpty, JobsConsistent,
                EventsConsistent, OpsConsistent, Live
  <2>2. Holders(n) = {}
    BY <2>1, HoldersAre
  <2>3. Holders(n)' \subseteq Holders(n) \cup {<<"sender", n>>}
    BY <1>2, <1>3, HoldersAre
  <2> QED
    BY <2>2, <2>3
<1>5. CASE ~(CreateOutbox(m) /\ n = m)
  <2>1. send'[n] = "add" => send[n] = "add"
    BY <1>5 DEF CreateOutbox, MarkEnqueued, SendFails, Consistent, Typed
  <2>2. Holders(n)' \subseteq Holders(n)
    BY <1>2, <1>3, <2>1, HoldersAre
  <2> QED
    BY <1>1, <2>2, NobodyNew
<1> QED
  BY <1>4, <1>5

\* A handler of an event: from the event to the row.
LEMMA EventPasses ==
    ASSUME Consistent, OneHolder, NEW e \in events, MoveToDlq(e) \/ UpdateOutbox(e)
    PROVE  OneHolder'
<1> SUFFICES ASSUME NEW n \in Records \ forced
             PROVE  \A x, y \in Holders(n)' : x = y
  BY DEF OneHolder, MoveToDlq, UpdateOutbox
<1>1. \A x, y \in Holders(n) : x = y
  BY DEF OneHolder
<1>2. /\ UNCHANGED <<send, job, op>> /\ \A k \in Jobs : Live(k)' = Live(k)
      /\ status \in [Records -> {"none", "pending", "enqueued", "sent", "dead_letter"}]
      /\ job[e.job].rec \in Records
      /\ e \in WorkerEvent
      /\ e.at = "dlq" => e.status = "dead_letter"
  BY DEF MoveToDlq, UpdateOutbox, Live, Consistent, Typed, WorkerEvent, EventsConsistent,
         JobsConsistent
<1>3. CASE MoveToDlq(e)
  <2> DEFINE f == [e EXCEPT !.at = "outbox"]
  <2>1. /\ f.job = e.job /\ f.status = "dead_letter" /\ f # e
        /\ e.status = "dead_letter"
    BY <1>2, <1>3 DEF WorkerEvent, MoveToDlq
  <2>2. events' = (events \ {e}) \cup {f} /\ status' = status
    BY <1>3 DEF MoveToDlq
  <2> HIDE DEF f
  <2>3. CASE job[e.job].rec = n
    <3>1. <<"event", e>> \in Holders(n) /\ <<"event", e>> \notin Holders(n)'
      BY <2>1, <2>2, <2>3, HoldersAre
    <3>2. Holders(n)' \subseteq Holders(n) \cup {<<"event", f>>}
      BY <1>2, <2>2, HoldersAre
    <3> QED
      BY <1>1, <3>1, <3>2, PassedOn
  <2>4. CASE job[e.job].rec # n
    <3>1. Holders(n)' \subseteq Holders(n)
      BY <1>2, <2>1, <2>2, <2>4, HoldersAre
    <3> QED
      BY <1>1, <3>1, NobodyNew
  <2> QED
    BY <2>3, <2>4
<1>4. CASE UpdateOutbox(e)
  <2>1. /\ events' = events \ {e}
        /\ status' = status \/ status' = [status EXCEPT ![job[e.job].rec] = e.status]
    BY <1>4 DEF UpdateOutbox, SetStatus
  <2>2. CASE status'[n] = "dead_letter" /\ status[n] # "dead_letter"
    <3>1. job[e.job].rec = n /\ e.status = "dead_letter"
      BY <1>2, <2>1, <2>2
    <3>2. <<"event", e>> \in Holders(n) /\ <<"event", e>> \notin Holders(n)'
      BY <2>1, <3>1, HoldersAre
    <3>3. Holders(n)' \subseteq Holders(n) \cup {<<"row", n>>}
      BY <1>2, <2>1, HoldersAre
    <3> QED
      BY <1>1, <3>2, <3>3, PassedOn
  <2>3. CASE ~(status'[n] = "dead_letter" /\ status[n] # "dead_letter")
    <3>1. Holders(n)' \subseteq Holders(n)
      BY <1>2, <2>1, <2>3, HoldersAre
    <3> QED
      BY <1>1, <3>1, NobodyNew
  <2> QED
    BY <2>2, <2>3
<1> QED
  BY <1>3, <1>4

\* A replay: from the row to the operator that claims it, and back when adding
\* the job fails.  The failure after the job was added forces the record.
LEMMA ReplayPasses ==
    ASSUME OutboxAssumption, Consistent, OneHolder, NEW p \in Operators,
           \/ \E n \in Records : Replay(p, n)
           \/ Claim(p) \/ ReplayDone(p) \/ ReplayFails(p) \/ RemoveFromDlq(p)
    PROVE  OneHolder'
<1> SUFFICES ASSUME NEW n \in Records \ forced'
             PROVE  \A x, y \in Holders(n)' : x = y
  BY DEF OneHolder
<1>0. n \in Records \ forced
  BY DEF Replay, Claim, ReplayDone, ReplayFails, RemoveFromDlq
<1>1. \A x, y \in Holders(n) : x = y
  BY <1>0 DEF OneHolder
<1>2. /\ UNCHANGED <<send, job, events>> /\ \A k \in Jobs : Live(k)' = Live(k)
      /\ status \in [Records -> {"none", "pending", "enqueued", "sent", "dead_letter"}]
      /\ op \in [Operators -> Op]
  BY DEF Replay, Claim, ReplayDone, ReplayFails, RemoveFromDlq, Live, Consistent, Typed
<1>3. CASE Claim(p) /\ status[op[p].rec] = "dead_letter" /\ op[p].rec = n
  <2>1. /\ status' = [status EXCEPT ![n] = "enqueued"]
        /\ op' = [op EXCEPT ![p] = [at |-> "add", rec |-> n, job |-> None]]
    BY <1>3 DEF Claim, Claimable, SetStatus, Goto
  <2>2. <<"row", n>> \in Holders(n) /\ <<"row", n>> \notin Holders(n)'
    BY <1>2, <1>3, <2>1, HoldersAre
  <2>3. Holders(n)' \subseteq Holders(n) \cup {<<"operator", p>>}
    BY <1>2, <2>1, HoldersAre
  <2> QED
    BY <1>1, <2>2, <2>3, PassedOn
<1>4. CASE ReplayFails(p) /\ op[p].rec = n
  <2>1. op[p].at = "add"
    BY <1>4 DEF ReplayFails
  <2>2. /\ status' = [status EXCEPT ![n] = "dead_letter"]
        /\ op' = [op EXCEPT ![p] = [at |-> "idle", rec |-> None, job |-> None]]
    BY <1>4 DEF ReplayFails, SetStatus, Goto
  <2>3. <<"operator", p>> \in Holders(n) /\ <<"operator", p>> \notin Holders(n)'
    BY <1>2, <1>4, <2>1, <2>2, HoldersAre
  <2>4. Holders(n)' \subseteq Holders(n) \cup {<<"row", n>>}
    BY <1>2, <2>2, HoldersAre
  <2> QED
    BY <1>1, <2>3, <2>4, PassedOn
<1>5. CASE /\ ~(Claim(p) /\ status[op[p].rec] = "dead_letter" /\ op[p].rec = n)
           /\ ~(ReplayFails(p) /\ op[p].rec = n)
  <2>1. status'[n] = "dead_letter" => status[n] = "dead_letter"
    BY <1>2, <1>5 DEF Replay, Claim, ReplayDone, ReplayFails, RemoveFromDlq, SetStatus
  <2>2. \A q \in Operators : op'[q].at = "add" /\ op'[q].rec = n => op'[q] = op[q]
    BY <1>2, <1>5 DEF Replay, Claim, Claimable, ReplayDone, ReplayFails, RemoveFromDlq, Goto
  <2>3. Holders(n)' \subseteq Holders(n)
    BY <1>2, <2>1, <2>2, HoldersAre
  <2> QED
    BY <1>1, <2>3, NobodyNew
<1> QED
  BY <1>3, <1>4, <1>5

\* Every step passes the right on or leaves it where it is.
LEMMA HolderStep ==
    ASSUME OutboxAssumption, Consistent, OneHolder, [Next]_vars
    PROVE  OneHolder'
<1>1. ASSUME NEW n \in Records, CreateOutbox(n) \/ MarkEnqueued(n) \/ SendFails(n)
      PROVE  OneHolder'
  BY <1>1, SendPasses
<1>2. ASSUME NEW j \in Jobs,
             \/ \E n \in Records : Enqueue(n, j)
             \/ \E p \in Operators : ReplayAdd(p, j) \/ \E d \in Jobs : ReplayJob(p, d, j)
      PROVE  OneHolder'
  BY <1>2, AddShape, AddPasses
<1>3. ASSUME NEW j \in Jobs, Working(j) \/ StartFails(j) \/ WorkerDies(j)
      PROVE  OneHolder'
  BY <1>3, WorkerShape, WorkerPasses DEF Consistent
<1>4. ASSUME NEW e \in events, MoveToDlq(e) \/ UpdateOutbox(e)
      PROVE  OneHolder'
  BY <1>4, EventPasses
<1>5. ASSUME NEW p \in Operators,
             \/ \E n \in Records : Replay(p, n)
             \/ Claim(p) \/ ReplayDone(p) \/ ReplayFails(p) \/ RemoveFromDlq(p)
      PROVE  OneHolder'
  BY <1>5, ReplayPasses
<1>6. CASE UNCHANGED <<status, delivered, send, job, events, dlq, op, forced>>
  <2>1. \A k \in Jobs : Live(k)' = Live(k)
    BY <1>6 DEF Live
  <2>2. \A n \in Records : Holders(n)' \subseteq Holders(n)
    BY <1>6, <2>1, HoldersAre
  <2> QED
    BY <1>6, <2>2 DEF OneHolder
<1> QED
  BY <1>1, <1>2, <1>3, <1>4, <1>5, <1>6 DEF Next, vars, Sending, Replaying, ProbeWindow

-----------------------------------------------------------------------------

\* What the runs check follows.
LEMMA InvImplies ==
    ASSUME OutboxAssumption, Inv
    PROVE  TypeOK /\ SentWasDelivered /\ OneJobAtATime /\ CutOffIsEarned
<1>1. TypeOK
  BY DEF Inv, Consistent, Typed, TypedCircuit, Job, Op, Circuit, JobsConsistent, EventsConsistent,
         LettersAreDead, TypeOK
<1>2. OneJobAtATime
  <2> SUFFICES ASSUME NEW i \in Jobs, NEW j \in Jobs, i # j, Live(i), Live(j),
                      job[i].rec = job[j].rec, job[i].rec \notin forced
               PROVE  FALSE
    BY DEF OneJobAtATime
  <2> DEFINE n == job[i].rec
  <2>1. n \in Records \ forced
    BY DEF Inv, Consistent, JobsConsistent, Live
  <2>2. <<"job", i>> \in Holders(n) /\ <<"job", j>> \in Holders(n)
    BY <2>1, HoldersAre
  <2> QED
    BY <2>1, <2>2 DEF Inv, OneHolder
<1> QED
  BY <1>1, <1>2 DEF Inv, Consistent

\* The invariant the theorems rest on.
THEOREM InvHolds == Spec => []Inv
<1> USE OutboxAssumption
<1>1. Init => Inv
  <2> SUFFICES ASSUME Init PROVE Inv
    OBVIOUS
  <2>1. Typed /\ TypedCircuit /\ CutOffIsEarned
    BY DEF Init, Typed, TypedCircuit, CutOffIsEarned, Circuit, Job, Op, NoJob, NoOp,
           OutboxAssumption
  <2>2. Consistent
    BY <2>1 DEF Init, Consistent, JobsConsistent, EventsConsistent, OpsConsistent, UnsentIsEmpty,
                LettersAreDead, SentWasDelivered, Live, NoJob, NoOp
  <2>3. \A n \in Records : Holders(n) = {}
    BY HoldersAre DEF Init, Live, NoJob, NoOp
  <2> QED
    BY <2>1, <2>2, <2>3 DEF Inv, OneHolder
<1>2. Inv /\ [Next]_vars => Inv'
  BY ConsistentStep, HolderStep, CircuitStep DEF Inv
<1> QED
  BY <1>1, <1>2, PTL DEF Spec

\* Rows, jobs, events, replays and the breaker keep their types, and a job in
\* the queue has attempts left.
THEOREM TypesHold == Spec => []TypeOK
<1>1. Inv => TypeOK
  BY InvImplies, OutboxAssumption
<1> QED
  BY <1>1, InvHolds, PTL

\* A row says sent only of a message the provider took, in whatever order the
\* handlers of completed and failed run.
THEOREM SentIsTrue == Spec => []SentWasDelivered
<1>1. Inv => SentWasDelivered
  BY InvImplies, OutboxAssumption
<1> QED
  BY <1>1, InvHolds, PTL

\* The conditional update of replayDeadLetterNotification lets one replay
\* through, with any number of operators, late events and crashes.
THEOREM NoDoubleJob == Spec => []OneJobAtATime
<1>1. Inv => OneJobAtATime
  BY InvImplies, OutboxAssumption
<1> QED
  BY <1>1, InvHolds, PTL

\* The circuit is cut off exactly while the last failures reach the threshold.
THEOREM CutOffsAreEarned == Spec => []CutOffIsEarned
<1>1. Inv => CutOffIsEarned
  BY InvImplies, OutboxAssumption
<1> QED
  BY <1>1, InvHolds, PTL

=============================================================================
