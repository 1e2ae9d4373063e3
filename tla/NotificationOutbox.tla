------------------------- MODULE NotificationOutbox -------------------------
(***************************************************************************)
(* Notifications of one provider: the outbox rows, the BullMQ jobs that    *)
(* deliver them, the worker events that write the outcome back, the        *)
(* circuit breaker, and the two ways to replay what was given up: from the *)
(* outbox (NotificationsService) and from the dead-letter queue            *)
(* (DlqService).                                                           *)
(*                                                                         *)
(* The handlers of worker events run apart from the jobs, in any order.    *)
(***************************************************************************)
EXTENDS Naturals, FiniteSets

CONSTANTS
    Records,     \* notifications
    Jobs,        \* BullMQ jobs that can ever be added
    Operators,   \* requests that replay notifications
    MaxAttempts, \* NOTIFICATION_MAX_ATTEMPTS
    Threshold,   \* failureThreshold of the circuit breaker
    MaxFaults,   \* crashes and failing statements
    None

ASSUME OutboxAssumption ==
    /\ IsFiniteSet(Jobs) /\ None \notin Records
    /\ MaxAttempts \in Nat \ {0} /\ Threshold \in Nat \ {0} /\ MaxFaults \in Nat

VARIABLES
    status,    \* NotificationOutbox.status
    delivered, \* records the provider has taken
    send,      \* where sendEmail or sendSms stands for each record
    job,       \* the notifications queue
    events,    \* worker events not yet handled
    dlq,       \* jobs in the dead-letter queue
    op,        \* where each operator's replay stands
    circuit,   \* the provider's state; due: its probe window has passed
    forced,    \* records replayed around the outbox's own check
    faults

vars == <<status, delivered, send, job, events, dlq, op, circuit, forced, faults>>

NoJob == [at |-> "none", rec |-> None, made |-> 0, attempts |-> 0]

Live(j) == job[j].at \in {"waiting", "active"}

NoOp == [at |-> "idle", rec |-> None, job |-> None]

Init ==
    /\ status = [n \in Records |-> "none"]
    /\ delivered = {}
    /\ send = [n \in Records |-> "none"]
    /\ job = [j \in Jobs |-> NoJob]
    /\ events = {}
    /\ dlq = {}
    /\ op = [p \in Operators |-> NoOp]
    /\ circuit = [state |-> "closed", failures |-> 0, due |-> FALSE]
    /\ forced = {}
    /\ faults = 0

Fault == faults < MaxFaults /\ faults' = faults + 1

SetStatus(n, s) == status' = [status EXCEPT ![n] = s]

\* queue.add
AddJob(j, n, attempts) ==
    /\ job[j] = NoJob
    /\ job' = [job EXCEPT ![j] = [at |-> "waiting", rec |-> n, made |-> 0,
                                  attempts |-> attempts]]

-----------------------------------------------------------------------------
\* sendEmail and sendSms: create the row, add the job, mark the row enqueued.

CreateOutbox(n) ==
    /\ send[n] = "none"
    /\ SetStatus(n, "pending")
    /\ send' = [send EXCEPT ![n] = "add"]
    /\ UNCHANGED <<delivered, job, events, dlq, op, circuit, forced, faults>>

Enqueue(n, j) ==
    /\ send[n] = "add"
    /\ AddJob(j, n, MaxAttempts)
    /\ send' = [send EXCEPT ![n] = "mark"]
    /\ UNCHANGED <<status, delivered, events, dlq, op, circuit, forced, faults>>

\* The worker may have finished the job by now.
MarkEnqueued(n) ==
    /\ send[n] = "mark"
    /\ SetStatus(n, "enqueued")
    /\ send' = [send EXCEPT ![n] = "done"]
    /\ UNCHANGED <<delivered, job, events, dlq, op, circuit, forced, faults>>

\* The queue or the database fails, or the server dies.
SendFails(n) ==
    /\ send[n] \in {"add", "mark"} /\ Fault
    /\ send' = [send EXCEPT ![n] = "done"]
    /\ UNCHANGED <<status, delivered, job, events, dlq, op, circuit, forced>>

-----------------------------------------------------------------------------
\* The circuit breaker.

\* openCircuit
Opened(c) == [c EXCEPT !.state = "open", !.due = FALSE]

\* assertAttemptAllowed: when it lets an attempt through ...
Allowed(c) ==
    \/ c.state = "closed"
    \/ c.state = "half_open" /\ ~c.due
    \/ c.state = "open" /\ c.due

\* ... the first one after the window is the probe; one that is held back
\* finds the circuit open or a probe that never reported.
BrokenAfterAssert(c) ==
    IF c.state = "open" /\ c.due THEN [c EXCEPT !.state = "closed", !.due = FALSE]
    ELSE IF c.state = "half_open" /\ c.due THEN Opened(c)
    ELSE c

AfterAssert(c) ==
    IF c.state = "open" /\ c.due THEN [c EXCEPT !.state = "half_open", !.due = FALSE]
    ELSE IF c.state = "half_open" /\ c.due THEN Opened(c)
    ELSE c

RecordSuccess(c) == [state |-> "closed", failures |-> 0, due |-> FALSE]

\* Counting goes on past the threshold; what matters is that it was reached.
RecordFailure(c) ==
    LET counted == [c EXCEPT !.failures = IF @ < Threshold THEN @ + 1 ELSE @]
    IN  IF counted.failures >= Threshold THEN Opened(counted) ELSE counted

\* probeIntervalMs pass.
ProbeWindow ==
    /\ circuit.state # "closed" /\ ~circuit.due
    /\ circuit' = [circuit EXCEPT !.due = TRUE]
    /\ UNCHANGED <<status, delivered, send, job, events, dlq, op, forced, faults>>

-----------------------------------------------------------------------------
\* The worker.

Event(j, made, s) == [job |-> j, made |-> made, status |-> s, at |-> "outbox"]

BrokenAttemptsMade(made) == made

AttemptsMade(made) == made + 1

Exhausted(j, made) == made >= job[j].attempts

\* An attempt ends with an error: BullMQ schedules the next or gives up, and
\* emits failed.
AttemptFails(j) ==
    LET made == AttemptsMade(job[j].made)
        exhausted == Exhausted(j, made)
    IN  /\ job' = [job EXCEPT ![j].at = IF exhausted THEN "failed" ELSE "waiting",
                              ![j].made = made]
        /\ events' = events \cup
              {IF exhausted THEN [Event(j, made, "dead_letter") EXCEPT !.at = "dlq"]
                            ELSE Event(j, made, "enqueued")}

Start(j) ==
    /\ job[j].at = "waiting"
    /\ circuit' = AfterAssert(circuit)
    /\ IF Allowed(circuit)
       THEN job' = [job EXCEPT ![j].at = "active"] /\ UNCHANGED events
       ELSE AttemptFails(j)
    /\ UNCHANGED <<status, delivered, send, dlq, op, forced, faults>>

\* A result without success is an error like any other.
BrokenCompletes(success) == TRUE

Completes(success) == success

\* adapter.send, then recordSuccess and the completed event, or recordFailure.
Deliver(j, success) ==
    /\ job[j].at = "active"
    /\ delivered' = IF success THEN delivered \cup {job[j].rec} ELSE delivered
    /\ IF Completes(success)
       THEN /\ circuit' = RecordSuccess(circuit)
            /\ job' = [job EXCEPT ![j].at = "completed"]
            /\ events' = events \cup {Event(j, job[j].made, "sent")}
       ELSE /\ circuit' = RecordFailure(circuit)
            /\ AttemptFails(j)
    /\ UNCHANGED <<status, send, dlq, op, forced, faults>>

\* The update of lastAttemptAt fails before the provider is contacted.
StartFails(j) ==
    /\ job[j].at = "active" /\ Fault
    /\ AttemptFails(j)
    /\ UNCHANGED <<status, delivered, send, dlq, op, circuit, forced>>

\* The worker dies, perhaps after the provider took the message: the stalled
\* job goes back to the queue.
WorkerDies(j) ==
    /\ job[j].at = "active" /\ Fault
    /\ job' = [job EXCEPT ![j].at = "waiting"]
    /\ delivered' \in {delivered, delivered \cup {job[j].rec}}
    /\ UNCHANGED <<status, send, events, dlq, op, circuit, forced>>

\* onFailed: an exhausted job goes to the dead-letter queue first.
MoveToDlq(e) ==
    /\ e.at = "dlq"
    /\ events' = (events \ {e}) \cup {[e EXCEPT !.at = "outbox"]}
    /\ \/ dlq' = dlq \cup {e.job} /\ UNCHANGED faults
       \/ Fault /\ UNCHANGED dlq
    /\ UNCHANGED <<status, delivered, send, job, op, circuit, forced>>

\* onCompleted and onFailed write the status, whatever it is by now; an error
\* is swallowed.
UpdateOutbox(e) ==
    /\ e.at = "outbox"
    /\ events' = events \ {e}
    /\ \/ SetStatus(job[e.job].rec, e.status) /\ UNCHANGED faults
       \/ Fault /\ UNCHANGED status
    /\ UNCHANGED <<delivered, send, job, dlq, op, circuit, forced>>

-----------------------------------------------------------------------------
\* Replays.

Goto(p, at, n, j) == op' = [op EXCEPT ![p] = [at |-> at, rec |-> n, job |-> j]]

\* replayDeadLetterNotification reads the row ...
Replay(p, n) ==
    /\ op[p] = NoOp /\ status[n] = "dead_letter"
    /\ Goto(p, "claim", n, None)
    /\ UNCHANGED <<status, delivered, send, job, events, dlq, circuit, forced, faults>>

\* ... and claims it with an update that asks for the status again.
BrokenClaimable(n) == TRUE

Claimable(n) == status[n] = "dead_letter"

Claim(p) ==
    /\ op[p].at = "claim"
    /\ IF Claimable(op[p].rec)
       THEN SetStatus(op[p].rec, "enqueued") /\ Goto(p, "add", op[p].rec, None)
       ELSE UNCHANGED status /\ Goto(p, "idle", None, None)
    /\ UNCHANGED <<delivered, send, job, events, dlq, circuit, forced, faults>>

ReplayAdd(p, j) ==
    /\ op[p].at = "add"
    /\ AddJob(j, op[p].rec, MaxAttempts)
    /\ Goto(p, "mark", op[p].rec, j)
    /\ UNCHANGED <<status, delivered, send, events, dlq, circuit, forced, faults>>

\* The job id and the audit record are written.
ReplayDone(p) ==
    /\ op[p].at = "mark"
    /\ Goto(p, "idle", None, None)
    /\ UNCHANGED <<status, delivered, send, job, events, dlq, circuit, forced, faults>>

\* Adding or marking fails: the record goes back to dead_letter, even though
\* the job may be in the queue.
ReplayFails(p) ==
    /\ op[p].at \in {"add", "mark"} /\ Fault
    /\ SetStatus(op[p].rec, "dead_letter")
    /\ forced' = IF op[p].at = "mark" THEN forced \cup {op[p].rec} ELSE forced
    /\ Goto(p, "idle", None, None)
    /\ UNCHANGED <<delivered, send, job, events, dlq, circuit>>

\* DlqService.replayJob: the data is queued again with a single attempt and
\* without a look at the outbox; then the dead letter is removed.
ReplayJob(p, d, j) ==
    /\ op[p] = NoOp /\ d \in dlq
    /\ AddJob(j, job[d].rec, 1)
    /\ forced' = forced \cup {job[d].rec}
    /\ Goto(p, "remove", None, d)
    /\ UNCHANGED <<status, delivered, send, events, dlq, circuit, faults>>

RemoveFromDlq(p) ==
    /\ op[p].at = "remove"
    /\ dlq' = dlq \ {op[p].job}
    /\ Goto(p, "idle", None, None)
    /\ UNCHANGED <<status, delivered, send, job, events, circuit, forced, faults>>

-----------------------------------------------------------------------------
Sending(n) ==
    CreateOutbox(n) \/ (\E j \in Jobs : Enqueue(n, j)) \/ MarkEnqueued(n) \/ SendFails(n)

Working(j) == Start(j) \/ (\E success \in BOOLEAN : Deliver(j, success))

Replaying(p) ==
    \/ \E n \in Records : Replay(p, n)
    \/ Claim(p)
    \/ \E j \in Jobs : ReplayAdd(p, j)
    \/ ReplayDone(p)
    \/ ReplayFails(p)
    \/ \E d, j \in Jobs : ReplayJob(p, d, j)
    \/ RemoveFromDlq(p)

Next ==
    \/ \E n \in Records : Sending(n)
    \/ \E j \in Jobs : Working(j) \/ StartFails(j) \/ WorkerDies(j)
    \/ \E e \in events : MoveToDlq(e) \/ UpdateOutbox(e)
    \/ \E p \in Operators : Replaying(p)
    \/ ProbeWindow

Spec == Init /\ [][Next]_vars

\* Workers take the jobs that are due, and BullMQ finishes an attempt.
FairSpec == Spec /\ \A j \in Jobs : WF_vars(Working(j))

-----------------------------------------------------------------------------
TypeOK ==
    /\ status \in [Records -> {"none", "pending", "enqueued", "sent", "dead_letter"}]
    /\ delivered \subseteq Records /\ forced \subseteq Records
    /\ send \in [Records -> {"none", "add", "mark", "done"}]
    /\ \A j \in Jobs :
        /\ job[j].at \in {"none", "waiting", "active", "completed", "failed"}
        /\ Live(j) => job[j].made < job[j].attempts
    /\ \A e \in events : ~Live(e.job) \/ e.made <= job[e.job].made
    /\ dlq \subseteq {j \in Jobs : job[j].at = "failed"}
    /\ \A p \in Operators : op[p].at \in {"idle", "claim", "add", "mark", "remove"}
    /\ circuit.state \in {"closed", "open", "half_open"}
    /\ faults \in 0 .. MaxFaults

\* A record marked sent was taken by the provider, whichever of its jobs and
\* events came last.
SentWasDelivered == \A n \in Records : status[n] = "sent" => n \in delivered

\* replayDeadLetterNotification's conditional update lets one replay through:
\* two jobs of a record are in the queue together only after a replay from the
\* dead-letter queue or one that failed after adding its job.
OneJobAtATime ==
    \A i, j \in Jobs :
        i # j /\ Live(i) /\ Live(j) /\ job[i].rec = job[j].rec => job[i].rec \in forced

\* The circuit is cut off exactly while the last Threshold outcomes failed,
\* with late outcomes of earlier attempts and probes that never report.
CutOffIsEarned == (circuit.state # "closed") = (circuit.failures >= Threshold)

\* The queue drains, so that every job ends: attempts held back by the circuit
\* breaker count as well, and an outage cannot keep a job in it for ever.
JobsEnd == []<>(\A j \in Jobs : ~Live(j))

=============================================================================
