------------------------- MODULE SorobanTxLifecycle -------------------------
(***************************************************************************)
(* The backend's tracked Soroban transactions (app/backend/src/onchain):   *)
(* the database record of a transaction, the queue of jobs that execute    *)
(* it, the workers that take those jobs, the two cron tasks that feed the  *)
(* queue, and the operator's manual retry.                                 *)
(*                                                                         *)
(* Every await of executeTransaction is a step of its own, so two          *)
(* executions of one record interleave.  What a worker decides it decides  *)
(* from the record as it was when it read it.  The queue (BullMQ) and the  *)
(* Stellar network are external: a job is delivered in some order, is      *)
(* redelivered or not when its worker dies, and a sent transaction may be  *)
(* applied long after the backend stopped waiting for it.                  *)
(*                                                                         *)
(* Wall-clock time appears only as what the code compares with it: a       *)
(* record's nextRetryAt is null, later or due, and its createdAt is more   *)
(* than TRANSACTION_EXPIRY_MS ago (aged) or not.                           *)
(*                                                                         *)
(* An operator named Broken... is a plausible bug of the definition that   *)
(* follows it; no definition of the model uses it.                         *)
(***************************************************************************)
EXTENDS Naturals, FiniteSets

CONSTANTS
    Txs,            \* identifiers of transaction records
    Workers,        \* executors of jobs of the soroban-transactions queue
    Callers,        \* requests that call retryTransaction
    MaxAttempts,    \* maxAttempts of every record
    MaxJobs,        \* bound: jobs of one kind waiting in the queue
    MaxFaults,      \* bound: crashes and failed database or queue calls
    MaxManual       \* bound: manual retries of one record

ASSUME TxAssumption ==
    /\ MaxAttempts \in Nat \ {0}
    /\ MaxJobs \in Nat \ {0}
    /\ MaxFaults \in Nat
    /\ MaxManual \in Nat
    /\ Workers \cap Callers = {}

VARIABLES
    record,     \* the database row of each transaction
    unqueued,   \* created by a claim's disbursement, first job not yet added
    jobs,       \* jobs waiting in the queue, by kind
    run,        \* what each executor is doing
    aged,       \* records created more than the expiry time ago
    inFlight,   \* sent to the network, no longer waited for, not yet applied
    applied,    \* took effect on chain
    faults,     \* faults so far
    manual      \* manual retries so far

vars == <<record, unqueued, jobs, run, aged, inFlight, applied, faults, manual>>

-----------------------------------------------------------------------------
(* Data.                                                                   *)

Statuses == {"none", "pending", "submitted", "confirmed", "failed", "expired"}

Open == {"pending", "submitted"}

Final == {"confirmed", "failed", "expired"}

\* How a call to the chain or the database ends: with its result or with an
\* error of one of the kinds classifyError tells apart by text.
\* timed_out is withRetryTimeout's own message, unconfirmed the poll's.
Errors == {"network", "timed_out", "unconfirmed", "contract"}

\* The messages classifyError finds a known fragment in.  It looks for
\* "timeout": "Operation timed out after ..." does not contain it.
RetryableErrors == {"network"}

Executors == Workers \cup Callers

Cleanup == "cleanup"

JobKinds == Txs \cup {Cleanup}

Idle == [at |-> "idle"]

\* An executor holds the attempt number it computed when it read the record.
Doing(at, t, n) == [at |-> at, tx |-> t, attempt |-> n]

Answered(t, n, answer) ==
    [at |-> "answered", tx |-> t, attempt |-> n, answer |-> answer]

NoRecord ==
    [status |-> "none", attemptCount |-> 0, isRetryable |-> FALSE,
     nextRetryAt |-> "null", submitted |-> FALSE]

BrokenBudgetLeft(r) == r.attemptCount <= MaxAttempts

BudgetLeft(r) == r.attemptCount < MaxAttempts

CanExecute(r) == r.isRetryable /\ BudgetLeft(r)

BrokenShouldRetry(error, n) == error \in RetryableErrors /\ n <= MaxAttempts

\* shouldRetry in handleTransactionError.
ShouldRetry(error, n) == error \in RetryableErrors /\ n < MaxAttempts

-----------------------------------------------------------------------------
(* The record: each operator is one update statement.                      *)

Created ==
    [status |-> "pending", attemptCount |-> 0, isRetryable |-> TRUE,
     nextRetryAt |-> "due", submitted |-> FALSE]

MarkedSubmitted(r) == [r EXCEPT !.status = "submitted", !.submitted = TRUE]

MarkedConfirmed(r, n) == [r EXCEPT !.status = "confirmed", !.attemptCount = n]

BrokenMarkedError(r, n, error) ==
    LET retry == ShouldRetry(error, n) IN
    [r EXCEPT !.status = IF retry THEN "pending" ELSE "failed",
              !.attemptCount = n,
              !.isRetryable = error \in RetryableErrors,
              !.nextRetryAt = IF retry THEN "later" ELSE "null"]

MarkedError(r, n, error) ==
    LET retry == ShouldRetry(error, n) IN
    [r EXCEPT !.status = IF retry THEN "pending" ELSE "failed",
              !.attemptCount = n,
              !.isRetryable = retry,
              !.nextRetryAt = IF retry THEN "later" ELSE "null"]

MarkedForRetry(r, force) ==
    [r EXCEPT !.status = "pending", !.nextRetryAt = "due", !.isRetryable = TRUE,
              !.attemptCount = IF force THEN 0 ELSE r.attemptCount]

BrokenExpirable(t) == record[t].status = "pending" /\ t \in aged

\* The where clause of markExpiredTransactions.
Expirable(t) == record[t].status \in Open /\ t \in aged

\* The where clause of getRetryableTransactions.
Retryable(t) ==
    /\ record[t].status = "pending"
    /\ CanExecute(record[t])
    /\ record[t].nextRetryAt = "due"

Update(t, r) == record' = [record EXCEPT ![t] = r]

Become(p, state) == run' = [run EXCEPT ![p] = state]

Fault == faults < MaxFaults /\ faults' = faults + 1

-----------------------------------------------------------------------------
TypeOK ==
    /\ record \in [Txs -> [status : Statuses, attemptCount : 0..MaxAttempts,
                           isRetryable : BOOLEAN,
                           nextRetryAt : {"null", "later", "due"},
                           submitted : BOOLEAN]]
    /\ unqueued \subseteq Txs
    /\ jobs \in [JobKinds -> 0..MaxJobs]
    /\ run \in [Executors ->
                {Idle}
                \cup [at : {"read", "calling"}, tx : Txs, attempt : 1..MaxAttempts]
                \cup [at : {"answered"}, tx : Txs, attempt : 1..MaxAttempts,
                      answer : {"ok"} \cup Errors]
                \cup [at : {"resetting"}, tx : Txs, force : BOOLEAN]
                \cup [at : {"reset"}, tx : Txs]]
    /\ aged \subseteq Txs
    /\ inFlight \subseteq Txs
    /\ applied \subseteq Txs
    /\ faults \in 0..MaxFaults
    /\ manual \in [Txs -> 0..MaxManual]

Init ==
    /\ record = [t \in Txs |-> NoRecord]
    /\ unqueued = {}
    /\ jobs = [j \in JobKinds |-> 0]
    /\ run = [p \in Executors |-> Idle]
    /\ aged = {}
    /\ inFlight = {}
    /\ applied = {}
    /\ faults = 0
    /\ manual = [t \in Txs |-> 0]

-----------------------------------------------------------------------------
(* Creation, by ClaimsService.disburse: the record, then its first job.    *)

CreateTransaction(t) ==
    /\ record[t].status = "none"
    /\ Update(t, Created)
    /\ unqueued' = unqueued \cup {t}
    /\ UNCHANGED <<jobs, run, aged, inFlight, applied, faults, manual>>

ScheduleTransaction(t) ==
    /\ t \in unqueued
    /\ jobs[t] < MaxJobs
    /\ unqueued' = unqueued \ {t}
    /\ jobs' = [jobs EXCEPT ![t] = @ + 1]
    /\ UNCHANGED <<record, run, aged, inFlight, applied, faults, manual>>

\* The queue refuses the job; disburse logs it and goes on.
ScheduleTransactionFails(t) ==
    /\ t \in unqueued
    /\ unqueued' = unqueued \ {t}
    /\ Fault
    /\ UNCHANGED <<record, jobs, run, aged, inFlight, applied, manual>>

-----------------------------------------------------------------------------
(* The cron tasks.  A job does not carry the state of the record, so that  *)
(* adding it at the moment of the read loses no behaviour: it may wait in  *)
(* the queue for as long as the real one was late.                         *)

ScheduleRetryableTransactions ==
    LET due == {t \in Txs : Retryable(t)} IN
    /\ due # {}
    /\ \A t \in due : jobs[t] < MaxJobs
    /\ jobs' = [j \in JobKinds |-> IF j \in due THEN jobs[j] + 1 ELSE jobs[j]]
    /\ UNCHANGED <<record, unqueued, run, aged, inFlight, applied, faults, manual>>

CleanupExpiredTransactions ==
    /\ jobs[Cleanup] < MaxJobs
    /\ jobs' = [jobs EXCEPT ![Cleanup] = @ + 1]
    /\ UNCHANGED <<record, unqueued, run, aged, inFlight, applied, faults, manual>>

-----------------------------------------------------------------------------
(* Jobs.                                                                   *)

\* What executeTransaction makes of the record it reads.  It asks whether
\* attempts are left, never what the status is.
StateAfterRead(t) ==
    IF CanExecute(record[t])
    THEN Doing("read", t, record[t].attemptCount + 1)
    ELSE Idle

ProcessJob(w, t) ==
    /\ run[w] = Idle
    /\ jobs[t] > 0
    /\ jobs' = [jobs EXCEPT ![t] = @ - 1]
    /\ Become(w, StateAfterRead(t))
    /\ UNCHANGED <<record, unqueued, aged, inFlight, applied, faults, manual>>

\* The read throws: runJob reports it and the job counts as completed.
ProcessJobFails(w, t) ==
    /\ run[w] = Idle
    /\ jobs[t] > 0
    /\ jobs' = [jobs EXCEPT ![t] = @ - 1]
    /\ Fault
    /\ UNCHANGED <<record, unqueued, run, aged, inFlight, applied, manual>>

\* markExpiredTransactions is one updateMany.
ProcessCleanup(w) ==
    /\ run[w] = Idle
    /\ jobs[Cleanup] > 0
    /\ jobs' = [jobs EXCEPT ![Cleanup] = @ - 1]
    /\ record' = [t \in Txs |->
                    IF Expirable(t)
                    THEN [record[t] EXCEPT !.status = "expired", !.isRetryable = FALSE]
                    ELSE record[t]]
    /\ UNCHANGED <<unqueued, run, aged, inFlight, applied, faults, manual>>

-----------------------------------------------------------------------------
(* The steps of executeTransactionInContext.                               *)

MarkSubmitted(p) ==
    /\ run[p].at = "read"
    /\ LET t == run[p].tx IN
       /\ Update(t, MarkedSubmitted(record[t]))
       /\ Become(p, Doing("calling", t, run[p].attempt))
    /\ UNCHANGED <<unqueued, jobs, aged, inFlight, applied, faults, manual>>

BrokenMarkSubmittedFails(p) ==
    /\ run[p].at = "read"
    /\ Become(p, Doing("calling", run[p].tx, run[p].attempt))
    /\ Fault
    /\ UNCHANGED <<record, unqueued, jobs, aged, inFlight, applied, manual>>

\* The update throws, inside the try: the database's message is classified
\* like the network's.
MarkSubmittedFails(p) ==
    /\ run[p].at = "read"
    /\ \E error \in {"network", "contract"} :
          Become(p, Answered(run[p].tx, run[p].attempt, error))
    /\ Fault
    /\ UNCHANGED <<record, unqueued, jobs, aged, inFlight, applied, manual>>

\* The adapter's answer, in one step with its effect on chain.  The contract
\* takes an operation once (init, create_package and disburse of one id):
\* a repetition fails in simulation.
Succeeds(t) ==
    /\ t \notin applied
    /\ applied' = applied \cup {t}
    /\ UNCHANGED inFlight

\* No answer although the transaction was sent: it may still be applied.
GoesUnanswered(t) ==
    /\ t \notin applied
    /\ inFlight' = inFlight \cup {t}
    /\ UNCHANGED applied

BrokenCallChain(p) ==
    /\ run[p].at = "calling"
    /\ LET t == run[p].tx
           answers(a) == Become(p, Answered(t, run[p].attempt, a))
       IN \/ Succeeds(t) /\ answers("ok")
          \/ GoesUnanswered(t) /\ answers("ok")
          \/ /\ \E error \in Errors : answers(error)
             /\ UNCHANGED <<inFlight, applied>>
    /\ UNCHANGED <<record, unqueued, jobs, aged, faults, manual>>

CallChain(p) ==
    /\ run[p].at = "calling"
    /\ LET t == run[p].tx
           answers(a) == Become(p, Answered(t, run[p].attempt, a))
       IN \/ Succeeds(t) /\ answers("ok")
          \/ /\ GoesUnanswered(t)
             /\ \E error \in {"network", "timed_out", "unconfirmed"} : answers(error)
          \/ /\ \E error \in {"network", "timed_out", "contract"} : answers(error)
             /\ UNCHANGED <<inFlight, applied>>
    /\ UNCHANGED <<record, unqueued, jobs, aged, faults, manual>>

Confirm(p) ==
    /\ run[p].at = "answered"
    /\ run[p].answer = "ok"
    /\ Update(run[p].tx, MarkedConfirmed(record[run[p].tx], run[p].attempt))
    /\ Become(p, Idle)
    /\ UNCHANGED <<unqueued, jobs, aged, inFlight, applied, faults, manual>>

\* The update throws after the chain has taken effect; the catch clause
\* treats it as a failed attempt.
ConfirmFails(p) ==
    /\ run[p].at = "answered"
    /\ run[p].answer = "ok"
    /\ \E error \in {"network", "contract"} :
          Become(p, Answered(run[p].tx, run[p].attempt, error))
    /\ Fault
    /\ UNCHANGED <<record, unqueued, jobs, aged, inFlight, applied, manual>>

\* It reads the record again, for maxAttempts alone, which never changes:
\* read and update are one step.
HandleTransactionError(p) ==
    /\ run[p].at = "answered"
    /\ run[p].answer \in Errors
    /\ LET t == run[p].tx IN
       Update(t, MarkedError(record[t], run[p].attempt, run[p].answer))
    /\ Become(p, Idle)
    /\ UNCHANGED <<unqueued, jobs, aged, inFlight, applied, faults, manual>>

\* Its own read or update throws: the error ends in runJob.
HandleTransactionErrorFails(p) ==
    /\ run[p].at = "answered"
    /\ run[p].answer \in Errors
    /\ Become(p, Idle)
    /\ Fault
    /\ UNCHANGED <<record, unqueued, jobs, aged, inFlight, applied, manual>>

\* The executor's process dies.  A worker's job is found stalled and is given
\* to another worker, or has stalled too often and is dropped.
Crash(p) ==
    /\ run[p] # Idle
    /\ Become(p, Idle)
    /\ \/ UNCHANGED jobs
       \/ /\ p \in Workers
          /\ jobs[run[p].tx] < MaxJobs
          /\ jobs' = [jobs EXCEPT ![run[p].tx] = @ + 1]
    /\ Fault
    /\ UNCHANGED <<record, unqueued, aged, inFlight, applied, manual>>

-----------------------------------------------------------------------------
(* retryTransaction: read and check, reset, execute at once.               *)

RetryTransaction(c, t, force) ==
    /\ run[c] = Idle
    /\ record[t].status # "none"
    /\ manual[t] < MaxManual
    /\ force \/ CanExecute(record[t])
    /\ manual' = [manual EXCEPT ![t] = @ + 1]
    /\ Become(c, [at |-> "resetting", tx |-> t, force |-> force])
    /\ UNCHANGED <<record, unqueued, jobs, aged, inFlight, applied, faults>>

ResetForRetry(c) ==
    /\ run[c].at = "resetting"
    /\ LET t == run[c].tx IN
       /\ Update(t, MarkedForRetry(record[t], run[c].force))
       /\ Become(c, [at |-> "reset", tx |-> t])
    /\ UNCHANGED <<unqueued, jobs, aged, inFlight, applied, faults, manual>>

ExecuteRetry(c) ==
    /\ run[c].at = "reset"
    /\ Become(c, StateAfterRead(run[c].tx))
    /\ UNCHANGED <<record, unqueued, jobs, aged, inFlight, applied, faults, manual>>

-----------------------------------------------------------------------------
(* The network and the clock.                                              *)

\* A sent transaction is included in a ledger, or passes its time bound.
LedgerCloses(t) ==
    /\ t \in inFlight
    /\ inFlight' = inFlight \ {t}
    /\ applied' \in {applied, applied \cup {t}}
    /\ UNCHANGED <<record, unqueued, jobs, run, aged, faults, manual>>

BackoffElapses(t) ==
    /\ record[t].nextRetryAt = "later"
    /\ Update(t, [record[t] EXCEPT !.nextRetryAt = "due"])
    /\ UNCHANGED <<unqueued, jobs, run, aged, inFlight, applied, faults, manual>>

Ages(t) ==
    /\ record[t].status # "none"
    /\ t \notin aged
    /\ aged' = aged \cup {t}
    /\ UNCHANGED <<record, unqueued, jobs, run, inFlight, applied, faults, manual>>

-----------------------------------------------------------------------------
Execute(p) ==
    MarkSubmitted(p) \/ CallChain(p) \/ Confirm(p) \/ HandleTransactionError(p)

Fails(p) ==
    MarkSubmittedFails(p) \/ ConfirmFails(p) \/ HandleTransactionErrorFails(p) \/ Crash(p)

Next ==
    \/ \E t \in Txs :
          CreateTransaction(t) \/ ScheduleTransaction(t) \/ ScheduleTransactionFails(t)
    \/ ScheduleRetryableTransactions
    \/ CleanupExpiredTransactions
    \/ \E w \in Workers, t \in Txs : ProcessJob(w, t) \/ ProcessJobFails(w, t)
    \/ \E w \in Workers : ProcessCleanup(w)
    \/ \E p \in Executors : Execute(p) \/ Fails(p)
    \/ \E c \in Callers, t \in Txs, force \in BOOLEAN : RetryTransaction(c, t, force)
    \/ \E c \in Callers : ResetForRetry(c) \/ ExecuteRetry(c)
    \/ \E t \in Txs : LedgerCloses(t) \/ BackoffElapses(t) \/ Ages(t)

\* Code that has started runs on; cron tasks fire again and again; the clock
\* advances.  The queue serves jobs in turn, so that one that is available
\* again and again is taken.  Nothing says that a disbursement is requested,
\* that a ledger includes a transaction or that anything fails.
Fairness ==
    /\ \A t \in Txs :
          /\ WF_vars(ScheduleTransaction(t))
          /\ SF_vars(\E w \in Workers : ProcessJob(w, t))
          /\ WF_vars(BackoffElapses(t))
          /\ WF_vars(Ages(t))
    /\ SF_vars(\E w \in Workers : ProcessCleanup(w))
    /\ WF_vars(ScheduleRetryableTransactions)
    /\ WF_vars(CleanupExpiredTransactions)
    /\ \A p \in Executors : WF_vars(Execute(p))
    /\ \A c \in Callers : WF_vars(ResetForRetry(c) \/ ExecuteRetry(c))

Spec == Init /\ [][Next]_vars

FairSpec == Spec /\ Fairness

-----------------------------------------------------------------------------
(* Properties.                                                             *)

\* A record says confirmed only of an operation that took effect on chain,
\* whatever executions, expiries and retries of it interleave: the hash comes
\* from the adapter, which waits for the ledger.
ConfirmedTookEffect == \A t \in Txs : record[t].status = "confirmed" => t \in applied

\* Nothing reaches the network before the record says it was submitted
\* (submittedAt, written first): no effect on chain is without a trace.
EffectIsTraced == \A t \in applied \cup inFlight : record[t].submitted

\* A pending record is one that will run: retryable, with a date for the next
\* try and, unless someone retried it by hand, with attempts left.  A pending
\* record that getRetryableTransactions never returns would wait for ever.
PendingWillRun ==
    \A t \in Txs : record[t].status = "pending" =>
        /\ record[t].isRetryable
        /\ record[t].nextRetryAt # "null"
        /\ manual[t] = 0 => BudgetLeft(record[t])

\* A record that was given up (failed or expired) is closed to the jobs that
\* are still queued for it: none of them starts a new attempt.
GivenUpIsClosed ==
    \A t \in Txs : record[t].status \in {"failed", "expired"} => ~record[t].isRetryable

\* Every record comes to rest: whatever crashed, was lost or ran twice, in the
\* end it is confirmed, failed or expired for good, and no operator is needed.
Settles == \A t \in Txs : record[t].status # "none" ~> [](record[t].status \in Final)

=============================================================================
