-------------------------- MODULE SorobanTxProofs --------------------------
(***************************************************************************)
(* What the record of a Soroban transaction can be trusted to say, for     *)
(* every number of records, workers, callers, attempts, jobs and faults.   *)
(*                                                                         *)
(* An executor acts on what it read earlier, so each property of the       *)
(* records needs one of the executors that are on their way: what an       *)
(* executor holds is still covered by the record or by the chain when it   *)
(* comes to write.                                                         *)
(***************************************************************************)
EXTENDS SorobanTxLifecycle, TLAPS

\* An executor that is about to confirm has an operation that took effect.
AnswerIsTrue ==
    \A p \in Executors :
        run[p].at = "answered" /\ run[p].answer = "ok" => run[p].tx \in applied

\* An executor that calls the chain has its record marked submitted.
CallIsTraced ==
    \A p \in Executors : run[p].at = "calling" => record[run[p].tx].submitted

\* A retry that is under way has been counted.
RetryIsCounted ==
    \A c \in Executors : run[c].at = "resetting" => manual[run[c].tx] # 0

\* A transaction nobody created has no record at all.
NoneIsEmpty == \A t \in Txs : record[t].status = "none" => record[t] = NoRecord

Inv ==
    /\ TypeOK
    /\ AnswerIsTrue /\ CallIsTraced /\ RetryIsCounted /\ NoneIsEmpty
    /\ ConfirmedTookEffect /\ EffectIsTraced /\ PendingWillRun /\ GivenUpIsClosed

-----------------------------------------------------------------------------
(* The parts of TypeOK. *)

Record ==
    [status : Statuses, attemptCount : 0..MaxAttempts, isRetryable : BOOLEAN,
     nextRetryAt : {"null", "later", "due"}, submitted : BOOLEAN]

State ==
    {Idle}
    \cup [at : {"read", "calling"}, tx : Txs, attempt : 1..MaxAttempts]
    \cup [at : {"answered"}, tx : Txs, attempt : 1..MaxAttempts, answer : {"ok"} \cup Errors]
    \cup [at : {"resetting"}, tx : Txs, force : BOOLEAN]
    \cup [at : {"reset"}, tx : Txs]

\* What an executor holds, by where it stands.
LEMMA StateFields ==
    ASSUME TypeOK, NEW p \in Executors
    PROVE  /\ run[p].at \in {"idle", "read", "calling", "answered", "resetting", "reset"}
           /\ (run[p].at = "idle") = (run[p] = Idle)
           /\ run[p] # Idle => run[p].tx \in Txs
           /\ run[p].at \in {"read", "calling", "answered"} => run[p].attempt \in 1..MaxAttempts
           /\ run[p].at = "answered" => run[p].answer \in {"ok"} \cup Errors
           /\ run[p].at = "resetting" => run[p].force \in BOOLEAN
<1>1. run[p] \in State
  BY DEF TypeOK, State
<1> QED
  BY <1>1 DEF State, Idle

\* The states an executor can be put in.
LEMMA StatesAreTyped ==
    ASSUME NEW t \in Txs, NEW n \in 1..MaxAttempts, NEW answer \in {"ok"} \cup Errors,
           NEW force \in BOOLEAN
    PROVE  /\ Idle \in State
           /\ Doing("read", t, n) \in State
           /\ Doing("calling", t, n) \in State
           /\ Answered(t, n, answer) \in State
           /\ [at |-> "resetting", tx |-> t, force |-> force] \in State
           /\ [at |-> "reset", tx |-> t] \in State
<1>1. \A at \in {"read", "calling"} :
        Doing(at, t, n) \in [at : {"read", "calling"}, tx : Txs, attempt : 1..MaxAttempts]
  BY DEF Doing
<1>2. Answered(t, n, answer) \in
        [at : {"answered"}, tx : Txs, attempt : 1..MaxAttempts, answer : {"ok"} \cup Errors]
  BY DEF Answered
<1>3. [at |-> "resetting", tx |-> t, force |-> force] \in
        [at : {"resetting"}, tx : Txs, force : BOOLEAN]
  OBVIOUS
<1>4. [at |-> "reset", tx |-> t] \in [at : {"reset"}, tx : Txs]
  OBVIOUS
<1> QED
  BY <1>1, <1>2, <1>3, <1>4 DEF State

\* What executeTransaction makes of a record is one of the states.
LEMMA ReadIsTyped ==
    ASSUME TxAssumption, TypeOK, NEW t \in Txs
    PROVE  StateAfterRead(t) \in State
<1>1. record[t].attemptCount \in 0..MaxAttempts
  BY DEF TypeOK
<1>2. BudgetLeft(record[t]) => record[t].attemptCount + 1 \in 1..MaxAttempts
  BY <1>1 DEF BudgetLeft, TxAssumption
<1> QED
  BY <1>2 DEF StateAfterRead, CanExecute, Doing, State

\* Each update statement writes a well-typed record.
LEMMA UpdatesAreTyped ==
    ASSUME TxAssumption, NEW r \in Record
    PROVE  /\ Created \in Record
           /\ MarkedSubmitted(r) \in Record
           /\ \A n \in 1..MaxAttempts : MarkedConfirmed(r, n) \in Record
           /\ \A n \in 1..MaxAttempts, error \in Errors : MarkedError(r, n, error) \in Record
           /\ \A force \in BOOLEAN : MarkedForRetry(r, force) \in Record
           /\ [r EXCEPT !.status = "expired", !.isRetryable = FALSE] \in Record
           /\ [r EXCEPT !.nextRetryAt = "due"] \in Record
<1>1. \A n \in 1..MaxAttempts : n \in 0..MaxAttempts
  OBVIOUS
<1>2. 0 \in 0..MaxAttempts
  BY DEF TxAssumption
<1>3. \A n, error : ShouldRetry(error, n) \in BOOLEAN
  BY DEF ShouldRetry
<1> QED
  BY <1>1, <1>2, <1>3 DEF Created, MarkedSubmitted, MarkedConfirmed, MarkedError,
                          MarkedForRetry, Record, Statuses

\* All actions keep the types and the bounds.
LEMMA TypesStep ==
    ASSUME TxAssumption, TypeOK, [Next]_vars
    PROVE  TypeOK'
<1> DEFINE Rest == /\ unqueued' \subseteq Txs
                   /\ aged' \subseteq Txs
                   /\ inFlight' \subseteq Txs
                   /\ applied' \subseteq Txs
                   /\ faults' \in 0..MaxFaults
                   /\ manual' \in [Txs -> 0..MaxManual]
<1> SUFFICES /\ record' \in [Txs -> Record]
             /\ run' \in [Executors -> State]
             /\ jobs' \in [JobKinds -> 0..MaxJobs]
             /\ Rest
  BY DEF TypeOK, Record, State
<1>0. /\ record \in [Txs -> Record]
      /\ run \in [Executors -> State]
      /\ jobs \in [JobKinds -> 0..MaxJobs]
      /\ unqueued \subseteq Txs /\ aged \subseteq Txs
      /\ inFlight \subseteq Txs /\ applied \subseteq Txs
      /\ faults \in 0..MaxFaults
      /\ manual \in [Txs -> 0..MaxManual]
  BY DEF TypeOK, Record, State
<1>i. Idle \in State
  BY DEF State
<1>1. ASSUME NEW t \in Txs,
             CreateTransaction(t) \/ ScheduleTransaction(t) \/ ScheduleTransactionFails(t)
      PROVE  record' \in [Txs -> Record] /\ run' = run /\ jobs' \in [JobKinds -> 0..MaxJobs] /\ Rest
  <2>1. Created \in Record
    BY DEF Created, Record, Statuses, TxAssumption
  <2> QED
    BY <1>0, <1>1, <2>1 DEF CreateTransaction, ScheduleTransaction, ScheduleTransactionFails,
                            Update, Fault, TypeOK, JobKinds, TxAssumption
<1>2. CASE ScheduleRetryableTransactions
  BY <1>0, <1>2 DEF ScheduleRetryableTransactions, TypeOK, JobKinds
<1>3. CASE CleanupExpiredTransactions
  BY <1>0, <1>3 DEF CleanupExpiredTransactions, TypeOK, JobKinds, TxAssumption
<1>4. ASSUME NEW w \in Workers, NEW t \in Txs, ProcessJob(w, t) \/ ProcessJobFails(w, t)
      PROVE  record' = record /\ run' \in [Executors -> State]
             /\ jobs' \in [JobKinds -> 0..MaxJobs] /\ Rest
  BY <1>0, <1>4, ReadIsTyped DEF ProcessJob, ProcessJobFails, Become, Fault, TypeOK, JobKinds,
                                 TxAssumption, Executors
<1>5. ASSUME NEW w \in Workers, ProcessCleanup(w)
      PROVE  record' \in [Txs -> Record] /\ run' = run /\ jobs' \in [JobKinds -> 0..MaxJobs] /\ Rest
  <2> DEFINE Expired(t) == [record[t] EXCEPT !.status = "expired", !.isRetryable = FALSE]
  <2>1. \A t \in Txs : Expired(t) \in Record
    BY <1>0, UpdatesAreTyped
  <2>2. record' = [t \in Txs |-> IF Expirable(t) THEN Expired(t) ELSE record[t]]
    BY <1>5 DEF ProcessCleanup
  <2> HIDE DEF Expired
  <2>3. record' \in [Txs -> Record]
    BY <1>0, <2>1, <2>2
  <2>4. jobs[Cleanup] > 0 /\ jobs' = [jobs EXCEPT ![Cleanup] = @ - 1]
    BY <1>5 DEF ProcessCleanup
  <2>5. jobs' \in [JobKinds -> 0..MaxJobs]
    BY <1>0, <2>4 DEF JobKinds, TxAssumption
  <2> QED
    BY <1>0, <1>5, <2>3, <2>5 DEF ProcessCleanup
<1>6. ASSUME NEW p \in Executors, Execute(p) \/ Fails(p)
      PROVE  record' \in [Txs -> Record] /\ run' \in [Executors -> State]
             /\ jobs' \in [JobKinds -> 0..MaxJobs] /\ Rest
  <2> DEFINE t == run[p].tx
             n == run[p].attempt
  <2>1. CASE MarkSubmitted(p)
    <3>1. t \in Txs /\ n \in 1..MaxAttempts
      BY <2>1, StateFields DEF MarkSubmitted, Idle
    <3>2. MarkedSubmitted(record[t]) \in Record
      BY <1>0, <3>1, UpdatesAreTyped
    <3>3. Doing("calling", t, n) \in State
      BY <3>1, StatesAreTyped
    <3> QED
      BY <1>0, <2>1, <3>1, <3>2, <3>3 DEF MarkSubmitted, Update, Become
  <2>2. CASE CallChain(p)
    <3>1. t \in Txs /\ n \in 1..MaxAttempts
      BY <2>2, StateFields DEF CallChain, Idle
    <3>2. \A a \in {"ok"} \cup Errors : Answered(t, n, a) \in State
      BY <3>1, StatesAreTyped
    <3> QED
      BY <1>0, <2>2, <3>1, <3>2 DEF CallChain, Become, Succeeds, GoesUnanswered, Errors, TypeOK
  <2>3. CASE Confirm(p)
    <3>1. t \in Txs /\ n \in 1..MaxAttempts
      BY <2>3, StateFields DEF Confirm, Idle
    <3>2. MarkedConfirmed(record[t], n) \in Record
      BY <1>0, <3>1, UpdatesAreTyped
    <3> QED
      BY <1>0, <1>i, <2>3, <3>1, <3>2 DEF Confirm, Update, Become
  <2>4. CASE HandleTransactionError(p)
    <3>1. t \in Txs /\ n \in 1..MaxAttempts /\ run[p].answer \in Errors
      BY <2>4, StateFields DEF HandleTransactionError, Idle
    <3>2. MarkedError(record[t], n, run[p].answer) \in Record
      BY <1>0, <3>1, UpdatesAreTyped
    <3> QED
      BY <1>0, <1>i, <2>4, <3>1, <3>2 DEF HandleTransactionError, Update, Become
  <2>5. CASE MarkSubmittedFails(p) \/ ConfirmFails(p)
    <3>1. t \in Txs /\ n \in 1..MaxAttempts
      BY <2>5, StateFields DEF MarkSubmittedFails, ConfirmFails, Idle
    <3>2. \A a \in {"ok"} \cup Errors : Answered(t, n, a) \in State
      BY <3>1, StatesAreTyped
    <3> QED
      BY <1>0, <2>5, <3>1, <3>2 DEF MarkSubmittedFails, ConfirmFails, Become, Fault, Errors,
                                    TypeOK, TxAssumption
  <2>6. CASE HandleTransactionErrorFails(p)
    BY <1>0, <2>6 DEF HandleTransactionErrorFails, Become, Fault, TypeOK, State, TxAssumption
  <2>7. CASE Crash(p)
    <3>1. t \in Txs
      BY <2>7, StateFields DEF Crash
    <3> QED
      BY <1>0, <2>7, <3>1 DEF Crash, Become, Fault, TypeOK, State, JobKinds, TxAssumption
  <2> QED
    BY <1>6, <2>1, <2>2, <2>3, <2>4, <2>5, <2>6, <2>7 DEF Execute, Fails
<1>7. ASSUME NEW c \in Callers, NEW t \in Txs, NEW force \in BOOLEAN,
             RetryTransaction(c, t, force)
      PROVE  record' = record /\ run' \in [Executors -> State] /\ jobs' = jobs /\ Rest
  <2>1. [at |-> "resetting", tx |-> t, force |-> force] \in State
    BY DEF State
  <2>2. manual' \in [Txs -> 0..MaxManual]
    BY <1>0, <1>7 DEF RetryTransaction, TxAssumption
  <2> QED
    BY <1>0, <1>7, <2>1, <2>2 DEF RetryTransaction, Become, Executors
<1>8. ASSUME NEW c \in Callers, ResetForRetry(c) \/ ExecuteRetry(c)
      PROVE  record' \in [Txs -> Record] /\ run' \in [Executors -> State] /\ jobs' = jobs /\ Rest
  <2>1. /\ c \in Executors /\ run[c].tx \in Txs
        /\ run[c].at = "resetting" => run[c].force \in BOOLEAN
    BY <1>8, StateFields DEF ResetForRetry, ExecuteRetry, Idle, Executors
  <2>2. CASE ResetForRetry(c)
    <3>1. MarkedForRetry(record[run[c].tx], run[c].force) \in Record
      BY <1>0, <2>1, <2>2, UpdatesAreTyped DEF ResetForRetry
    <3>2. [at |-> "reset", tx |-> run[c].tx] \in State
      BY <2>1 DEF State
    <3> QED
      BY <1>0, <2>1, <2>2, <3>1, <3>2 DEF ResetForRetry, Update, Become
  <2>3. CASE ExecuteRetry(c)
    BY <1>0, <2>1, <2>3, ReadIsTyped DEF ExecuteRetry, Become, TypeOK
  <2> QED
    BY <1>8, <2>2, <2>3
<1>9. ASSUME NEW t \in Txs, LedgerCloses(t) \/ BackoffElapses(t) \/ Ages(t)
      PROVE  record' \in [Txs -> Record] /\ run' = run /\ jobs' = jobs /\ Rest
  <2>1. [record[t] EXCEPT !.nextRetryAt = "due"] \in Record
    BY <1>0, UpdatesAreTyped
  <2> QED
    BY <1>0, <1>9, <2>1 DEF LedgerCloses, BackoffElapses, Ages, Update
<1>10. CASE UNCHANGED vars
  BY <1>0, <1>10 DEF vars, TypeOK
<1> HIDE DEF Rest
<1>11. jobs \in [JobKinds -> 0..MaxJobs]
  BY DEF TypeOK
<1> QED
  BY <1>0, <1>1, <1>2, <1>3, <1>4, <1>5, <1>6, <1>7, <1>8, <1>9, <1>10, <1>11 DEF Next

-----------------------------------------------------------------------------
(* What the update statements say of a record. *)

\* No update makes submitted false; confirmed, failed, expired and pending are
\* written only with what goes with them.
LEMMA UpdateFields ==
    ASSUME TxAssumption, NEW r \in Record
    PROVE  /\ MarkedSubmitted(r).status = "submitted" /\ MarkedSubmitted(r).submitted
           /\ \A n \in 1..MaxAttempts :
                /\ MarkedConfirmed(r, n).status = "confirmed"
                /\ MarkedConfirmed(r, n).submitted = r.submitted
           /\ \A n \in 1..MaxAttempts, error \in Errors :
                LET e == MarkedError(r, n, error) IN
                /\ e.submitted = r.submitted
                /\ \/ /\ e.status = "pending" /\ e.isRetryable
                      /\ e.nextRetryAt = "later" /\ BudgetLeft(e)
                   \/ e.status = "failed" /\ ~e.isRetryable
           /\ \A force \in BOOLEAN :
                LET e == MarkedForRetry(r, force) IN
                /\ e.submitted = r.submitted
                /\ e.status = "pending" /\ e.isRetryable /\ e.nextRetryAt = "due"
<1>1. /\ MarkedSubmitted(r).status = "submitted" /\ MarkedSubmitted(r).submitted
      /\ \A n \in 1..MaxAttempts :
           /\ MarkedConfirmed(r, n).status = "confirmed"
           /\ MarkedConfirmed(r, n).submitted = r.submitted
  BY DEF MarkedSubmitted, MarkedConfirmed, Record
<1>2. ASSUME NEW n \in 1..MaxAttempts, NEW error \in Errors
      PROVE  LET e == MarkedError(r, n, error) IN
             /\ e.submitted = r.submitted
             /\ \/ /\ e.status = "pending" /\ e.isRetryable
                   /\ e.nextRetryAt = "later" /\ BudgetLeft(e)
                \/ e.status = "failed" /\ ~e.isRetryable
  BY DEF MarkedError, ShouldRetry, BudgetLeft, Record
<1>3. ASSUME NEW force \in BOOLEAN
      PROVE  LET e == MarkedForRetry(r, force) IN
             /\ e.submitted = r.submitted
             /\ e.status = "pending" /\ e.isRetryable /\ e.nextRetryAt = "due"
  BY DEF MarkedForRetry, Record
<1> QED
  BY <1>1, <1>2, <1>3

\* What the invariant says of one record.
Sound(t) ==
    /\ record[t].status = "none" => record[t] = NoRecord
    /\ record[t].status = "confirmed" => t \in applied
    /\ t \in applied \cup inFlight => record[t].submitted
    /\ record[t].status = "pending" =>
         /\ record[t].isRetryable
         /\ record[t].nextRetryAt # "null"
         /\ manual[t] = 0 => BudgetLeft(record[t])
    /\ record[t].status \in {"failed", "expired"} => ~record[t].isRetryable

\* What it says of one executor.
Honest(p) ==
    /\ run[p].at = "answered" /\ run[p].answer = "ok" => run[p].tx \in applied
    /\ run[p].at = "calling" => record[run[p].tx].submitted
    /\ run[p].at = "resetting" => manual[run[p].tx] # 0

\* The invariant is that every record is sound and every executor honest.
LEMMA InvParts ==
    ASSUME TypeOK
    PROVE  Inv <=> (\A t \in Txs : Sound(t)) /\ (\A p \in Executors : Honest(p))
<1>1. applied \cup inFlight \subseteq Txs
  BY DEF TypeOK
<1> QED
  BY <1>1 DEF Inv, Sound, Honest, AnswerIsTrue, CallIsTraced, RetryIsCounted, NoneIsEmpty,
              ConfirmedTookEffect, EffectIsTraced, PendingWillRun, GivenUpIsClosed

\* A record that a step leaves alone stays sound: what took effect stays so,
\* and only an executor that is calling sends anything.
LEMMA SoundStays ==
    ASSUME NEW t \in Txs, Sound(t), record'[t] = record[t], applied \subseteq applied',
           t \in applied' \cup inFlight' => t \in applied \cup inFlight \/ record[t].submitted,
           manual'[t] = 0 => manual[t] = 0
    PROVE  Sound(t)'
BY DEF Sound, BudgetLeft

\* An executor that a step leaves alone stays honest.
LEMMA HonestStays ==
    ASSUME NEW p \in Executors, Honest(p), run'[p] = run[p], applied \subseteq applied',
           run[p].at = "calling" /\ record[run[p].tx].submitted
             => record'[run[p].tx].submitted,
           run[p].at = "resetting" /\ manual[run[p].tx] # 0 => manual'[run[p].tx] # 0
    PROVE  Honest(p)'
BY DEF Honest

-----------------------------------------------------------------------------
(* Every action keeps records sound and executors honest. *)

\* The steps of an executor.
LEMMA ExecutorStep ==
    ASSUME TxAssumption, Inv, NEW p \in Executors, Execute(p) \/ Fails(p)
    PROVE  /\ \A t \in Txs : Sound(t)'
           /\ \A q \in Executors : Honest(q)'
<1>t. PICK tx \in Txs : tx = run[p].tx
  <2>1. run[p] # Idle
    BY DEF Execute, Fails, MarkSubmitted, CallChain, Confirm, HandleTransactionError,
           MarkSubmittedFails, ConfirmFails, HandleTransactionErrorFails, Crash, Idle
  <2> QED
    BY <2>1, StateFields DEF Inv
<1> DEFINE n == run[p].attempt
<1>0. /\ record \in [Txs -> Record] /\ run \in [Executors -> State]
      /\ record[tx] \in Record
      /\ \A t \in Txs : Sound(t)
      /\ \A q \in Executors : Honest(q)
      /\ tx = run[p].tx
      /\ run[p].at \in {"read", "calling", "answered"} => n \in 1..MaxAttempts
  BY <1>t, InvParts, StateFields DEF Inv, TypeOK, Record, State
<1>1. ASSUME UNCHANGED <<record, inFlight, applied, manual>>,
             NEW s, run' = [run EXCEPT ![p] = s],
             s.at = "answered" /\ s.answer = "ok" => s.tx \in applied,
             s.at \notin {"calling", "resetting"}
      PROVE  /\ \A t \in Txs : Sound(t)'
             /\ \A q \in Executors : Honest(q)'
  BY <1>0, <1>1 DEF Sound, Honest, BudgetLeft
<1>2. CASE MarkSubmitted(p)
  <2>1. /\ record' = [record EXCEPT ![tx] = MarkedSubmitted(record[tx])]
        /\ run' = [run EXCEPT ![p] = Doing("calling", tx, n)]
        /\ UNCHANGED <<inFlight, applied, manual>>
    BY <1>0, <1>2 DEF MarkSubmitted, Update, Become
  <2>2. record'[tx].status = "submitted" /\ record'[tx].submitted
    BY <1>0, <2>1, UpdateFields
  <2>3. \A t \in Txs : Sound(t)'
    BY <1>0, <2>1, <2>2, SoundStays DEF Sound
  <2>4. \A q \in Executors : Honest(q)'
    BY <1>0, <2>1, <2>2, HonestStays, StateFields DEF Honest, Doing, Inv, Idle
  <2> QED
    BY <2>3, <2>4
<1>3. CASE CallChain(p)
  <2>1. /\ UNCHANGED <<record, manual>>
        /\ record[tx].submitted
    BY <1>0, <1>3 DEF CallChain, Honest
  <2>2. PICK a : /\ run' = [run EXCEPT ![p] = Answered(tx, n, a)]
                 /\ a = "ok" => tx \in applied'
    BY <1>0, <1>3 DEF CallChain, Become, Succeeds, GoesUnanswered, Errors
  <2>3. applied \subseteq applied' /\ applied' \cup inFlight' \subseteq applied \cup inFlight \cup {tx}
    BY <1>0, <1>3 DEF CallChain, Succeeds, GoesUnanswered
  <2>4. \A t \in Txs : Sound(t)'
    BY <1>0, <2>1, <2>3, SoundStays
  <2>5. Honest(p)'
    BY <1>0, <2>2 DEF Honest, Answered
  <2>6. \A q \in Executors \ {p} : Honest(q)'
    BY <1>0, <2>1, <2>2, <2>3, HonestStays
  <2> QED
    BY <2>4, <2>5, <2>6
<1>4. ASSUME NEW r \in Record, record' = [record EXCEPT ![tx] = r],
             r.submitted = record[tx].submitted,
             \/ r.status = "confirmed" /\ tx \in applied
             \/ /\ r.status = "pending" /\ r.isRetryable
                /\ r.nextRetryAt # "null" /\ BudgetLeft(r)
             \/ r.status = "failed" /\ ~r.isRetryable,
             run' = [run EXCEPT ![p] = Idle],
             UNCHANGED <<inFlight, applied, manual>>
      PROVE  /\ \A t \in Txs : Sound(t)'
             /\ \A q \in Executors : Honest(q)'
  <2>1. Sound(tx)'
    BY <1>0, <1>4 DEF Sound, BudgetLeft
  <2>2. \A t \in Txs \ {tx} : Sound(t)'
    BY <1>0, <1>4, SoundStays
  <2>3. Honest(p)'
    BY <1>0, <1>4 DEF Honest, Idle
  <2>4. \A q \in Executors \ {p} : Honest(q)'
    BY <1>0, <1>4, HonestStays, StateFields DEF Inv, Idle
  <2> QED
    BY <2>1, <2>2, <2>3, <2>4
<1>5. CASE Confirm(p)
  <2>1. tx \in applied /\ n \in 1..MaxAttempts
    BY <1>0, <1>5 DEF Confirm, Honest
  <2> DEFINE r == MarkedConfirmed(record[tx], n)
  <2>0. r \in Record
    BY <1>0, <2>1, UpdatesAreTyped
  <2>2. /\ r.submitted = record[tx].submitted
        /\ r.status = "confirmed"
    BY <1>0, <2>1, UpdateFields
  <2>3. /\ record' = [record EXCEPT ![tx] = r]
        /\ run' = [run EXCEPT ![p] = Idle]
        /\ UNCHANGED <<inFlight, applied, manual>>
    BY <1>0, <1>5 DEF Confirm, Update, Become
  <2> HIDE DEF r
  <2> QED
    BY <2>0, <2>1, <2>2, <2>3, <1>4
<1>6. CASE HandleTransactionError(p)
  <2>1. run[p].answer \in Errors /\ n \in 1..MaxAttempts
    BY <1>0, <1>6 DEF HandleTransactionError
  <2> DEFINE r == MarkedError(record[tx], n, run[p].answer)
  <2>0. r \in Record
    BY <1>0, <2>1, UpdatesAreTyped
  <2>2. /\ r.submitted = record[tx].submitted
        /\ \/ /\ r.status = "pending" /\ r.isRetryable
              /\ r.nextRetryAt = "later" /\ BudgetLeft(r)
           \/ r.status = "failed" /\ ~r.isRetryable
    BY <1>0, <2>1, UpdateFields
  <2>3. /\ record' = [record EXCEPT ![tx] = r]
        /\ run' = [run EXCEPT ![p] = Idle]
        /\ UNCHANGED <<inFlight, applied, manual>>
    BY <1>0, <1>6 DEF HandleTransactionError, Update, Become
  <2> HIDE DEF r
  <2> QED
    BY <2>0, <2>2, <2>3, <1>4
<1>7. CASE MarkSubmittedFails(p) \/ ConfirmFails(p)
  <2>1. PICK error \in {"network", "contract"} :
          run' = [run EXCEPT ![p] = Answered(tx, n, error)]
    BY <1>0, <1>7 DEF MarkSubmittedFails, ConfirmFails, Become
  <2> QED
    BY <1>1, <1>7, <2>1 DEF MarkSubmittedFails, ConfirmFails, Answered
<1>8. CASE HandleTransactionErrorFails(p) \/ Crash(p)
  BY <1>1, <1>8 DEF HandleTransactionErrorFails, Crash, Become, Idle
<1> QED
  BY <1>2, <1>3, <1>5, <1>6, <1>7, <1>8 DEF Execute, Fails

\* The steps of a manual retry.
LEMMA RetryStep ==
    ASSUME TxAssumption, Inv, NEW c \in Callers,
           \/ \E t \in Txs, force \in BOOLEAN : RetryTransaction(c, t, force)
           \/ ResetForRetry(c)
           \/ ExecuteRetry(c)
    PROVE  /\ \A t \in Txs : Sound(t)'
           /\ \A q \in Executors : Honest(q)'
<1>0. /\ record \in [Txs -> Record] /\ run \in [Executors -> State]
      /\ manual \in [Txs -> 0..MaxManual]
      /\ \A t \in Txs : Sound(t)
      /\ \A q \in Executors : Honest(q)
      /\ c \in Executors
  BY InvParts DEF Inv, TypeOK, Record, State, Executors
<1>1. ASSUME NEW t \in Txs, NEW force \in BOOLEAN, RetryTransaction(c, t, force)
      PROVE  /\ \A u \in Txs : Sound(u)'
             /\ \A q \in Executors : Honest(q)'
  <2>1. /\ manual' = [manual EXCEPT ![t] = @ + 1]
        /\ run' = [run EXCEPT ![c] = [at |-> "resetting", tx |-> t, force |-> force]]
        /\ UNCHANGED <<record, inFlight, applied>>
    BY <1>1 DEF RetryTransaction, Become
  <2>2. manual'[t] # 0 /\ \A u \in Txs : manual'[u] = 0 => manual[u] = 0
    BY <1>0, <2>1
  <2>3. \A u \in Txs : Sound(u)'
    BY <1>0, <2>1, <2>2, SoundStays
  <2>4. Honest(c)'
    BY <1>0, <2>1, <2>2 DEF Honest
  <2>5. \A q \in Executors \ {c} : Honest(q)'
    BY <1>0, <2>1, <2>2, HonestStays, StateFields DEF Inv, Idle
  <2> QED
    BY <2>3, <2>4, <2>5
<1>2. CASE ResetForRetry(c)
  <2>0. PICK tx \in Txs : tx = run[c].tx
    BY <1>0, <1>2, StateFields DEF ResetForRetry, Inv, Idle
  <2>1. run[c].force \in BOOLEAN /\ manual[tx] # 0 /\ record[tx] \in Record
    BY <1>0, <1>2, <2>0, StateFields DEF ResetForRetry, Inv, Honest
  <2> DEFINE r == MarkedForRetry(record[tx], run[c].force)
  <2>4. r \in Record
    BY <2>1, UpdatesAreTyped
  <2>2. /\ r.submitted = record[tx].submitted
        /\ r.status = "pending" /\ r.isRetryable /\ r.nextRetryAt = "due"
    BY <1>0, <2>1, UpdateFields
  <2>3. /\ record' = [record EXCEPT ![tx] = r]
        /\ run' = [run EXCEPT ![c] = [at |-> "reset", tx |-> tx]]
        /\ UNCHANGED <<inFlight, applied, manual>>
    BY <1>2, <2>0 DEF ResetForRetry, Update, Become
  <2> HIDE DEF r
  <2>5. Sound(tx)'
    BY <1>0, <2>1, <2>2, <2>3, <2>4 DEF Sound
  <2>6. \A t \in Txs \ {tx} : Sound(t)'
    BY <1>0, <2>1, <2>3, SoundStays
  <2>7. Honest(c)'
    BY <1>0, <2>3 DEF Honest
  <2>8. \A q \in Executors \ {c} : Honest(q)'
    BY <1>0, <2>1, <2>2, <2>3, HonestStays, StateFields DEF Inv, Idle
  <2> QED
    BY <2>5, <2>6, <2>7, <2>8
<1>3. CASE ExecuteRetry(c)
  <2>1. /\ run' = [run EXCEPT ![c] = StateAfterRead(run[c].tx)]
        /\ UNCHANGED <<record, inFlight, applied, manual>>
    BY <1>3 DEF ExecuteRetry, Become
  <2>2. StateAfterRead(run[c].tx).at \in {"idle", "read"}
    BY DEF StateAfterRead, Doing, Idle
  <2>3. \A t \in Txs : Sound(t)'
    BY <1>0, <2>1, SoundStays
  <2>4. Honest(c)'
    BY <1>0, <2>1, <2>2 DEF Honest
  <2>5. \A q \in Executors \ {c} : Honest(q)'
    BY <1>0, <2>1, HonestStays
  <2> QED
    BY <2>3, <2>4, <2>5
<1> QED
  BY <1>1, <1>2, <1>3

\* The steps that create, queue, expire or date a record, and the network's.
LEMMA OtherStep ==
    ASSUME TxAssumption, Inv,
           \/ \E t \in Txs :
                \/ CreateTransaction(t) \/ ScheduleTransaction(t) \/ ScheduleTransactionFails(t)
                \/ LedgerCloses(t) \/ BackoffElapses(t) \/ Ages(t)
           \/ ScheduleRetryableTransactions
           \/ CleanupExpiredTransactions
           \/ \E w \in Workers, t \in Txs : ProcessJob(w, t) \/ ProcessJobFails(w, t)
           \/ \E w \in Workers : ProcessCleanup(w)
           \/ UNCHANGED vars
    PROVE  /\ \A t \in Txs : Sound(t)'
           /\ \A q \in Executors : Honest(q)'
<1> DEFINE Kept == (\A t \in Txs : Sound(t)') /\ (\A q \in Executors : Honest(q)')
<1>0. /\ record \in [Txs -> Record] /\ run \in [Executors -> State]
      /\ \A t \in Txs : Sound(t)
      /\ \A q \in Executors : Honest(q)
      /\ \A q \in Executors : run[q].at \in {"calling", "resetting"} => run[q].tx \in Txs
  BY InvParts, StateFields DEF Inv, TypeOK, Record, State, Idle
<1>1. ASSUME UNCHANGED <<record, inFlight, applied, manual, run>>
      PROVE  Kept
  BY <1>0, <1>1 DEF Sound, Honest, BudgetLeft
<1>2. ASSUME UNCHANGED <<inFlight, applied, manual, run>>,
             \A t \in Txs : record[t].submitted => record'[t].submitted,
             \A t \in Txs : record'[t] = record[t] \/ Sound(t)'
      PROVE  Kept
  BY <1>0, <1>2, SoundStays, HonestStays
<1>3. ASSUME NEW t \in Txs, CreateTransaction(t)
      PROVE  Kept
  <2>1. /\ record' = [record EXCEPT ![t] = Created]
        /\ UNCHANGED <<inFlight, applied, manual, run>>
    BY <1>3 DEF CreateTransaction, Update
  <2>2. ~record[t].submitted
    BY <1>0, <1>3 DEF CreateTransaction, Sound, NoRecord
  <2>3. Sound(t)'
    BY <1>0, <2>1, <2>2 DEF Sound, Created, BudgetLeft, TxAssumption
  <2> QED
    BY <1>0, <1>2, <2>1, <2>2, <2>3
<1>4. ASSUME NEW w \in Workers, ProcessCleanup(w)
      PROVE  Kept
  <2> DEFINE Expired(t) == [record[t] EXCEPT !.status = "expired", !.isRetryable = FALSE]
  <2>1. /\ record' = [t \in Txs |-> IF Expirable(t) THEN Expired(t) ELSE record[t]]
        /\ UNCHANGED <<inFlight, applied, manual, run>>
    BY <1>4 DEF ProcessCleanup
  <2>2. \A t \in Txs : /\ Expired(t).status = "expired" /\ ~Expired(t).isRetryable
                       /\ Expired(t).submitted = record[t].submitted
    BY <1>0 DEF Record
  <2> HIDE DEF Expired
  <2>3. ASSUME NEW t \in Txs, record'[t] # record[t]
        PROVE  Sound(t)'
    <3>1. record'[t] = Expired(t)
      BY <2>1, <2>3
    <3> QED
      BY <1>0, <2>1, <2>2, <3>1 DEF Sound
  <2>4. \A t \in Txs : record[t].submitted => record'[t].submitted
    BY <2>1, <2>2
  <2> QED
    BY <1>2, <2>1, <2>3, <2>4
<1>5. ASSUME NEW t \in Txs, BackoffElapses(t)
      PROVE  Kept
  <2> DEFINE r == [record[t] EXCEPT !.nextRetryAt = "due"]
  <2>1. /\ record' = [record EXCEPT ![t] = r]
        /\ record[t].nextRetryAt = "later"
        /\ UNCHANGED <<inFlight, applied, manual, run>>
    BY <1>5 DEF BackoffElapses, Update
  <2>2. /\ r.status = record[t].status /\ r.submitted = record[t].submitted
        /\ r.isRetryable = record[t].isRetryable /\ r.nextRetryAt = "due"
        /\ r.attemptCount = record[t].attemptCount
    BY <1>0 DEF Record
  <2>3. record[t].status # "none"
    BY <1>0, <2>1 DEF Sound, NoRecord
  <2> HIDE DEF r
  <2>4. Sound(t)'
    BY <1>0, <2>1, <2>2, <2>3 DEF Sound, BudgetLeft
  <2> QED
    BY <1>0, <1>2, <2>1, <2>2, <2>4
<1>6. ASSUME NEW t \in Txs, LedgerCloses(t)
      PROVE  Kept
  <2>1. /\ UNCHANGED <<record, manual, run>>
        /\ applied \subseteq applied'
        /\ applied' \cup inFlight' \subseteq applied \cup inFlight
    BY <1>6 DEF LedgerCloses
  <2> QED
    BY <1>0, <2>1, SoundStays, HonestStays
<1>7. ASSUME NEW w \in Workers, NEW t \in Txs, ProcessJob(w, t)
      PROVE  Kept
  <2>1. /\ run' = [run EXCEPT ![w] = StateAfterRead(t)]
        /\ UNCHANGED <<record, inFlight, applied, manual>>
    BY <1>7 DEF ProcessJob, Become
  <2>2. StateAfterRead(t).at \in {"idle", "read"}
    BY DEF StateAfterRead, Doing, Idle
  <2>3. \A q \in Executors : Honest(q)'
    BY <1>0, <2>1, <2>2 DEF Honest
  <2> QED
    BY <1>0, <2>1, <2>3, SoundStays
<1> QED
  BY <1>1, <1>3, <1>4, <1>5, <1>6, <1>7
     DEF ScheduleTransaction, ScheduleTransactionFails, Ages, ScheduleRetryableTransactions,
         CleanupExpiredTransactions, ProcessJobFails, vars

-----------------------------------------------------------------------------

\* The invariant holds at the start.
LEMMA InvInit == ASSUME TxAssumption, Init PROVE Inv
<1>1. TypeOK
  BY DEF Init, TypeOK, NoRecord, Statuses, TxAssumption
<1> QED
  BY <1>1, InvParts DEF Init, Sound, Honest, NoRecord, Idle

\* Whatever executions, expiries, retries and crashes interleave, records stay
\* sound and executors honest.
THEOREM InvHolds == Spec => []Inv
<1> USE TxAssumption
<1>1. Init => Inv
  BY InvInit
<1>2. Inv /\ [Next]_vars => Inv'
  <2> SUFFICES ASSUME Inv, [Next]_vars PROVE Inv'
    OBVIOUS
  <2>1. TypeOK'
    BY TypesStep DEF Inv
  <2>2. (\A t \in Txs : Sound(t)') /\ (\A q \in Executors : Honest(q)')
    BY ExecutorStep, RetryStep, OtherStep DEF Next
  <2>3. (applied \cup inFlight)' \subseteq Txs
    BY <2>1 DEF TypeOK
  <2> QED
    BY <2>1, <2>2, <2>3
       DEF Inv, Sound, Honest, AnswerIsTrue, CallIsTraced, RetryIsCounted, NoneIsEmpty,
           ConfirmedTookEffect, EffectIsTraced, PendingWillRun, GivenUpIsClosed, BudgetLeft
<1> QED
  BY <1>1, <1>2, PTL DEF Spec

\* Every record, job, executor and counter keeps its type and its bound.
THEOREM TypesHold == Spec => []TypeOK
<1>1. Inv => TypeOK
  BY DEF Inv
<1> QED
  BY <1>1, InvHolds, PTL

\* A record says confirmed only of an operation that took effect on chain:
\* markConfirmed is reached only with the adapter's answer.
THEOREM ConfirmedIsTrue == Spec => []ConfirmedTookEffect
<1>1. Inv => ConfirmedTookEffect
  BY DEF Inv
<1> QED
  BY <1>1, InvHolds, PTL

\* Nothing is sent or applied of which the record does not say that it was
\* submitted: markSubmitted is awaited before the adapter is called.
THEOREM EffectsAreTraced == Spec => []EffectIsTraced
<1>1. Inv => EffectIsTraced
  BY DEF Inv
<1> QED
  BY <1>1, InvHolds, PTL

\* A pending record is one that getRetryableTransactions returns when its time
\* comes, unless it was retried by hand: none is stranded.
THEOREM NoStrandedRecord == Spec => []PendingWillRun
<1>1. Inv => PendingWillRun
  BY DEF Inv
<1> QED
  BY <1>1, InvHolds, PTL

\* A failed or expired record is not retryable, so that no job queued for it
\* starts an attempt.
THEOREM GivenUpStaysClosed == Spec => []GivenUpIsClosed
<1>1. Inv => GivenUpIsClosed
  BY DEF Inv
<1> QED
  BY <1>1, InvHolds, PTL

=============================================================================
