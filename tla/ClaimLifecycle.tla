--------------------------- MODULE ClaimLifecycle ---------------------------
(***************************************************************************)
(* The claims of one campaign in the backend: the status machine of        *)
(* ClaimsService, the budget ledger that creation, cancellation and        *)
(* reissue write, the verification jobs that write the status as well, and *)
(* the hourly clean-up of expired claims.                                  *)
(*                                                                         *)
(* A request is a sequence of database statements; other requests, jobs    *)
(* and the cron task run between any two of them.  What one database       *)
(* transaction does is one step.  Creation holds a row lock on the         *)
(* campaign from its budget check to its commit.                           *)
(***************************************************************************)
EXTENDS Naturals, FiniteSets, FiniteSetsExt

CONSTANTS
    Claims,      \* claim ids
    Requests,    \* HTTP requests that can be in flight at once
    Jobs,        \* verification jobs that can exist at once
    Amounts,     \* amounts a claim can have
    Budgets,     \* budgets the campaign can have
    MaxAttempts, \* attempts of a verification job (QUEUE_MAX_RETRIES)
    MaxFaults,   \* failures of the queue, the AI service and the audit log
    None         \* no claim, no request

ASSUME ClaimAssumption ==
    /\ IsFiniteSet(Claims) /\ None \notin Claims \cup Requests
    /\ Amounts \subseteq Nat \ {0} /\ Budgets \subseteq Nat
    /\ MaxAttempts \in Nat \ {0} /\ MaxFaults \in Nat

VARIABLES
    claim,     \* the claim rows
    locks,     \* sum of a claim's lock entries in the balance ledger
    budget,    \* the campaign's budget
    rowLock,   \* the request that holds the campaign row FOR UPDATE
    req,       \* what each request is about to do
    job,       \* the verification queue
    cleanup,   \* the claims the running clean-up has still to archive
    faults

vars == <<claim, locks, budget, rowLock, req, job, cleanup, faults>>

Transitions == {"verify", "approve", "disburse", "archive"}

FromStatus == [verify |-> "requested", approve |-> "verified",
               disburse |-> "approved", archive |-> "disbursed"]

ToStatus == [verify |-> "verified", approve |-> "approved",
             disburse |-> "disbursed", archive |-> "archived"]

\* CANCELLABLE_STATUSES
Cancellable == {"requested", "verified", "approved"}

ClaimStatus == {"requested", "verified", "approved", "disbursed", "archived", "cancelled"}

\* result is the outcome kept in anchorMetadata; everPassed remembers whether
\* some verification of the claim passed; expiresAt is abstracted to whether
\* the claim has one and whether it has passed.
ClaimRow ==
    [status : ClaimStatus \cup {"none"}, amount : Amounts \cup {0},
     result : {"none", "passed", "failed"}, everPassed : BOOLEAN,
     expiry : {"never", "ahead", "passed"}, reissuedFrom : Claims \cup {None}]

NoClaim ==
    [status |-> "none", amount |-> 0, result |-> "none", everPassed |-> FALSE,
     expiry |-> "never", reissuedFrom |-> None]

Idle == [op |-> "idle", at |-> "start", claim |-> None, amount |-> 0]

Free == [at |-> "free", claim |-> None, left |-> 0]

Exists(c) == claim[c].status # "none"

BrokenLockedTotal ==
    MapThenSumSet(LAMBDA c : locks[c], {c \in Claims : claim[c].status # "cancelled"})

\* Sum of the campaign's lock entries; nothing writes disburse entries.
LockedTotal == MapThenSumSet(LAMBDA c : locks[c], Claims)

-----------------------------------------------------------------------------
Init ==
    /\ claim = [c \in Claims |-> NoClaim]
    /\ locks = [c \in Claims |-> 0]
    /\ budget \in Budgets
    /\ rowLock = None
    /\ req = [p \in Requests |-> Idle]
    /\ job = [j \in Jobs |-> Free]
    /\ cleanup = {}
    /\ faults = 0

\* A request goes on to its next statement, or ends.
Goto(p, op, at, c, a) ==
    req' = [req EXCEPT ![p] = [op |-> op, at |-> at, claim |-> c, amount |-> a]]

Return(p) == req' = [req EXCEPT ![p] = Idle]

SetStatus(c, s) == claim' = [claim EXCEPT ![c].status = s]

-----------------------------------------------------------------------------
\* Creation: one transaction reserves, creates the claim and its lock entry.

\* The lock keeps every other writer of the campaign and of its ledger out
\* until the transaction commits.
BrokenRowLocked(p) == rowLock' = None

RowLocked(p) == rowLock = None /\ rowLock' = p

Commit == rowLock' = None

\* SELECT ... FOR UPDATE, then the sum of the lock entries.
ReserveBudget(p, c, a) ==
    /\ req[p] = Idle
    /\ ~Exists(c)
    /\ RowLocked(p)
    /\ LockedTotal + a <= budget
    /\ Goto(p, "create", "insert", c, a)
    /\ UNCHANGED <<claim, locks, budget, job, cleanup, faults>>

\* The claim and its lock entry are written and the transaction commits.
CreateClaim(p) ==
    LET c == req[p].claim
    IN  /\ req[p].op = "create" /\ req[p].at = "insert" /\ ~Exists(c)
        /\ claim' = [claim EXCEPT ![c] =
                        [NoClaim EXCEPT !.status = "requested",
                                        !.amount = req[p].amount,
                                        !.expiry = "ahead"]]
        /\ locks' = [locks EXCEPT ![c] = @ + req[p].amount]
        /\ Commit
        /\ Goto(p, "create", "enqueue", c, 0)
        /\ UNCHANGED <<budget, job, cleanup, faults>>

\* A verification job is added unless the claim is already verified.
EnqueueVerification(c) ==
    IF claim[c].status = "verified" THEN UNCHANGED job
    ELSE \E j \in Jobs :
            /\ job[j] = Free
            /\ job' = [job EXCEPT ![j] =
                          [at |-> "waiting", claim |-> c, left |-> MaxAttempts]]

\* create hands the claim to the pipeline; a failing queue is only logged.
EnqueueVerificationForClaim(p) ==
    /\ req[p].op = "create" /\ req[p].at = "enqueue"
    /\ \/ EnqueueVerification(req[p].claim) /\ UNCHANGED faults
       \/ faults < MaxFaults /\ faults' = faults + 1 /\ UNCHANGED job
    /\ Return(p)
    /\ UNCHANGED <<claim, locks, budget, rowLock, cleanup>>

\* An operator asks for a verification of a claim, in whatever status it is.
RequestVerification(c) ==
    /\ Exists(c)
    /\ EnqueueVerification(c)
    /\ UNCHANGED <<claim, locks, budget, rowLock, req, cleanup, faults>>

\* The campaign's budget is edited; the row lock of a creation holds it off.
UpdateCampaign(b) ==
    /\ rowLock = None
    /\ budget' = b
    /\ UNCHANGED <<claim, locks, rowLock, req, job, cleanup, faults>>

-----------------------------------------------------------------------------
\* The status machine.

\* verify's own read: a persisted outcome that passed; a claim that is
\* already verified is left as it is.
BrokenVerifiable(row) == row.result # "none" /\ row.status # "verified"

Verifiable(row) == row.result = "passed" /\ row.status # "verified"

Verify(p, c) ==
    /\ req[p] = Idle
    /\ Verifiable(claim[c])
    /\ Goto(p, "verify", "check", c, 0)
    /\ UNCHANGED <<claim, locks, budget, rowLock, job, cleanup, faults>>

\* disburse's own read, and the attempt to create the Soroban transaction,
\* whose failure is logged and swallowed.
Disburse(p, c) ==
    /\ req[p] = Idle
    /\ claim[c].status = "approved"
    /\ Goto(p, "disburse", "check", c, 0)
    /\ UNCHANGED <<claim, locks, budget, rowLock, job, cleanup, faults>>

\* transitionStatus reads the row and refuses any other status than expected.
MayTransition(op, row) == row.status = FromStatus[op]

TransitionStatus(p, op, c) ==
    /\ \/ op \in {"approve", "archive"} /\ req[p] = Idle
       \/ req[p] = [op |-> op, at |-> "check", claim |-> c, amount |-> 0]
    /\ IF MayTransition(op, claim[c]) THEN Goto(p, op, "update", c, 0)
                                     ELSE req[p] # Idle /\ Return(p)
    /\ UNCHANGED <<claim, locks, budget, rowLock, job, cleanup, faults>>

\* Its transaction updates the row by id, whatever the row has become.
UpdateStatus(p) ==
    /\ req[p].op \in Transitions /\ req[p].at = "update"
    /\ SetStatus(req[p].claim, ToStatus[req[p].op])
    /\ Return(p)
    /\ UNCHANGED <<locks, budget, rowLock, job, cleanup, faults>>

-----------------------------------------------------------------------------
\* Cancellation and reissue check the status first and write afterwards.

CheckCancellable(p, op, c, a) ==
    /\ req[p] = Idle
    /\ claim[c].status \in Cancellable
    /\ Goto(p, op, "commit", c, a)
    /\ UNCHANGED <<claim, locks, budget, rowLock, job, cleanup, faults>>

\* The unlock entry refers to the campaign row and waits for its lock; budget
\* checks never read it.
Cancel(p) ==
    LET c == req[p].claim
    IN  /\ req[p].op = "cancel" /\ rowLock = None
        /\ SetStatus(c, "cancelled")
        /\ Return(p)
        /\ UNCHANGED <<locks, budget, rowLock, job, cleanup, faults>>

\* The replacement is locked without a reservation, has no expiry and is not
\* queued for verification.
Reissue(p, n) ==
    LET c == req[p].claim
    IN  /\ req[p].op = "reissue" /\ rowLock = None /\ ~Exists(n)
        /\ claim' = [claim EXCEPT
                        ![c].status = "cancelled",
                        ![n] = [NoClaim EXCEPT !.status = "requested",
                                               !.amount = req[p].amount,
                                               !.reissuedFrom = c]]
        /\ locks' = [locks EXCEPT ![n] = @ + req[p].amount]
        /\ Return(p)
        /\ UNCHANGED <<budget, rowLock, job, cleanup, faults>>

-----------------------------------------------------------------------------
\* Verification jobs.

\* Everything up to the write only reads; the outcome is written over the
\* status the claim has by now.
ProcessVerification(j, passed) ==
    LET c == job[j].claim
    IN  /\ job[j].at = "waiting"
        /\ claim' = [claim EXCEPT
                        ![c].status = IF passed THEN "verified" ELSE "requested",
                        ![c].result = IF passed THEN "passed" ELSE "failed",
                        ![c].everPassed = @ \/ passed]
        /\ job' = [job EXCEPT ![j].at = "audit"]
        /\ UNCHANGED <<locks, budget, rowLock, req, cleanup, faults>>

\* The audit record is written and the job completes.
CompleteJob(j) ==
    /\ job[j].at = "audit"
    /\ job' = [job EXCEPT ![j] = Free]
    /\ UNCHANGED <<claim, locks, budget, rowLock, req, cleanup, faults>>

\* The verification or the audit record fails; the job is tried again from
\* the start, and goes to the dead-letter queue after its last attempt.
FailJob(j) ==
    /\ job[j].at \in {"waiting", "audit"} /\ faults < MaxFaults
    /\ faults' = faults + 1
    /\ job' = IF job[j].left > 1
              THEN [job EXCEPT ![j].at = "waiting", ![j].left = @ - 1]
              ELSE [job EXCEPT ![j] = Free]
    /\ UNCHANGED <<claim, locks, budget, rowLock, req, cleanup>>

-----------------------------------------------------------------------------
\* Expiry.

Expire(c) ==
    /\ claim[c].expiry = "ahead"
    /\ claim' = [claim EXCEPT ![c].expiry = "passed"]
    /\ UNCHANGED <<locks, budget, rowLock, req, job, cleanup, faults>>

Expired(row) == row.status \in {"requested", "verified"} /\ row.expiry = "passed"

\* The cron task lists the expired claims once ...
FindExpiredClaims ==
    /\ cleanup = {}
    /\ cleanup' = {c \in Claims : Expired(claim[c])}
    /\ cleanup' # {}
    /\ UNCHANGED <<claim, locks, budget, rowLock, req, job, faults>>

\* ... and archives them one by one, without looking at them again and
\* without an unlock entry.
ArchiveExpired(c) ==
    /\ c \in cleanup
    /\ SetStatus(c, "archived")
    /\ cleanup' = cleanup \ {c}
    /\ UNCHANGED <<locks, budget, rowLock, req, job, faults>>

\* The audit record of a claim fails: the rest is left to the next hour.
AbortCleanup ==
    /\ cleanup # {} /\ faults < MaxFaults
    /\ cleanup' = {}
    /\ faults' = faults + 1
    /\ UNCHANGED <<claim, locks, budget, rowLock, req, job>>

-----------------------------------------------------------------------------
Request(p) ==
    \/ \E c \in Claims, a \in Amounts : ReserveBudget(p, c, a)
    \/ CreateClaim(p)
    \/ EnqueueVerificationForClaim(p)
    \/ \E c \in Claims : Verify(p, c) \/ Disburse(p, c)
    \/ \E op \in Transitions, c \in Claims : TransitionStatus(p, op, c)
    \/ UpdateStatus(p)
    \/ \E c \in Claims : CheckCancellable(p, "cancel", c, 0)
    \/ \E c \in Claims, a \in Amounts : CheckCancellable(p, "reissue", c, a)
    \/ Cancel(p)
    \/ \E n \in Claims : Reissue(p, n)

Verification(j) ==
    \/ \E passed \in BOOLEAN : ProcessVerification(j, passed)
    \/ CompleteJob(j)
    \/ FailJob(j)

Cleanup ==
    \/ FindExpiredClaims
    \/ \E c \in Claims : ArchiveExpired(c)
    \/ AbortCleanup

Next ==
    \/ \E p \in Requests : Request(p)
    \/ \E c \in Claims : RequestVerification(c) \/ Expire(c)
    \/ \E b \in Budgets : UpdateCampaign(b)
    \/ \E j \in Jobs : Verification(j)
    \/ Cleanup

Spec == Init /\ [][Next]_vars

-----------------------------------------------------------------------------
\* The types; the campaign row is locked only during the transaction of a
\* creation.
TypeOK ==
    /\ claim \in [Claims -> ClaimRow]
    /\ locks \in [Claims -> Amounts \cup {0}]
    /\ budget \in Budgets
    /\ rowLock \in {None} \cup {p \in Requests : req[p].at = "insert"}
    /\ req \in [Requests -> [op : Transitions \cup {"idle", "create", "cancel", "reissue"},
                             at : {"start", "insert", "enqueue", "check", "update", "commit"},
                             claim : Claims \cup {None}, amount : Amounts \cup {0}]]
    /\ job \in [Jobs -> [at : {"free", "waiting", "audit"}, claim : Claims \cup {None},
                         left : 0 .. MaxAttempts]]
    /\ cleanup \subseteq Claims
    /\ faults \in 0 .. MaxFaults

\* claims.service.ts, create: "two concurrent creates against the same campaign
\* are serialized here".  When a new claim's lock entry commits, the lock
\* entries fit the budget of that moment, whatever ran since the check.
NewLocksFitBudget ==
    [][\A c \in Claims :
        ~Exists(c) /\ claim'[c].status = "requested" /\ claim'[c].reissuedFrom = None
            => LockedTotal' <= budget']_vars

\* claim-verification-state.service.ts: verified, approved and disbursed are
\* statuses "a claim can only reach once its verification passed", also when
\* jobs run again and requests overlap.  Without one a claim is closed only
\* by a cancellation or by its expiry.
VerificationPrecedes ==
    \A c \in Claims :
        (\/ claim[c].status \in {"verified", "approved", "disbursed"}
         \/ claim[c].status = "archived" /\ claim[c].expiry # "passed")
        => claim[c].everPassed

GrantOf == [c \in Claims |-> claim[c].amount]

OriginOf == [c \in Claims |-> claim[c].reissuedFrom]

Ledger == INSTANCE BudgetBook WITH
    Claim <- Claims,
    Amount <- Amounts,
    Limit <- Budgets,
    Nobody <- None,
    grant <- GrantOf,
    entry <- locks,
    origin <- OriginOf,
    used <- LockedTotal,
    limit <- budget

\* budget.service.ts, reserveBudget: "concurrent callers attempting to reserve
\* budget against the *same campaign* are serialized".  A creation is a check and
\* a write with other requests, jobs and clean-ups in between, and still books its
\* claim as if at once; none of those rewrites a claim's amount, its ledger entry
\* or the claim it replaces, and only a reissue books one without the check.
ImplementsBook == Ledger!BookSpec

=============================================================================
