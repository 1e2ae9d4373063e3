------------------------ MODULE ClaimLifecycleProofs ------------------------
(***************************************************************************)
(* What ClaimLifecycle guarantees for every choice of its constants: no    *)
(* status beyond "requested" without a verification that passed, and no    *)
(* new lock entry beyond the budget.                                       *)
(*                                                                         *)
(* The checks of a request and its writes are different steps, so the      *)
(* invariant says what a standing request may still rely on: its claim     *)
(* exists, a verification of it has passed, the campaign's row is locked   *)
(* and the amount fits.  Each of these holds on because claims are never   *)
(* deleted, a verification is never unmade, and the ledger and the budget  *)
(* wait for the row.                                                       *)
(***************************************************************************)
EXTENDS ClaimLifecycle, SumTheorems

-----------------------------------------------------------------------------
(* The requests and jobs that can stand. *)

Standing ==
    {Idle}
    \cup [op : {"create"}, at : {"insert"}, claim : Claims, amount : Amounts]
    \cup [op : {"create"}, at : {"enqueue"}, claim : Claims, amount : {0}]
    \cup [op : {"verify", "disburse"}, at : {"check"}, claim : Claims, amount : {0}]
    \cup [op : Transitions, at : {"update"}, claim : Claims, amount : {0}]
    \cup [op : {"cancel"}, at : {"commit"}, claim : Claims, amount : {0}]
    \cup [op : {"reissue"}, at : {"commit"}, claim : Claims, amount : Amounts]

Queued == {Free} \cup [at : {"waiting", "audit"}, claim : Claims, left : 1 .. MaxAttempts]

\* What VerificationPrecedes says of a row, and what verify reads in it.
Earned(row) ==
    /\ \/ row.status \in {"verified", "approved", "disbursed"}
       \/ row.status = "archived" /\ row.expiry # "passed"
       => row.everPassed
    /\ row.result = "passed" => row.everPassed

\* What each request relies on when it goes on.
Founded(r) ==
    /\ r.at \in {"enqueue", "check", "update", "commit"} => Exists(r.claim)
    /\ r.at \in {"check", "update"} => claim[r.claim].everPassed
    /\ r.at = "insert" => LockedTotal + r.amount <= budget

Inv ==
    /\ claim \in [Claims -> ClaimRow]
    /\ locks \in [Claims -> Amounts \cup {0}]
    /\ budget \in Budgets /\ faults \in 0 .. MaxFaults
    /\ req \in [Requests -> Standing]
    /\ job \in [Jobs -> Queued]
    /\ \A c \in Claims : Earned(claim[c])
    /\ \A c \in Claims : ~Exists(c) => claim[c] = NoClaim /\ locks[c] = 0
    /\ \A c \in Claims : Exists(c) => claim[c].amount \in Amounts
    /\ rowLock \in {None} \cup {p \in Requests : req[p].at = "insert"}
    /\ \A p \in Requests : Founded(req[p]) /\ (req[p].at = "insert" => rowLock = p)
    /\ \A j \in Jobs : job[j].at # "free" => Exists(job[j].claim)
    /\ \A c \in cleanup : c \in Claims /\ Exists(c) /\ claim[c].expiry = "passed"

-----------------------------------------------------------------------------
(* What a step may do to the claims: rewrite the row of one that exists,   *)
(* create one, or replace one.                                             *)

Rewrites(c, row) ==
    /\ Exists(c)
    /\ claim' = [claim EXCEPT ![c] = row] /\ UNCHANGED locks
    /\ row.status \in ClaimStatus /\ Earned(row)
    /\ claim[c].everPassed => row.everPassed
    /\ claim[c].expiry = "passed" => row.expiry = "passed"
    /\ row.amount = claim[c].amount /\ row.reissuedFrom = claim[c].reissuedFrom

ClaimShape ==
    \/ UNCHANGED <<claim, locks>>
    \/ \E c \in Claims, row \in ClaimRow : Rewrites(c, row)
    \/ \E p \in Requests : CreateClaim(p)
    \/ \E p \in Requests, n \in Claims : Reissue(p, n)

LEMMA RowFields ==
    ASSUME Inv, NEW c \in Claims
    PROVE  /\ claim[c] \in ClaimRow /\ Earned(claim[c])
           /\ claim[c].status \in ClaimStatus \cup {"none"}
           /\ claim[c].result \in {"none", "passed", "failed"}
           /\ claim[c].everPassed \in BOOLEAN
           /\ claim[c].expiry \in {"never", "ahead", "passed"}
           /\ claim[c].everPassed => Exists(c)
BY DEF Inv, ClaimRow, NoClaim, Exists

\* A request beyond its reservation is about a claim that exists.
LEMMA StandingFacts ==
    ASSUME Inv, NEW p \in Requests, req[p].op # "idle"
    PROVE  /\ req[p].claim \in Claims
           /\ req[p].at # "insert" => Exists(req[p].claim)
           /\ req[p].at \in {"check", "update"} => claim[req[p].claim].everPassed
           /\ req[p].op = "create" /\ req[p].at = "insert" =>
                req[p].amount \in Amounts /\ LockedTotal + req[p].amount <= budget
           /\ req[p].op = "cancel" => req[p].at = "commit"
           /\ req[p].op = "reissue" => req[p].at = "commit" /\ req[p].amount \in Amounts
           /\ req[p].op \in Transitions => req[p].at \in {"check", "update"}
<1>1. PICK r \in Standing : r = req[p]
  BY DEF Inv
<1>2. r.op # "idle" /\ Founded(r)
  BY <1>1 DEF Inv
<1>3. /\ r.claim \in Claims
      /\ r.at \in {"insert", "enqueue", "check", "update", "commit"}
      /\ r.op = "create" /\ r.at = "insert" => r.amount \in Amounts
      /\ r.op = "cancel" => r.at = "commit"
      /\ r.op = "reissue" => r.at = "commit" /\ r.amount \in Amounts
      /\ r.op \in Transitions => r.at \in {"check", "update"}
  BY <1>2 DEF Standing, Idle, Transitions
<1> QED
  BY <1>1, <1>2, <1>3 DEF Founded

\* A row with another status, result or expiry is a row.
LEMMA RowSet ==
    ASSUME NEW row \in ClaimRow, NEW s \in ClaimStatus
    PROVE  /\ [row EXCEPT !.status = s] \in ClaimRow
           /\ [row EXCEPT !.status = s].status = s
           /\ [row EXCEPT !.status = s].result = row.result
           /\ [row EXCEPT !.status = s].everPassed = row.everPassed
           /\ [row EXCEPT !.status = s].expiry = row.expiry
           /\ [row EXCEPT !.status = s].amount = row.amount
           /\ [row EXCEPT !.status = s].reissuedFrom = row.reissuedFrom
BY DEF ClaimRow

LEMMA SetStatusRewrites ==
    ASSUME Inv, NEW c \in Claims, NEW s \in ClaimStatus, Exists(c),
           SetStatus(c, s), UNCHANGED locks,
           \/ s \in {"verified", "approved", "disbursed"}
           \/ s = "archived" /\ claim[c].expiry # "passed"
           => claim[c].everPassed
    PROVE  \E row \in ClaimRow : Rewrites(c, row)
<1>1. PICK row : row = [claim[c] EXCEPT !.status = s]
  OBVIOUS
<1>2. /\ row \in ClaimRow /\ row.status = s /\ row.result = claim[c].result
      /\ row.everPassed = claim[c].everPassed /\ row.expiry = claim[c].expiry
      /\ row.amount = claim[c].amount /\ row.reissuedFrom = claim[c].reissuedFrom
  BY <1>1, RowFields, RowSet
<1>3. Earned(claim[c])
  BY RowFields
<1>4. Earned(row)
  BY <1>2, <1>3 DEF Earned
<1>5. claim' = [claim EXCEPT ![c] = row]
  BY <1>1 DEF SetStatus, Inv
<1> QED
  BY <1>2, <1>4, <1>5 DEF Rewrites

LEMMA StepClaimShape ==
    ASSUME ClaimAssumption, Inv, [Next]_vars
    PROVE  ClaimShape
<1>1. CASE \E p \in Requests : Request(p)
  <2>1. PICK p \in Requests : Request(p)
    BY <1>1
  <2>2. CASE UpdateStatus(p)
    <3>1. /\ req[p].op \in Transitions /\ req[p].at = "update"
          /\ SetStatus(req[p].claim, ToStatus[req[p].op]) /\ UNCHANGED locks
      BY <2>2 DEF UpdateStatus
    <3>2. ToStatus[req[p].op] \in ClaimStatus /\ req[p].op # "idle"
      BY <3>1 DEF ToStatus, Transitions, ClaimStatus
    <3>3. PICK c \in Claims : c = req[p].claim /\ Exists(c) /\ claim[c].everPassed
      BY <3>1, <3>2, StandingFacts
    <3>4. \E row \in ClaimRow : Rewrites(c, row)
      BY <3>1, <3>2, <3>3, SetStatusRewrites
    <3> QED
      BY <3>4 DEF ClaimShape
  <2>3. CASE Cancel(p)
    <3>1. req[p].op = "cancel" /\ SetStatus(req[p].claim, "cancelled") /\ UNCHANGED locks
      BY <2>3 DEF Cancel
    <3>2. PICK c \in Claims : c = req[p].claim /\ Exists(c)
      BY <3>1, StandingFacts
    <3>3. "cancelled" \in ClaimStatus
      BY DEF ClaimStatus
    <3>4. \E row \in ClaimRow : Rewrites(c, row)
      BY <3>1, <3>2, <3>3, SetStatusRewrites
    <3> QED
      BY <3>4 DEF ClaimShape
  <2>4. CASE CreateClaim(p) \/ \E n \in Claims : Reissue(p, n)
    BY <2>4 DEF ClaimShape
  <2>5. CASE \/ \E c \in Claims, a \in Amounts : ReserveBudget(p, c, a)
             \/ EnqueueVerificationForClaim(p)
             \/ \E c \in Claims : Verify(p, c) \/ Disburse(p, c)
             \/ \E op \in Transitions, c \in Claims : TransitionStatus(p, op, c)
             \/ \E c \in Claims : CheckCancellable(p, "cancel", c, 0)
             \/ \E c \in Claims, a \in Amounts : CheckCancellable(p, "reissue", c, a)
    BY <2>5 DEF ReserveBudget, EnqueueVerificationForClaim, Verify, Disburse, TransitionStatus,
                CheckCancellable, ClaimShape
  <2> QED
    BY <2>1, <2>2, <2>3, <2>4, <2>5 DEF Request
<1>2. CASE \E c \in Claims : RequestVerification(c)
  BY <1>2 DEF RequestVerification, ClaimShape
<1>3. CASE \E c \in Claims : Expire(c)
  <2>1. PICK c \in Claims : Expire(c)
    BY <1>3
  <2>2. PICK row : row = [claim[c] EXCEPT !.expiry = "passed"]
    OBVIOUS
  <2>3. claim[c] \in ClaimRow /\ Earned(claim[c])
    BY RowFields
  <2>4. /\ row \in ClaimRow /\ row.status = claim[c].status /\ row.result = claim[c].result
        /\ row.everPassed = claim[c].everPassed /\ row.expiry = "passed"
        /\ row.amount = claim[c].amount /\ row.reissuedFrom = claim[c].reissuedFrom
    BY <2>2, <2>3 DEF ClaimRow
  <2>5. Exists(c)
    BY <2>1 DEF Expire, Inv, NoClaim
  <2>6. row.status \in ClaimStatus
    BY <2>3, <2>4, <2>5 DEF ClaimRow, Exists
  <2>7. Earned(row)
    BY <2>3, <2>4 DEF Earned
  <2>8. claim' = [claim EXCEPT ![c] = row] /\ UNCHANGED locks
    BY <2>1, <2>2 DEF Expire, Inv
  <2> QED
    BY <2>4, <2>5, <2>6, <2>7, <2>8 DEF Rewrites, ClaimShape
<1>4. CASE \E b \in Budgets : UpdateCampaign(b)
  BY <1>4 DEF UpdateCampaign, ClaimShape
<1>5. CASE \E j \in Jobs : Verification(j)
  <2>1. PICK j \in Jobs : Verification(j)
    BY <1>5
  <2>2. CASE \E passed \in BOOLEAN : ProcessVerification(j, passed)
    <3>1. PICK passed \in BOOLEAN : ProcessVerification(j, passed)
      BY <2>2
    <3>2. PICK q \in Queued : q = job[j]
      BY DEF Inv
    <3>3. q.at = "waiting" /\ q.claim \in Claims
      BY <3>1, <3>2 DEF ProcessVerification, Queued, Free
    <3>4. PICK c \in Claims : c = job[j].claim /\ Exists(c)
      BY <3>2, <3>3 DEF Inv
    <3>5. claim[c] \in ClaimRow /\ Earned(claim[c])
      BY RowFields
    <3>6. PICK row :
            row = [claim[c] EXCEPT !.status = IF passed THEN "verified" ELSE "requested",
                                   !.result = IF passed THEN "passed" ELSE "failed",
                                   !.everPassed = @ \/ passed]
      OBVIOUS
    <3>7. /\ row \in ClaimRow
          /\ row.status = IF passed THEN "verified" ELSE "requested"
          /\ row.result = IF passed THEN "passed" ELSE "failed"
          /\ row.everPassed = (claim[c].everPassed \/ passed)
          /\ row.expiry = claim[c].expiry
          /\ row.amount = claim[c].amount /\ row.reissuedFrom = claim[c].reissuedFrom
      BY <3>5, <3>6 DEF ClaimRow, ClaimStatus
    <3>8. row.status \in ClaimStatus /\ Earned(row)
      BY <3>7 DEF Earned, ClaimStatus
    <3>9. claim' = [claim EXCEPT ![c] = row] /\ UNCHANGED locks
      BY <3>1, <3>4, <3>6 DEF ProcessVerification, Inv
    <3> QED
      BY <3>4, <3>7, <3>8, <3>9 DEF Rewrites, ClaimShape
  <2>3. CASE CompleteJob(j) \/ FailJob(j)
    BY <2>3 DEF CompleteJob, FailJob, ClaimShape
  <2> QED
    BY <2>1, <2>2, <2>3 DEF Verification
<1>6. CASE Cleanup
  <2>1. CASE \E c \in Claims : ArchiveExpired(c)
    <3>1. PICK c \in Claims : ArchiveExpired(c)
      BY <2>1
    <3>2. Exists(c) /\ claim[c].expiry = "passed" /\ SetStatus(c, "archived") /\ UNCHANGED locks
      BY <3>1 DEF ArchiveExpired, Inv
    <3>3. "archived" \in ClaimStatus
      BY DEF ClaimStatus
    <3>4. \E row \in ClaimRow : Rewrites(c, row)
      BY <3>2, <3>3, SetStatusRewrites
    <3> QED
      BY <3>4 DEF ClaimShape
  <2>2. CASE FindExpiredClaims \/ AbortCleanup
    BY <2>2 DEF FindExpiredClaims, AbortCleanup, ClaimShape
  <2> QED
    BY <1>6, <2>1, <2>2 DEF Cleanup
<1>7. CASE UNCHANGED vars
  BY <1>7 DEF vars, ClaimShape
<1> QED
  BY <1>1, <1>2, <1>3, <1>4, <1>5, <1>6, <1>7 DEF Next

-----------------------------------------------------------------------------
(* What persists. *)

Persists ==
    \A c \in Claims :
        /\ Exists(c) => Exists(c)'
        /\ claim[c].everPassed => claim'[c].everPassed
        /\ Exists(c) /\ claim[c].expiry = "passed" => claim'[c].expiry = "passed"

ClaimsWell ==
    /\ claim \in [Claims -> ClaimRow]
    /\ locks \in [Claims -> Amounts \cup {0}]
    /\ \A c \in Claims : Earned(claim[c])
    /\ \A c \in Claims : ~Exists(c) => claim[c] = NoClaim /\ locks[c] = 0
    /\ \A c \in Claims : Exists(c) => claim[c].amount \in Amounts

LEMMA NewRow ==
    ASSUME NEW a \in Amounts, NEW row,
           row = [NoClaim EXCEPT !.status = "requested", !.amount = a, !.expiry = "ahead"]
    PROVE  /\ row \in ClaimRow /\ row.status = "requested" /\ Earned(row)
           /\ row.amount = a /\ row.reissuedFrom = None
BY DEF NoClaim, ClaimRow, ClaimStatus, Earned

\* The requests that create: what their writes are, row by row.
LEMMA CreateWrites ==
    ASSUME ClaimAssumption, Inv, NEW p \in Requests, CreateClaim(p)
    PROVE  \E c \in Claims, a \in Amounts, row \in ClaimRow :
             /\ c = req[p].claim /\ a = req[p].amount
             /\ ~Exists(c) /\ locks[c] = 0 /\ LockedTotal + a <= budget
             /\ row.status = "requested" /\ Earned(row)
             /\ row.amount = a /\ row.reissuedFrom = None
             /\ claim' = [claim EXCEPT ![c] = row]
             /\ locks' = [locks EXCEPT ![c] = a]
<1>1. req[p].op = "create" /\ req[p].at = "insert"
  BY DEF CreateClaim
<1>2. PICK c \in Claims, a \in Amounts :
        c = req[p].claim /\ a = req[p].amount /\ LockedTotal + a <= budget
  BY <1>1, StandingFacts
<1>3. /\ ~Exists(c)
      /\ claim' = [claim EXCEPT ![c] = [NoClaim EXCEPT !.status = "requested", !.amount = a,
                                                       !.expiry = "ahead"]]
      /\ locks' = [locks EXCEPT ![c] = @ + a]
  BY <1>2 DEF CreateClaim
<1>4. PICK row : row = [NoClaim EXCEPT !.status = "requested", !.amount = a, !.expiry = "ahead"]
  OBVIOUS
<1>5. /\ row \in ClaimRow /\ row.status = "requested" /\ Earned(row)
      /\ row.amount = a /\ row.reissuedFrom = None
  BY <1>4, NewRow
<1>6. locks[c] = 0
  BY <1>3 DEF Inv
<1>7. locks' = [locks EXCEPT ![c] = a]
  <2>1. 0 + a = a
    BY DEF ClaimAssumption
  <2> QED
    BY <1>3, <1>6, <2>1
<1> QED
  BY <1>2, <1>3, <1>4, <1>5, <1>6, <1>7

LEMMA ReissueWrites ==
    ASSUME ClaimAssumption, Inv, NEW p \in Requests, NEW n \in Claims, Reissue(p, n)
    PROVE  \E c \in Claims, a \in Amounts, old \in ClaimRow, row \in ClaimRow :
             /\ c # n /\ Exists(c) /\ ~Exists(n) /\ locks[n] = 0
             /\ old.status = "cancelled" /\ Earned(old)
             /\ old.everPassed = claim[c].everPassed /\ old.expiry = claim[c].expiry
             /\ old.amount = claim[c].amount /\ old.reissuedFrom = claim[c].reissuedFrom
             /\ row.status = "requested" /\ Earned(row)
             /\ row.amount = a /\ row.reissuedFrom = c
             /\ claim' = [claim EXCEPT ![c] = old, ![n] = row]
             /\ locks' = [locks EXCEPT ![n] = a]
<1>1. req[p].op = "reissue"
  BY DEF Reissue
<1>2. PICK c \in Claims, a \in Amounts : c = req[p].claim /\ a = req[p].amount /\ Exists(c)
  BY <1>1, StandingFacts
<1>3. /\ ~Exists(n)
      /\ claim' = [claim EXCEPT ![c].status = "cancelled",
                                ![n] = [NoClaim EXCEPT !.status = "requested", !.amount = a,
                                                       !.reissuedFrom = c]]
      /\ locks' = [locks EXCEPT ![n] = @ + a]
  BY <1>2 DEF Reissue
<1>4. PICK old, row :
        /\ old = [claim[c] EXCEPT !.status = "cancelled"]
        /\ row = [NoClaim EXCEPT !.status = "requested", !.amount = a, !.reissuedFrom = c]
  OBVIOUS
<1>5. /\ row \in ClaimRow /\ row.status = "requested" /\ Earned(row)
      /\ row.amount = a /\ row.reissuedFrom = c
  BY <1>4 DEF NoClaim, ClaimRow, ClaimStatus, Earned
<1>6. "cancelled" \in ClaimStatus /\ claim[c] \in ClaimRow /\ Earned(claim[c])
  BY RowFields DEF ClaimStatus
<1>7. /\ old \in ClaimRow /\ old.status = "cancelled" /\ old.result = claim[c].result
      /\ old.everPassed = claim[c].everPassed /\ old.expiry = claim[c].expiry
      /\ old.amount = claim[c].amount /\ old.reissuedFrom = claim[c].reissuedFrom
  BY <1>4, <1>6, RowSet
<1>8. Earned(old)
  BY <1>6, <1>7 DEF Earned
<1>9. locks[n] = 0 /\ 0 + a = a
  BY <1>3 DEF Inv, ClaimAssumption
<1>10. locks' = [locks EXCEPT ![n] = a]
  BY <1>3, <1>9
<1>11. claim' = [claim EXCEPT ![c] = old, ![n] = row] /\ c # n
  BY <1>2, <1>3, <1>4
<1> QED
  BY <1>2, <1>3, <1>5, <1>7, <1>8, <1>9, <1>10, <1>11

\* What a step makes of one claim.
Turns(c) ==
    \/ claim'[c] = claim[c] /\ locks'[c] = locks[c]
    \/ /\ Exists(c)
       /\ claim'[c] \in ClaimRow /\ claim'[c].status # "none" /\ Earned(claim'[c])
       /\ claim[c].everPassed => claim'[c].everPassed
       /\ claim[c].expiry = "passed" => claim'[c].expiry = "passed"
       /\ claim'[c].amount = claim[c].amount /\ locks'[c] = locks[c]
    \/ /\ ~Exists(c)
       /\ claim'[c] \in ClaimRow /\ claim'[c].status # "none" /\ Earned(claim'[c])
       /\ claim'[c].amount \in Amounts /\ locks'[c] \in Amounts

LEMMA StepTurns ==
    ASSUME ClaimAssumption, Inv, ClaimShape
    PROVE  /\ claim' \in [Claims -> ClaimRow] /\ locks' \in [Claims -> Amounts \cup {0}]
           /\ \A c \in Claims : Turns(c)
<1>0. claim \in [Claims -> ClaimRow] /\ locks \in [Claims -> Amounts \cup {0}]
  BY DEF Inv
<1>1. CASE UNCHANGED <<claim, locks>>
  BY <1>0, <1>1 DEF Turns
<1>2. CASE \E c \in Claims, row \in ClaimRow : Rewrites(c, row)
  <2>1. PICK c \in Claims, row \in ClaimRow : Rewrites(c, row)
    BY <1>2
  <2>2. claim' = [claim EXCEPT ![c] = row] /\ locks' = locks
    BY <2>1 DEF Rewrites
  <2>3. row.status # "none"
    BY <2>1 DEF Rewrites, ClaimStatus
  <2> QED
    BY <1>0, <2>1, <2>2, <2>3 DEF Rewrites, Turns
<1>3. CASE \E p \in Requests : CreateClaim(p)
  <2>1. PICK c \in Claims, a \in Amounts, row \in ClaimRow :
          /\ ~Exists(c) /\ row.status = "requested" /\ Earned(row) /\ row.amount = a
          /\ claim' = [claim EXCEPT ![c] = row]
          /\ locks' = [locks EXCEPT ![c] = a]
    BY <1>3, CreateWrites
  <2>2. ASSUME NEW d \in Claims
        PROVE  Turns(d)
    <3>1. CASE d = c
      BY <1>0, <2>1, <3>1 DEF Turns
    <3>2. CASE d # c
      BY <1>0, <2>1, <3>2 DEF Turns
    <3> QED
      BY <3>1, <3>2
  <2>3. claim' \in [Claims -> ClaimRow]
    BY <1>0, <2>1
  <2>4. locks' \in [Claims -> Amounts \cup {0}]
    BY <1>0, <2>1
  <2> QED
    BY <2>2, <2>3, <2>4
<1>4. CASE \E p \in Requests, n \in Claims : Reissue(p, n)
  <2>1. PICK n \in Claims, c \in Claims, a \in Amounts, old \in ClaimRow, row \in ClaimRow :
          /\ c # n /\ Exists(c) /\ ~Exists(n)
          /\ old.status = "cancelled" /\ Earned(old)
          /\ old.everPassed = claim[c].everPassed /\ old.expiry = claim[c].expiry
          /\ old.amount = claim[c].amount
          /\ row.status = "requested" /\ Earned(row) /\ row.amount = a
          /\ claim' = [claim EXCEPT ![c] = old, ![n] = row]
          /\ locks' = [locks EXCEPT ![n] = a]
    BY <1>4, ReissueWrites
  <2>2. ASSUME NEW d \in Claims
        PROVE  Turns(d)
    <3>1. CASE d = c
      BY <1>0, <2>1, <3>1 DEF Turns
    <3>2. CASE d = n
      BY <1>0, <2>1, <3>2 DEF Turns
    <3>3. CASE d # c /\ d # n
      BY <1>0, <2>1, <3>3 DEF Turns
    <3> QED
      BY <3>1, <3>2, <3>3
  <2>3. claim' \in [Claims -> ClaimRow]
    BY <1>0, <2>1
  <2>4. locks' \in [Claims -> Amounts \cup {0}]
    BY <1>0, <2>1
  <2> QED
    BY <2>2, <2>3, <2>4
<1> QED
  BY <1>1, <1>2, <1>3, <1>4 DEF ClaimShape

\* Claims are never deleted, verifications never unmade, expiries never undone.
LEMMA StepPersists ==
    ASSUME ClaimAssumption, Inv, ClaimShape
    PROVE  Persists
<1> SUFFICES ASSUME NEW c \in Claims
             PROVE  /\ Exists(c) => Exists(c)'
                    /\ claim[c].everPassed => claim'[c].everPassed
                    /\ Exists(c) /\ claim[c].expiry = "passed" => claim'[c].expiry = "passed"
  BY DEF Persists
<1>1. Turns(c)
  BY StepTurns
<1>2. claim[c].everPassed => Exists(c)
  BY RowFields
<1> QED
  BY <1>1, <1>2 DEF Turns, Exists

LEMMA StepKeepsClaims ==
    ASSUME ClaimAssumption, Inv, ClaimShape
    PROVE  ClaimsWell'
<1>1. ASSUME NEW c \in Claims
      PROVE  /\ claim'[c] \in ClaimRow /\ Earned(claim'[c])
             /\ locks'[c] \in Amounts \cup {0}
             /\ claim'[c].status = "none" => claim'[c] = NoClaim /\ locks'[c] = 0
             /\ claim'[c].status # "none" => claim'[c].amount \in Amounts
  <2>1. Turns(c)
    BY StepTurns
  <2>2. /\ claim[c] \in ClaimRow /\ Earned(claim[c]) /\ locks[c] \in Amounts \cup {0}
        /\ claim[c].status = "none" => claim[c] = NoClaim /\ locks[c] = 0
        /\ claim[c].status # "none" => claim[c].amount \in Amounts
    BY DEF Inv, Exists
  <2> QED
    BY <2>1, <2>2 DEF Turns, Exists
<1>2. claim' \in [Claims -> ClaimRow] /\ locks' \in [Claims -> Amounts \cup {0}]
  BY <1>1, StepTurns
<1>3. \A c \in Claims : Exists(c)' <=> claim'[c].status # "none"
  BY DEF Exists
<1>4. \A c \in Claims : Earned(claim[c])'
  BY <1>1 DEF Earned
<1> QED
  BY <1>1, <1>2, <1>3, <1>4 DEF ClaimsWell

-----------------------------------------------------------------------------
(* The ledger. *)

\* The sum of the lock entries is a total, now and after the step.
LEMMA LockedIsTotal ==
    /\ LockedTotal = Total(locks, Claims)
    /\ LockedTotal' = Total(locks', Claims)
<1>1. LockedTotal = Total(locks, Claims)
  BY DEF LockedTotal, MapThenSumSet, MapThenFoldSet, Total, Adding, Adds, Pick
<1>2. LockedTotal' = Total(locks', Claims)
  BY DEF LockedTotal, MapThenSumSet, MapThenFoldSet, Total, Adding, Adds, Pick
<1> QED
  BY <1>1, <1>2

LEMMA LocksAreNumbers ==
    ASSUME ClaimAssumption, Inv
    PROVE  \A d \in Claims : locks[d] \in Nat
<1>1. locks \in [Claims -> Amounts \cup {0}]
  BY DEF Inv
<1>2. Amounts \cup {0} \subseteq Nat
  BY DEF ClaimAssumption
<1>3. ASSUME NEW d \in Claims
      PROVE  locks[d] \in Nat
  <2>1. locks[d] \in Amounts \cup {0}
    BY <1>1
  <2> QED
    BY <1>2, <2>1
<1> QED
  BY <1>3

\* The entry of a new claim adds its amount to the sum, and nothing else.
LEMMA EntryAdds ==
    ASSUME ClaimAssumption, Inv, NEW c \in Claims, NEW a \in Amounts,
           locks[c] = 0, locks' = [locks EXCEPT ![c] = a]
    PROVE  LockedTotal' = LockedTotal + a
<1>1. locks[c] = 0 /\ locks' = [locks EXCEPT ![c] = a]
  OBVIOUS
<1>2. /\ \A d \in Claims : locks[d] \in Nat
      /\ a \in Nat /\ IsFiniteSet(Claims)
  BY LocksAreNumbers DEF ClaimAssumption
<1>3. PICK f, g : f = locks /\ g = locks'
  OBVIOUS
<1>4. /\ \A d \in Claims : f[d] \in Int /\ g[d] \in Int
      /\ \A d \in Claims \ {c} : f[d] = g[d]
      /\ f[c] = 0 /\ g[c] = a
  BY <1>1, <1>2, <1>3 DEF Inv
<1>5. Total(g, Claims) = Total(f, Claims) - f[c] + g[c]
  BY <1>2, <1>4, TotalChange
<1>6. Total(f, Claims) \in Int
  BY <1>2, <1>4, TotalType
<1>7. Total(g, Claims) = Total(f, Claims) + a
  BY <1>2, <1>4, <1>5, <1>6
<1> QED
  BY <1>3, <1>7, LockedIsTotal

LEMMA CreateFits ==
    ASSUME ClaimAssumption, Inv, NEW p \in Requests, CreateClaim(p)
    PROVE  LockedTotal' <= budget'
<1>1. PICK c \in Claims, a \in Amounts :
        /\ locks[c] = 0 /\ LockedTotal + a <= budget
        /\ locks' = [locks EXCEPT ![c] = a]
  BY CreateWrites
<1>2. LockedTotal' = LockedTotal + a
  BY <1>1, EntryAdds
<1> QED
  BY <1>1, <1>2 DEF CreateClaim

\* Whoever is about to write a claim and its lock entry has the campaign's row,
\* so neither the ledger nor the budget moves under it.
LEMMA RowHoldsOff ==
    ASSUME Inv, [Next]_vars, NEW q \in Requests, rowLock = q, None \notin Requests
    PROVE  CreateClaim(q) \/ UNCHANGED <<locks, budget, rowLock>>
<1>1. rowLock # None
  OBVIOUS
<1>2. CASE \E p \in Requests : Request(p)
  <2>1. PICK p \in Requests : Request(p)
    BY <1>2
  <2>2. CASE CreateClaim(p)
    <3>1. req[p].at = "insert"
      BY <2>2 DEF CreateClaim
    <3>2. rowLock = p
      BY <3>1 DEF Inv
    <3> QED
      BY <2>2, <3>2
  <2>3. CASE \/ EnqueueVerificationForClaim(p)
             \/ \E c \in Claims : Verify(p, c) \/ Disburse(p, c)
             \/ \E op \in Transitions, c \in Claims : TransitionStatus(p, op, c)
             \/ UpdateStatus(p)
             \/ \E c \in Claims : CheckCancellable(p, "cancel", c, 0)
             \/ \E c \in Claims, a \in Amounts : CheckCancellable(p, "reissue", c, a)
    BY <2>3 DEF EnqueueVerificationForClaim, Verify, Disburse, TransitionStatus, UpdateStatus,
                CheckCancellable
  <2>4. CASE \/ \E c \in Claims, a \in Amounts : ReserveBudget(p, c, a)
             \/ Cancel(p) \/ \E n \in Claims : Reissue(p, n)
    BY <1>1, <2>4 DEF ReserveBudget, RowLocked, Cancel, Reissue
  <2> QED
    BY <2>1, <2>2, <2>3, <2>4 DEF Request
<1>3. CASE \E b \in Budgets : UpdateCampaign(b)
  BY <1>1, <1>3 DEF UpdateCampaign
<1>4. CASE \/ \E c \in Claims : RequestVerification(c) \/ Expire(c)
           \/ \E j \in Jobs : Verification(j)
           \/ Cleanup \/ UNCHANGED vars
  BY <1>4 DEF RequestVerification, Expire, Verification, ProcessVerification, CompleteJob,
              FailJob, Cleanup, FindExpiredClaims, ArchiveExpired, AbortCleanup, vars
<1> QED
  BY <1>2, <1>3, <1>4 DEF Next

-----------------------------------------------------------------------------
(* What a step may do to the requests. *)

\* What the next statement may rely on, told of the state of this one.
Relies(q) ==
    /\ q \in Standing /\ q.at # "insert"
    /\ q.at \in {"enqueue", "check", "update", "commit"} => Exists(q.claim)
    /\ q.at \in {"check", "update"} => claim[q.claim].everPassed

Proceeds(p, q) ==
    /\ req' = [req EXCEPT ![p] = q]
    /\ req[p].at # "insert"
    /\ Relies(q)
    /\ UNCHANGED rowLock

RequestShape ==
    \/ UNCHANGED <<req, rowLock>>
    \/ \E p \in Requests, q \in Standing : Proceeds(p, q)
    \/ \E p \in Requests, c \in Claims, a \in Amounts : ReserveBudget(p, c, a)
    \/ \E p \in Requests : CreateClaim(p)

LEMMA StepRequestShape ==
    ASSUME ClaimAssumption, Inv, [Next]_vars
    PROVE  RequestShape
<1>i. Idle \in Standing /\ Relies(Idle) /\ Idle.at = "start"
  BY DEF Idle, Standing, Relies
<1>1. CASE \E p \in Requests : Request(p)
  <2>1. PICK p \in Requests : Request(p)
    BY <1>1
  <2>g. ASSUME NEW op, NEW at, NEW c \in Claims, NEW a, Goto(p, op, at, c, a),
               req[p].at # "insert", UNCHANGED rowLock, at # "insert",
               [op |-> op, at |-> at, claim |-> c, amount |-> a] \in Standing,
               Exists(c), at \in {"check", "update"} => claim[c].everPassed
        PROVE  RequestShape
    <3>1. PICK q \in Standing : q = [op |-> op, at |-> at, claim |-> c, amount |-> a]
      BY <2>g
    <3>2. q.at = at /\ q.claim = c
      BY <3>1
    <3>3. Relies(q)
      BY <2>g, <3>2 DEF Relies
    <3>4. req' = [req EXCEPT ![p] = q]
      BY <2>g, <3>1 DEF Goto
    <3> QED
      BY <2>g, <3>3, <3>4 DEF Proceeds, RequestShape
  <2>r. ASSUME Return(p), req[p].at # "insert", UNCHANGED rowLock
        PROVE  RequestShape
    BY <1>i, <2>r DEF Return, Proceeds, RequestShape
  <2>2. CASE \E c \in Claims, a \in Amounts : ReserveBudget(p, c, a)
    BY <2>2 DEF RequestShape
  <2>3. CASE CreateClaim(p)
    BY <2>3 DEF RequestShape
  <2>4. CASE EnqueueVerificationForClaim(p)
    BY <2>4, <2>r DEF EnqueueVerificationForClaim
  <2>5. CASE \E c \in Claims : Verify(p, c)
    <3>1. PICK c \in Claims : Verify(p, c)
      BY <2>5
    <3>2. /\ req[p].at # "insert" /\ Goto(p, "verify", "check", c, 0) /\ UNCHANGED rowLock
          /\ claim[c].result = "passed"
      BY <1>i, <3>1 DEF Verify, Verifiable
    <3>3. claim[c].everPassed /\ Exists(c)
      BY <3>2, RowFields DEF Earned
    <3>4. [op |-> "verify", at |-> "check", claim |-> c, amount |-> 0] \in Standing
      BY DEF Standing
    <3> QED
      BY <2>g, <3>2, <3>3, <3>4
  <2>6. CASE \E c \in Claims : Disburse(p, c)
    <3>1. PICK c \in Claims : Disburse(p, c)
      BY <2>6
    <3>2. /\ req[p].at # "insert" /\ Goto(p, "disburse", "check", c, 0) /\ UNCHANGED rowLock
          /\ claim[c].status = "approved"
      BY <1>i, <3>1 DEF Disburse
    <3>3. claim[c].everPassed /\ Exists(c)
      BY <3>2, RowFields DEF Earned
    <3>4. [op |-> "disburse", at |-> "check", claim |-> c, amount |-> 0] \in Standing
      BY DEF Standing
    <3> QED
      BY <2>g, <3>2, <3>3, <3>4
  <2>7. CASE \E op \in Transitions, c \in Claims : TransitionStatus(p, op, c)
    <3>1. PICK op \in Transitions, c \in Claims : TransitionStatus(p, op, c)
      BY <2>7
    <3>2. CASE op \in {"approve", "archive"} /\ req[p] = Idle
      <4>1. claim[c].status = FromStatus[op] /\ Goto(p, op, "update", c, 0) /\ UNCHANGED rowLock
        BY <3>1, <3>2 DEF TransitionStatus, MayTransition
      <4>2. claim[c].status \in {"verified", "disbursed"}
        BY <3>2, <4>1 DEF FromStatus
      <4>3. claim[c].everPassed /\ Exists(c)
        BY <4>2, RowFields DEF Earned
      <4>4. [op |-> op, at |-> "update", claim |-> c, amount |-> 0] \in Standing
        BY DEF Standing
      <4> QED
        BY <1>i, <2>g, <3>2, <4>1, <4>3, <4>4
    <3>3. CASE req[p] = [op |-> op, at |-> "check", claim |-> c, amount |-> 0]
      <4>1. req[p].op # "idle" /\ req[p].at = "check" /\ req[p].claim = c
        BY <3>3 DEF Transitions
      <4>2. claim[c].everPassed /\ Exists(c)
        BY <4>1, StandingFacts
      <4>3. [op |-> op, at |-> "update", claim |-> c, amount |-> 0] \in Standing
        BY DEF Standing
      <4>4. Goto(p, op, "update", c, 0) \/ Return(p)
        BY <3>1 DEF TransitionStatus
      <4>5. UNCHANGED rowLock /\ req[p].at # "insert"
        BY <3>1, <4>1 DEF TransitionStatus
      <4> QED
        BY <2>g, <2>r, <4>2, <4>3, <4>4, <4>5
    <3> QED
      BY <3>1, <3>2, <3>3 DEF TransitionStatus
  <2>8. CASE UpdateStatus(p)
    BY <2>8, <2>r DEF UpdateStatus
  <2>9. ASSUME NEW op \in {"cancel", "reissue"}, NEW c \in Claims, NEW a,
               op = "cancel" => a = 0, op = "reissue" => a \in Amounts,
               CheckCancellable(p, op, c, a)
        PROVE  RequestShape
    <3>1. /\ req[p].at # "insert" /\ Goto(p, op, "commit", c, a) /\ UNCHANGED rowLock
          /\ claim[c].status \in Cancellable
      BY <1>i, <2>9 DEF CheckCancellable
    <3>2. Exists(c)
      BY <3>1 DEF Exists, Cancellable
    <3>3. [op |-> op, at |-> "commit", claim |-> c, amount |-> a] \in Standing
      BY <2>9 DEF Standing
    <3> QED
      BY <2>g, <3>1, <3>2, <3>3
  <2>10. CASE Cancel(p) \/ \E n \in Claims : Reissue(p, n)
    <3>1. req[p].op \in {"cancel", "reissue"} /\ Return(p) /\ UNCHANGED rowLock
      BY <2>10 DEF Cancel, Reissue
    <3>2. req[p].at = "commit"
      BY <3>1, StandingFacts
    <3> QED
      BY <2>r, <3>1, <3>2
  <2> QED
    BY <2>1, <2>2, <2>3, <2>4, <2>5, <2>6, <2>7, <2>8, <2>9, <2>10 DEF Request
<1>2. CASE \/ \E c \in Claims : RequestVerification(c) \/ Expire(c)
           \/ \E b \in Budgets : UpdateCampaign(b)
           \/ \E j \in Jobs : Verification(j)
           \/ Cleanup \/ UNCHANGED vars
  BY <1>2 DEF RequestVerification, Expire, UpdateCampaign, Verification, ProcessVerification,
              CompleteJob, FailJob, Cleanup, FindExpiredClaims, ArchiveExpired, AbortCleanup,
              vars, RequestShape
<1> QED
  BY <1>1, <1>2 DEF Next

-----------------------------------------------------------------------------
(* Every request keeps what it relies on. *)

RequestsWell ==
    /\ req \in [Requests -> Standing]
    /\ rowLock \in {None} \cup {p \in Requests : req[p].at = "insert"}
    /\ \A p \in Requests : Founded(req[p]) /\ (req[p].at = "insert" => rowLock = p)

\* What a request beyond its reservation relies on outlives the step.
LEMMA ReliesOn ==
    ASSUME NEW r \in Standing, Relies(r), Persists
    PROVE  Founded(r)'
<1>1. r.at \in {"enqueue", "check", "update", "commit"} => r.claim \in Claims
  BY DEF Standing, Idle
<1>2. r.at \in {"enqueue", "check", "update", "commit"} => Exists(r.claim)'
  BY <1>1 DEF Relies, Persists
<1>3. r.at \in {"check", "update"} => claim'[r.claim].everPassed
  BY <1>1 DEF Relies, Persists
<1>4. r.at # "insert"
  BY DEF Relies
<1> QED
  BY <1>2, <1>3, <1>4 DEF Founded

\* A request that the step is not about, and that keeps the row if it has it.
LEMMA RequestStands ==
    ASSUME ClaimAssumption, Inv, [Next]_vars, NEW p \in Requests, req'[p] = req[p],
           req[p].at = "insert" => UNCHANGED rowLock
    PROVE  /\ req'[p] \in Standing
           /\ Founded(req[p])'
           /\ req'[p].at = "insert" => rowLock' = p
<1>1. PICK r \in Standing : r = req[p] /\ r = req'[p]
  BY DEF Inv
<1>2. Founded(r) /\ (r.at = "insert" => rowLock = p)
  BY <1>1 DEF Inv
<1>3. CASE r.at # "insert"
  <2>1. Relies(r)
    BY <1>2, <1>3 DEF Founded, Relies
  <2>2. Persists
    BY StepClaimShape, StepPersists
  <2>3. Founded(r)'
    BY <2>1, <2>2, ReliesOn
  <2> QED
    BY <1>1, <1>3, <2>3 DEF Founded
<1>4. CASE r.at = "insert"
  <2>1. None \notin Requests /\ rowLock = p /\ rowLock' = p
    BY <1>1, <1>2, <1>4 DEF ClaimAssumption
  <2>2. CreateClaim(p) \/ UNCHANGED <<locks, budget, rowLock>>
    BY <2>1, RowHoldsOff
  <2>3. CreateClaim(p) => rowLock' = None
    BY DEF CreateClaim, Commit
  <2>4. UNCHANGED <<locks, budget>>
    BY <2>1, <2>2, <2>3
  <2>5. LockedTotal' = LockedTotal
    BY <2>4, LockedIsTotal
  <2>6. LockedTotal' + r.amount <= budget'
    BY <1>2, <1>4, <2>4, <2>5 DEF Founded
  <2> QED
    BY <1>1, <1>4, <2>1, <2>6 DEF Founded
<1> QED
  BY <1>3, <1>4

LEMMA StepKeepsRequests ==
    ASSUME ClaimAssumption, Inv, [Next]_vars
    PROVE  RequestsWell'
<1>0. /\ req \in [Requests -> Standing] /\ None \notin Requests
      /\ rowLock \in {None} \cup {p \in Requests : req[p].at = "insert"}
      /\ \A p \in Requests : req[p].at = "insert" => rowLock = p
  BY DEF Inv, ClaimAssumption
<1>1. CASE UNCHANGED <<req, rowLock>>
  <2>1. \A p \in Requests : /\ req'[p] \in Standing /\ Founded(req[p])'
                            /\ req'[p].at = "insert" => rowLock' = p
    BY <1>1, RequestStands
  <2> QED
    BY <1>0, <1>1, <2>1 DEF RequestsWell
<1>2. CASE \E p \in Requests, q \in Standing : Proceeds(p, q)
  <2>1. PICK p \in Requests, q \in Standing : Proceeds(p, q)
    BY <1>2
  <2>2. req' = [req EXCEPT ![p] = q] /\ req[p].at # "insert" /\ Relies(q) /\ rowLock' = rowLock
    BY <2>1 DEF Proceeds
  <2>3. Founded(q)' /\ q.at # "insert"
    BY <2>2, ReliesOn, StepClaimShape, StepPersists DEF Relies
  <2>4. ASSUME NEW r \in Requests
        PROVE  Founded(req[r])' /\ (req'[r].at = "insert" => rowLock' = r)
    <3>1. CASE r = p
      BY <1>0, <2>2, <2>3, <3>1 DEF Founded
    <3>2. CASE r # p
      BY <1>0, <2>2, <3>2, RequestStands
    <3> QED
      BY <3>1, <3>2
  <2>5. rowLock' \in {None} \cup {r \in Requests : req'[r].at = "insert"}
    BY <1>0, <2>2
  <2>6. req' \in [Requests -> Standing]
    BY <1>0, <2>2
  <2> QED
    BY <2>4, <2>5, <2>6 DEF RequestsWell
<1>3. CASE \E p \in Requests, c \in Claims, a \in Amounts : ReserveBudget(p, c, a)
  <2>1. PICK p \in Requests, c \in Claims, a \in Amounts : ReserveBudget(p, c, a)
    BY <1>3
  <2>2. PICK q : q = [op |-> "create", at |-> "insert", claim |-> c, amount |-> a]
    OBVIOUS
  <2>3. q \in Standing /\ q.at = "insert" /\ q.claim = c /\ q.amount = a
    BY <2>2 DEF Standing
  <2>4. /\ req' = [req EXCEPT ![p] = q] /\ rowLock = None /\ rowLock' = p
        /\ locks' = locks /\ budget' = budget /\ LockedTotal + a <= budget
    BY <2>1, <2>2 DEF ReserveBudget, RowLocked, Goto
  <2>5. LockedTotal' = LockedTotal
    BY <2>4, LockedIsTotal
  <2>6. LockedTotal' + q.amount <= budget'
    BY <2>3, <2>4, <2>5
  <2>7. Founded(q)'
    BY <2>3, <2>6 DEF Founded
  <2>8. ASSUME NEW r \in Requests
        PROVE  Founded(req[r])' /\ (req'[r].at = "insert" => rowLock' = r)
    <3>1. CASE r = p
      BY <1>0, <2>3, <2>4, <2>7, <3>1 DEF Founded
    <3>2. CASE r # p
      <4>1. req'[r] = req[r] /\ req[r].at # "insert"
        BY <1>0, <2>4, <3>2
      <4> QED
        BY <4>1, RequestStands
    <3> QED
      BY <3>1, <3>2
  <2>9. rowLock' \in {None} \cup {r \in Requests : req'[r].at = "insert"}
    BY <1>0, <2>3, <2>4
  <2>10. req' \in [Requests -> Standing]
    BY <1>0, <2>3, <2>4
  <2> QED
    BY <2>8, <2>9, <2>10 DEF RequestsWell
<1>4. CASE \E p \in Requests : CreateClaim(p)
  <2>1. PICK p \in Requests : CreateClaim(p)
    BY <1>4
  <2>2. PICK c \in Claims, row \in ClaimRow :
          /\ c = req[p].claim /\ row.status = "requested"
          /\ claim' = [claim EXCEPT ![c] = row]
    BY <2>1, CreateWrites
  <2>3. PICK q : q = [op |-> "create", at |-> "enqueue", claim |-> c, amount |-> 0]
    OBVIOUS
  <2>4. q \in Standing /\ q.at = "enqueue" /\ q.claim = c
    BY <2>3 DEF Standing
  <2>5. /\ req' = [req EXCEPT ![p] = q] /\ req[p].at = "insert" /\ rowLock' = None
    BY <2>1, <2>2, <2>3 DEF CreateClaim, Commit, Goto
  <2>6. claim \in [Claims -> ClaimRow]
    BY DEF Inv
  <2>7. Exists(c)'
    BY <2>2, <2>6 DEF Exists
  <2>8. Founded(q)'
    BY <2>4, <2>7 DEF Founded
  <2>9. ASSUME NEW r \in Requests
        PROVE  Founded(req[r])' /\ (req'[r].at = "insert" => rowLock' = r)
    <3>1. CASE r = p
      BY <1>0, <2>4, <2>5, <2>8, <3>1 DEF Founded
    <3>2. CASE r # p
      <4>1. req'[r] = req[r] /\ req[r].at # "insert"
        BY <1>0, <2>5, <3>2
      <4> QED
        BY <4>1, RequestStands
    <3> QED
      BY <3>1, <3>2
  <2>10. req' \in [Requests -> Standing]
    BY <1>0, <2>4, <2>5
  <2> QED
    BY <2>5, <2>9, <2>10 DEF RequestsWell
<1> QED
  BY <1>1, <1>2, <1>3, <1>4, StepRequestShape DEF RequestShape

-----------------------------------------------------------------------------
(* The queue, the clean-up and the counters. *)

JobsWell ==
    /\ job \in [Jobs -> Queued]
    /\ \A j \in Jobs : job[j].at # "free" => Exists(job[j].claim)

RestWell ==
    /\ budget \in Budgets /\ faults \in 0 .. MaxFaults
    /\ \A c \in cleanup : c \in Claims /\ Exists(c) /\ claim[c].expiry = "passed"

\* What a step may do to the queue: leave it, or put in one place a job about
\* a claim that exists, or none.
JobShape ==
    \/ UNCHANGED job
    \/ \E j \in Jobs, q \in Queued :
         /\ job' = [job EXCEPT ![j] = q]
         /\ q.at # "free" => Exists(q.claim)

LEMMA EnqueueShape ==
    ASSUME ClaimAssumption, NEW c \in Claims, Exists(c), EnqueueVerification(c)
    PROVE  JobShape
<1>1. CASE UNCHANGED job
  BY <1>1 DEF JobShape
<1>2. CASE \E j \in Jobs : job' = [job EXCEPT ![j] =
                              [at |-> "waiting", claim |-> c, left |-> MaxAttempts]]
  <2>1. PICK q : q = [at |-> "waiting", claim |-> c, left |-> MaxAttempts]
    OBVIOUS
  <2>2. q \in Queued /\ q.claim = c
    BY <2>1 DEF Queued, ClaimAssumption
  <2>3. PICK j \in Jobs : job' = [job EXCEPT ![j] = q]
    BY <1>2, <2>1
  <2> QED
    BY <2>2, <2>3 DEF JobShape
<1> QED
  BY <1>1, <1>2 DEF EnqueueVerification

LEMMA StepJobShape ==
    ASSUME ClaimAssumption, Inv, [Next]_vars
    PROVE  JobShape
<1>1. CASE \E p \in Requests : EnqueueVerificationForClaim(p)
  <2>1. PICK p \in Requests : EnqueueVerificationForClaim(p)
    BY <1>1
  <2>2. /\ req[p].op # "idle" /\ req[p].at # "insert"
        /\ EnqueueVerification(req[p].claim) \/ UNCHANGED job
    BY <2>1 DEF EnqueueVerificationForClaim
  <2>3. req[p].claim \in Claims /\ Exists(req[p].claim)
    BY <2>2, StandingFacts
  <2> QED
    BY <2>2, <2>3, EnqueueShape DEF JobShape
<1>2. CASE \E c \in Claims : RequestVerification(c)
  BY <1>2, EnqueueShape DEF RequestVerification
<1>3. CASE \E j \in Jobs : Verification(j)
  <2>1. PICK j \in Jobs : Verification(j)
    BY <1>3
  <2>2. PICK q \in Queued : q = job[j]
    BY DEF Inv
  <2>3. q.at # "free" => Exists(q.claim)
    BY <2>2 DEF Inv
  <2>4. Free \in Queued /\ Free.at = "free"
    BY DEF Queued, Free
  <2>5. q.at \in {"waiting", "audit"} => q.claim \in Claims /\ q.left \in 1 .. MaxAttempts
    BY DEF Queued, Free
  <2>6. CASE \E passed \in BOOLEAN : ProcessVerification(j, passed)
    <3>1. q.at = "waiting" /\ job' = [job EXCEPT ![j].at = "audit"]
      BY <2>2, <2>6 DEF ProcessVerification
    <3>2. PICK n : n = [q EXCEPT !.at = "audit"]
      OBVIOUS
    <3>3. n \in Queued /\ n.claim = q.claim
      BY <2>5, <3>1, <3>2 DEF Queued, Free
    <3>4. job' = [job EXCEPT ![j] = n]
      BY <2>2, <3>1, <3>2
    <3> QED
      BY <2>3, <3>1, <3>3, <3>4 DEF JobShape
  <2>7. CASE CompleteJob(j)
    BY <2>4, <2>7 DEF CompleteJob, JobShape
  <2>8. CASE FailJob(j)
    <3>1. q.at \in {"waiting", "audit"}
      BY <2>2, <2>8 DEF FailJob
    <3>2. PICK n : n = IF q.left > 1 THEN [q EXCEPT !.at = "waiting", !.left = q.left - 1]
                                     ELSE Free
      OBVIOUS
    <3>3. job' = [job EXCEPT ![j] = n]
      <4>1. CASE q.left > 1
        <5>1. job' = [job EXCEPT ![j].at = "waiting", ![j].left = @ - 1]
          BY <2>2, <2>8, <4>1 DEF FailJob
        <5>2. n = [q EXCEPT !.at = "waiting", !.left = q.left - 1]
          BY <3>2, <4>1
        <5> QED
          BY <2>2, <2>5, <3>1, <5>1, <5>2 DEF Queued, Free, Inv
      <4>2. CASE ~(q.left > 1)
        BY <2>2, <2>8, <3>2, <4>2 DEF FailJob
      <4> QED
        BY <4>1, <4>2
    <3>4. n \in Queued /\ (n.at # "free" => n.claim = q.claim)
      <4>1. CASE q.left > 1
        <5>1. q.left - 1 \in 1 .. MaxAttempts
          BY <2>5, <3>1, <4>1 DEF ClaimAssumption
        <5>2. n = [q EXCEPT !.at = "waiting", !.left = q.left - 1]
          BY <3>2, <4>1
        <5> QED
          BY <2>5, <3>1, <5>1, <5>2 DEF Queued, Free
      <4>2. CASE ~(q.left > 1)
        BY <2>4, <3>2, <4>2
      <4> QED
        BY <4>1, <4>2
    <3> QED
      BY <2>3, <3>1, <3>3, <3>4 DEF JobShape
  <2> QED
    BY <2>1, <2>6, <2>7, <2>8 DEF Verification
<1>4. CASE \E p \in Requests : Request(p)
  BY <1>1, <1>4 DEF Request, ReserveBudget, CreateClaim, Verify, Disburse, TransitionStatus,
                    UpdateStatus, CheckCancellable, Cancel, Reissue, JobShape
<1>5. CASE \/ \E c \in Claims : Expire(c)
           \/ \E b \in Budgets : UpdateCampaign(b)
           \/ Cleanup \/ UNCHANGED vars
  BY <1>5 DEF Expire, UpdateCampaign, Cleanup, FindExpiredClaims, ArchiveExpired, AbortCleanup,
              vars, JobShape
<1> QED
  BY <1>2, <1>3, <1>4, <1>5 DEF Next

LEMMA StepKeepsJobs ==
    ASSUME ClaimAssumption, Inv, [Next]_vars
    PROVE  JobsWell'
<1>0. Persists /\ JobShape
  BY StepClaimShape, StepPersists, StepJobShape
<1>1. /\ job \in [Jobs -> Queued]
      /\ \A j \in Jobs : job[j].at # "free" => Exists(job[j].claim)
  BY DEF Inv
<1>2. ASSUME NEW q \in Queued, q.at # "free" => Exists(q.claim)
      PROVE  q.at # "free" => claim'[q.claim].status # "none"
  <2>1. q.at # "free" => q.claim \in Claims
    BY DEF Queued, Free
  <2> QED
    BY <1>0, <1>2, <2>1 DEF Persists, Exists
<1>3. CASE UNCHANGED job
  BY <1>1, <1>2, <1>3 DEF JobsWell, Exists
<1>4. CASE \E j \in Jobs, q \in Queued : /\ job' = [job EXCEPT ![j] = q]
                                         /\ q.at # "free" => Exists(q.claim)
  <2>1. PICK j \in Jobs, q \in Queued : /\ job' = [job EXCEPT ![j] = q]
                                        /\ q.at # "free" => Exists(q.claim)
    BY <1>4
  <2>2. ASSUME NEW i \in Jobs
        PROVE  job'[i].at # "free" => claim'[job'[i].claim].status # "none"
    <3>1. CASE i = j
      BY <1>1, <1>2, <2>1, <3>1
    <3>2. CASE i # j
      BY <1>1, <1>2, <2>1, <3>2
    <3> QED
      BY <3>1, <3>2
  <2>3. job' \in [Jobs -> Queued]
    BY <1>1, <2>1
  <2> QED
    BY <2>2, <2>3 DEF JobsWell, Exists
<1> QED
  BY <1>0, <1>3, <1>4 DEF JobShape

LEMMA StepKeepsRest ==
    ASSUME ClaimAssumption, Inv, [Next]_vars
    PROVE  RestWell'
<1>1. budget' \in Budgets
  BY DEF Inv, Next, Request, ReserveBudget, CreateClaim, EnqueueVerificationForClaim, Verify,
         Disburse, TransitionStatus, UpdateStatus, CheckCancellable, Cancel, Reissue,
         RequestVerification, Expire, UpdateCampaign, Verification, ProcessVerification,
         CompleteJob, FailJob, Cleanup, FindExpiredClaims, ArchiveExpired, AbortCleanup, vars
<1>2. faults' = faults \/ (faults < MaxFaults /\ faults' = faults + 1)
  <2>1. CASE \E p \in Requests : Request(p)
    BY <2>1 DEF Request, ReserveBudget, CreateClaim, EnqueueVerificationForClaim, Verify, Disburse,
                TransitionStatus, UpdateStatus, CheckCancellable, Cancel, Reissue
  <2>2. CASE \E j \in Jobs : Verification(j)
    BY <2>2 DEF Verification, ProcessVerification, CompleteJob, FailJob
  <2>3. CASE Cleanup
    BY <2>3 DEF Cleanup, FindExpiredClaims, ArchiveExpired, AbortCleanup
  <2>4. CASE \/ \E c \in Claims : RequestVerification(c) \/ Expire(c)
             \/ \E b \in Budgets : UpdateCampaign(b)
             \/ UNCHANGED vars
    BY <2>4 DEF RequestVerification, Expire, UpdateCampaign, vars
  <2> QED
    BY <2>1, <2>2, <2>3, <2>4 DEF Next
<1>3. faults' \in 0 .. MaxFaults
  BY <1>2 DEF Inv, ClaimAssumption
<1>4. cleanup' \subseteq cleanup \/ cleanup' = {c \in Claims : Expired(claim[c])}
  BY DEF Next, Request, ReserveBudget, CreateClaim, EnqueueVerificationForClaim, Verify,
         Disburse, TransitionStatus, UpdateStatus, CheckCancellable, Cancel, Reissue,
         RequestVerification, Expire, UpdateCampaign, Verification, ProcessVerification,
         CompleteJob, FailJob, Cleanup, FindExpiredClaims, ArchiveExpired, AbortCleanup, vars
<1>5. \A c \in cleanup' : c \in Claims /\ Exists(c) /\ claim[c].expiry = "passed"
  BY <1>4 DEF Inv, Expired, Exists
<1>6. Persists
  BY StepClaimShape, StepPersists
<1>7. \A c \in cleanup' : c \in Claims /\ claim'[c].status # "none" /\ claim'[c].expiry = "passed"
  BY <1>5, <1>6 DEF Persists, Exists
<1> QED
  BY <1>1, <1>3, <1>7 DEF RestWell, Exists

-----------------------------------------------------------------------------
(* The claims as a book. *)

\* A new claim takes one line of the book, and no other line changes.
LEMMA NewClaimWrites ==
    ASSUME ClaimAssumption, Inv, NEW c \in Claims, NEW a \in Amounts,
           NEW f \in Claims \cup {None}, ~Exists(c), locks[c] = 0,
           claim'[c].amount = a, claim'[c].reissuedFrom = f,
           \A d \in Claims \ {c} : /\ claim'[d].amount = claim[d].amount
                                   /\ claim'[d].reissuedFrom = claim[d].reissuedFrom,
           locks' = [locks EXCEPT ![c] = a], UNCHANGED budget
    PROVE  Ledger!Write(c, a, f)
<1>1. claim[c].amount = 0
  BY DEF Inv, NoClaim
<1>2. GrantOf[c] = 0 /\ locks[c] = 0
  BY <1>1 DEF GrantOf
<1>3. GrantOf' = [GrantOf EXCEPT ![c] = a]
  BY DEF GrantOf
<1>4. OriginOf' = [OriginOf EXCEPT ![c] = f]
  BY DEF OriginOf
<1>5. LockedTotal' = LockedTotal + a
  BY EntryAdds
<1> QED
  BY <1>2, <1>3, <1>4, <1>5 DEF Ledger!Write

\* The check of a creation still holds when it writes.
LEMMA CreateImplements ==
    ASSUME ClaimAssumption, Inv, NEW p \in Requests, CreateClaim(p)
    PROVE  Ledger!BookNext
<1>1. PICK c \in Claims, a \in Amounts, row \in ClaimRow :
        /\ ~Exists(c) /\ locks[c] = 0 /\ LockedTotal + a <= budget
        /\ row.amount = a /\ row.reissuedFrom = None
        /\ claim' = [claim EXCEPT ![c] = row]
        /\ locks' = [locks EXCEPT ![c] = a]
  BY CreateWrites
<1>2. claim \in [Claims -> ClaimRow] /\ UNCHANGED budget
  BY DEF Inv, CreateClaim
<1>3. /\ claim'[c].amount = a /\ claim'[c].reissuedFrom = None
      /\ \A d \in Claims \ {c} : claim'[d] = claim[d]
  BY <1>1, <1>2
<1>4. Ledger!Write(c, a, None)
  BY <1>1, <1>2, <1>3, NewClaimWrites
<1>5. Ledger!Book(c, a)
  BY <1>1, <1>4 DEF Ledger!Book
<1> QED
  BY <1>5 DEF Ledger!BookNext

LEMMA ReissueImplements ==
    ASSUME ClaimAssumption, Inv, NEW p \in Requests, NEW n \in Claims, Reissue(p, n)
    PROVE  Ledger!BookNext
<1>1. PICK c \in Claims, a \in Amounts, old \in ClaimRow, row \in ClaimRow :
        /\ c # n /\ Exists(c) /\ ~Exists(n) /\ locks[n] = 0
        /\ old.amount = claim[c].amount /\ old.reissuedFrom = claim[c].reissuedFrom
        /\ row.amount = a /\ row.reissuedFrom = c
        /\ claim' = [claim EXCEPT ![c] = old, ![n] = row]
        /\ locks' = [locks EXCEPT ![n] = a]
  BY ReissueWrites
<1>2. claim \in [Claims -> ClaimRow] /\ UNCHANGED budget
  BY DEF Inv, Reissue
<1>3. claim'[n] = row /\ claim'[c] = old /\ \A d \in Claims \ {c, n} : claim'[d] = claim[d]
  BY <1>1, <1>2
<1>4. \A d \in Claims \ {n} : /\ claim'[d].amount = claim[d].amount
                              /\ claim'[d].reissuedFrom = claim[d].reissuedFrom
  BY <1>1, <1>3
<1>5. Ledger!Write(n, a, c)
  BY <1>1, <1>2, <1>3, <1>4, NewClaimWrites
<1>6. GrantOf[c] # 0
  BY <1>1 DEF GrantOf, Inv, ClaimAssumption
<1>7. Ledger!Replace(c, n, a)
  BY <1>5, <1>6 DEF Ledger!Replace
<1> QED
  BY <1>7 DEF Ledger!BookNext

\* Whatever rewrites the row of a claim leaves its line of the book.
LEMMA RestImplements ==
    ASSUME ClaimAssumption, Inv, budget' \in Budgets, UNCHANGED locks,
           \/ UNCHANGED claim
           \/ \E c \in Claims, row \in ClaimRow : Rewrites(c, row)
    PROVE  Ledger!BookNext
<1>1. claim \in [Claims -> ClaimRow]
  BY DEF Inv
<1>2. \A d \in Claims : /\ claim'[d].amount = claim[d].amount
                        /\ claim'[d].reissuedFrom = claim[d].reissuedFrom
  <2>1. CASE UNCHANGED claim
    BY <2>1
  <2>2. CASE \E c \in Claims, row \in ClaimRow : Rewrites(c, row)
    <3>1. PICK c \in Claims, row \in ClaimRow :
            /\ claim' = [claim EXCEPT ![c] = row]
            /\ row.amount = claim[c].amount /\ row.reissuedFrom = claim[c].reissuedFrom
      BY <2>2 DEF Rewrites
    <3> QED
      BY <1>1, <3>1
  <2> QED
    BY <2>1, <2>2
<1>3. GrantOf' = GrantOf
  BY <1>2 DEF GrantOf
<1>4. OriginOf' = OriginOf
  BY <1>2 DEF OriginOf
<1>5. LockedTotal' = LockedTotal
  <2>1. locks' = locks
    OBVIOUS
  <2> QED
    BY <2>1, LockedIsTotal
<1> QED
  BY <1>3, <1>4, <1>5 DEF Ledger!BookNext, Ledger!SetLimit

LEMMA StepImplements ==
    ASSUME ClaimAssumption, Inv, [Next]_vars
    PROVE  Ledger!BookNext
<1>1. ClaimShape /\ budget' \in Budgets
  BY StepClaimShape, StepKeepsRest DEF RestWell
<1>2. CASE \/ UNCHANGED <<claim, locks>>
           \/ \E c \in Claims, row \in ClaimRow : Rewrites(c, row)
  <2>1. UNCHANGED locks
    BY <1>2 DEF Rewrites
  <2> QED
    BY <1>1, <1>2, <2>1, RestImplements
<1>3. CASE \E p \in Requests : CreateClaim(p)
  BY <1>3, CreateImplements
<1>4. CASE \E p \in Requests, n \in Claims : Reissue(p, n)
  BY <1>4, ReissueImplements
<1> QED
  BY <1>1, <1>2, <1>3, <1>4 DEF ClaimShape

LEMMA InitImplements ==
    ASSUME ClaimAssumption, Init
    PROVE  Ledger!BookInit
<1>1. \A c \in Claims : claim[c].amount = 0 /\ claim[c].reissuedFrom = None
  BY DEF Init, NoClaim
<1>2. GrantOf = [c \in Claims |-> 0] /\ OriginOf = [c \in Claims |-> None]
  BY <1>1 DEF GrantOf, OriginOf
<1>3. LockedTotal = 0
  <2>1. PICK f : f = locks
    OBVIOUS
  <2>2. \A c \in Claims : f[c] = 0
    BY <2>1 DEF Init
  <2>3. Total(f, Claims) = 0
    BY <2>2, TotalZero DEF ClaimAssumption
  <2> QED
    BY <2>1, <2>3, LockedIsTotal
<1> QED
  BY <1>2, <1>3 DEF Init, Ledger!BookInit

-----------------------------------------------------------------------------
(* The theorems. *)

LEMMA InvIsItsParts ==
    Inv <=> ClaimsWell /\ RequestsWell /\ JobsWell /\ RestWell
BY DEF Inv, ClaimsWell, RequestsWell, JobsWell, RestWell

LEMMA InitInv ==
    ASSUME ClaimAssumption, Init
    PROVE  Inv
<1>1. NoClaim \in ClaimRow /\ NoClaim.status = "none" /\ Earned(NoClaim)
  BY DEF NoClaim, ClaimRow, Earned
<1>2. ClaimsWell
  BY <1>1 DEF Init, ClaimsWell, Exists
<1>3. Idle \in Standing /\ Idle.at = "start" /\ Founded(Idle)
  BY DEF Idle, Standing, Founded
<1>4. RequestsWell
  BY <1>3 DEF Init, RequestsWell
<1>5. Free \in Queued /\ Free.at = "free"
  BY DEF Free, Queued
<1>6. JobsWell
  BY <1>5 DEF Init, JobsWell
<1>7. RestWell
  BY DEF Init, RestWell, ClaimAssumption
<1> QED
  BY <1>2, <1>4, <1>6, <1>7, InvIsItsParts

LEMMA StepInv ==
    ASSUME ClaimAssumption, Inv, [Next]_vars
    PROVE  Inv'
<1>1. ClaimsWell' /\ RequestsWell' /\ JobsWell' /\ RestWell'
  BY StepClaimShape, StepKeepsClaims, StepKeepsRequests, StepKeepsJobs, StepKeepsRest
<1> QED
  BY <1>1 DEF Inv, ClaimsWell, RequestsWell, JobsWell, RestWell

\* claims.service.ts, verification.processor.ts, cleanup: the invariant of the
\* claims of a campaign, whatever requests, jobs and clean-ups overlap.
THEOREM InvHolds == Spec => []Inv
<1>1. Init => Inv
  BY ClaimAssumption, InitInv
<1>2. Inv /\ [Next]_vars => Inv'
  BY ClaimAssumption, StepInv
<1> QED
  BY <1>1, <1>2, PTL DEF Spec

\* The types of the rows, the ledger, the requests and the queue; the
\* campaign row is locked only during the transaction of a creation.
THEOREM TypesHold == Spec => []TypeOK
<1>1. Inv => TypeOK
  <2> SUFFICES ASSUME Inv
               PROVE  TypeOK
    OBVIOUS
  <2>1. ASSUME NEW r \in Standing
        PROVE  r \in [op : Transitions \cup {"idle", "create", "cancel", "reissue"},
                      at : {"start", "insert", "enqueue", "check", "update", "commit"},
                      claim : Claims \cup {None}, amount : Amounts \cup {0}]
    BY DEF Standing, Idle, Transitions
  <2>2. ASSUME NEW q \in Queued
        PROVE  q \in [at : {"free", "waiting", "audit"}, claim : Claims \cup {None},
                      left : 0 .. MaxAttempts]
    <3>1. 0 \in 0 .. MaxAttempts /\ 1 .. MaxAttempts \subseteq 0 .. MaxAttempts
      BY ClaimAssumption DEF ClaimAssumption
    <3> QED
      BY <3>1 DEF Queued, Free
  <2>3. req \in [Requests -> [op : Transitions \cup {"idle", "create", "cancel", "reissue"},
                              at : {"start", "insert", "enqueue", "check", "update", "commit"},
                              claim : Claims \cup {None}, amount : Amounts \cup {0}]]
    BY <2>1 DEF Inv
  <2>4. job \in [Jobs -> [at : {"free", "waiting", "audit"}, claim : Claims \cup {None},
                          left : 0 .. MaxAttempts]]
    BY <2>2 DEF Inv
  <2> QED
    BY <2>3, <2>4 DEF Inv, TypeOK
<1> QED
  BY <1>1, InvHolds, PTL

\* claim-verification-state.service.ts: verified, approved and disbursed come
\* after a verification that passed, and a claim is closed without one only by
\* a cancellation or by its expiry, however often jobs run and whichever
\* requests overlap.
THEOREM VerificationComesFirst == Spec => []VerificationPrecedes
<1>1. Inv => VerificationPrecedes
  BY DEF Inv, Earned, VerificationPrecedes
<1> QED
  BY <1>1, InvHolds, PTL

\* claims.service.ts, create: the row lock serializes the creations, so a new
\* claim's lock entry still fits the budget when it commits.
THEOREM NewLocksStayInBudget == Spec => NewLocksFitBudget
<1> DEFINE Fits == \A c \in Claims :
                     ~Exists(c) /\ claim'[c].status = "requested" /\ claim'[c].reissuedFrom = None
                         => LockedTotal' <= budget'
<1>1. ASSUME Inv, [Next]_vars
      PROVE  [Fits]_vars
  <2>1. ASSUME NEW c \in Claims, ~Exists(c), claim'[c].status = "requested",
               claim'[c].reissuedFrom = None
        PROVE  LockedTotal' <= budget'
    <3>0. claim \in [Claims -> ClaimRow]
      BY <1>1 DEF Inv
    <3>1. CASE UNCHANGED <<claim, locks>>
      BY <2>1, <3>1 DEF Exists
    <3>2. CASE \E d \in Claims, row \in ClaimRow : Rewrites(d, row)
      BY <2>1, <3>0, <3>2 DEF Rewrites, Exists
    <3>3. CASE \E p \in Requests : CreateClaim(p)
      BY <1>1, <3>3, ClaimAssumption, CreateFits
    <3>4. CASE \E p \in Requests, n \in Claims : Reissue(p, n)
      <4>1. PICK n \in Claims, d \in Claims, old \in ClaimRow, row \in ClaimRow :
              /\ d # n /\ Exists(d) /\ row.reissuedFrom = d
              /\ claim' = [claim EXCEPT ![d] = old, ![n] = row]
        BY <1>1, <3>4, ClaimAssumption, ReissueWrites
      <4>2. c # d
        BY <2>1, <4>1
      <4>3. c = n
        BY <2>1, <3>0, <4>1, <4>2 DEF Exists
      <4>4. claim'[n] = row
        BY <3>0, <4>1
      <4> QED
        BY <2>1, <4>1, <4>3, <4>4, ClaimAssumption DEF ClaimAssumption
    <3> QED
      BY <1>1, <3>1, <3>2, <3>3, <3>4, ClaimAssumption, StepClaimShape DEF ClaimShape
  <2> QED
    BY <2>1
<1>2. Inv /\ [Next]_vars => [Fits]_vars
  BY <1>1
<1> QED
  BY <1>2, InvHolds, PTL DEF Spec, NewLocksFitBudget, Fits

\* budget.service.ts, reserveBudget: the claims of a campaign implement the
\* book.  A creation books its claim within the budget as if its check and its
\* write were one, a reissue books a replacement that names the old claim, and
\* no other request, job or clean-up changes a line.
THEOREM RefinesBook == Spec => ImplementsBook
<1>1. Init => Ledger!BookInit
  BY ClaimAssumption, InitImplements
<1>2. Inv /\ [Next]_vars => [Ledger!BookNext]_(Ledger!bookVars)
  BY ClaimAssumption, StepImplements
<1> QED
  BY <1>1, <1>2, InvHolds, PTL DEF Spec, ImplementsBook, Ledger!BookSpec

=============================================================================
