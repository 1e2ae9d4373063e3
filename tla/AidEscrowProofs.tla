-------------------------- MODULE AidEscrowProofs --------------------------
(***************************************************************************)
(* What AidEscrow, AidEscrowCampaigns and AidEscrowRoles guarantee for     *)
(* every choice of their constants.                                        *)
(*                                                                         *)
(* The packages and the money are proved about separately.  What a call    *)
(* may do to the package records and to the history of payouts falls into  *)
(* six kinds (StepShape), and everything about packages follows from the   *)
(* kinds.                                                                  *)
(*                                                                         *)
(* The totals of each token and of each campaign are one argument.  A      *)
(* scope is a set of <<token, campaign>> pairs: all pairs with one token,  *)
(* or a single pair.  A call changes one package, so every sum over the    *)
(* packages of a scope moves by that package's amount or stays             *)
(* (SumsFollow).                                                           *)
(*                                                                         *)
(* The admin's role and the distributors share no variable with the rest;  *)
(* their argument is the last part.                                        *)
(***************************************************************************)
EXTENDS AidEscrowCampaigns, AidEscrowRoles, SumTheorems

-----------------------------------------------------------------------------
(* The kinds of steps, as far as packages are concerned. *)

Stands == UNCHANGED <<pkg, counter, index, payouts>>

Opens(id) ==
    /\ id \in Ids \ DOMAIN pkg
    /\ \E p \in Package : p.status = "Created" /\ StorePackage(id, p)
    /\ Register(id)
    /\ UNCHANGED payouts

Moves(id, from, to) ==
    /\ id \in DOMAIN pkg
    /\ pkg[id].status \in from
    /\ SetStatus(id, to)
    /\ UNCHANGED <<counter, index>>

Paid(id) == \E k \in PayoutKinds : payouts' = [payouts EXCEPT ![id] = Append(@, k)]

Settles(id) == Moves(id, {"Created"}, "Claimed") /\ Paid(id)

Voids(id, s) == Moves(id, {"Created"}, s) /\ UNCHANGED payouts

Returns(id) == Moves(id, {"Created", "Expired", "Cancelled"}, "Refunded") /\ Paid(id)

\* Neither the status nor the terms change.
Amends(id) ==
    /\ id \in DOMAIN pkg
    /\ \E p \in Package :
        /\ pkg' = [pkg EXCEPT ![id] = p]
        /\ p.status = pkg[id].status
        /\ p.amount = pkg[id].amount
        /\ p.token = pkg[id].token
        /\ p.startsAt = pkg[id].startsAt
        /\ p.campaign = pkg[id].campaign
        /\ p.root = pkg[id].root
    /\ UNCHANGED <<counter, index, payouts>>

Shape ==
    \/ Stands
    \/ \E id \in Ids : \/ Opens(id)
                       \/ Settles(id)
                       \/ \E s \in {"Expired", "Cancelled"} : Voids(id, s)
                       \/ Returns(id)
                       \/ Amends(id)

-----------------------------------------------------------------------------

\* The fields of a package, as the later steps use them.
LEMMA PackageFields ==
    ASSUME PackagesTyped, NEW id \in DOMAIN pkg
    PROVE  /\ id \in Ids
           /\ pkg[id] \in Package
           /\ pkg[id].token \in Tokens
           /\ pkg[id].amount \in Nat \ {0}
           /\ pkg[id].recipient \in Addrs
           /\ pkg[id].status \in PackageStatus
           /\ pkg[id].expiresAt \in Nat
           /\ pkg[id].evidence \in BOOLEAN
<1>1. id \in Ids /\ pkg[id] \in Package
  BY DEF PackagesTyped
<1> QED
  BY <1>1 DEF Package

-----------------------------------------------------------------------------
(* Every call is of one of the kinds. *)

\* create_package refuses an id in use; batch creation relies on the counter.
LEMMA CreateShape ==
    ASSUME EscrowAssumption, TypeOK, IndexConsistent, Create
    PROVE  \E id \in Ids : Opens(id)
<1>1. PICK r \in Addrs, a \in Amounts, t \in Tokens, x \in Times, s \in Times \cup {now},
           c \in Campaigns \cup {None}, m \in Roots \cup {None} :
        \/ \E id \in Ids : CreatePackage(id, r, a, t, x, s, c, m)
        \/ BatchCreateItem(r, a, t, x, s, c, m)
  BY DEF Create
<1>2. now \in Nat /\ x \in Nat /\ s \in Nat /\ a \in Int
  BY DEF EscrowAssumption, TypeOK, AdminTyped
<1>3. ASSUME AmountValid(a), NEW e \in Nat
      PROVE  /\ NewPackage(r, a, t, e, s, c, m) \in Package
             /\ NewPackage(r, a, t, e, s, c, m).status = "Created"
  BY <1>2, <1>3 DEF AmountValid, NewPackage, Package, PackageStatus
<1>4. ASSUME NEW id \in Ids, CreatePackage(id, r, a, t, x, s, c, m)
      PROVE  Opens(id)
  BY <1>2, <1>3, <1>4 DEF CreatePackage, Opens
<1>5. ASSUME BatchCreateItem(r, a, t, x, s, c, m)
      PROVE  counter \in Ids /\ Opens(counter)
  <2>1. counter \in Ids
    BY <1>5 DEF BatchCreateItem
  <2>2. counter \notin DOMAIN pkg
    BY <2>1 DEF IndexConsistent, TypeOK, PackagesTyped
  <2>3. now + x \in Nat
    BY <1>2
  <2> QED
    BY <1>3, <1>5, <2>1, <2>2, <2>3 DEF BatchCreateItem, Opens
<1> QED
  BY <1>1, <1>4, <1>5

\* finalize_claim, which every claim path ends in, pays a Created package.
LEMMA FinalizeShape ==
    ASSUME TypeOK, NEW id \in Ids, Active(id), FinalizeClaim(id)
    PROVE  Settles(id)
BY DEF Active, FinalizeClaim, PayOut, Settles, Moves, Paid, PayoutKinds

\* revoke and cancel_package unlock a Created package and pay nothing.
LEMMA ReleaseShape ==
    ASSUME TypeOK, NEW id \in Ids, NEW s, Active(id), Release(id, s)
    PROVE  Voids(id, s)
BY DEF Active, Release, Voids, Moves

\* A claim, by any of its paths, is the payment of one Created package.
LEMMA CollectShape ==
    ASSUME TypeOK, Collect
    PROVE  \E id \in Ids : Settles(id)
<1>1. PICK id \in Ids : Active(id) /\ FinalizeClaim(id)
  BY DEF Collect, Claim, ClaimWithProof, ClaimWithRelayer, BatchClaimItem, Claimable
<1> QED
  BY <1>1, FinalizeShape

\* refund pays out a package that is not collected, and is its last payment.
LEMMA RefundShape ==
    ASSUME TypeOK, NEW id \in Ids, Refund(id)
    PROVE  Returns(id)
<1>1. id \in DOMAIN pkg /\ pkg[id].status \in {"Created", "Expired", "Cancelled"}
  BY DEF Refund, Refundable
<1> QED
  BY <1>1 DEF Refund, PayOut, Returns, Moves, Paid, PayoutKinds

\* reassign_package, extend_expiry and attach_evidence_hash leave money and
\* status alone.
LEMMA AmendShape ==
    ASSUME EscrowAssumption, TypeOK, NEW id \in Ids,
           \/ AttachEvidenceHash(id)
           \/ \E r \in Addrs : ReassignPackage(id, r)
           \/ \E e \in Times : ExtendExpiry(id, e)
    PROVE  Amends(id)
<1>1. id \in DOMAIN pkg
  BY DEF AttachEvidenceHash, ReassignPackage, ExtendExpiry, Active
<1>2. pkg[id] \in Package
  BY <1>1, PackageFields DEF TypeOK
<1>3. CASE AttachEvidenceHash(id)
  <2> DEFINE p == [pkg[id] EXCEPT !.evidence = TRUE]
  <2>1. /\ p \in Package
        /\ p.status = pkg[id].status
        /\ p.amount = pkg[id].amount
        /\ p.token = pkg[id].token
        /\ p.startsAt = pkg[id].startsAt
        /\ p.campaign = pkg[id].campaign
        /\ p.root = pkg[id].root
    BY <1>2 DEF Package
  <2>2. pkg' = [pkg EXCEPT ![id] = p] /\ UNCHANGED <<counter, index, payouts>>
    BY <1>3 DEF AttachEvidenceHash
  <2> HIDE DEF p
  <2> QED
    BY <1>1, <2>1, <2>2 DEF Amends
<1>4. ASSUME NEW r \in Addrs, ReassignPackage(id, r)
      PROVE  Amends(id)
  <2> DEFINE p == [pkg[id] EXCEPT !.recipient = r]
  <2>1. /\ p \in Package
        /\ p.status = pkg[id].status
        /\ p.amount = pkg[id].amount
        /\ p.token = pkg[id].token
        /\ p.startsAt = pkg[id].startsAt
        /\ p.campaign = pkg[id].campaign
        /\ p.root = pkg[id].root
    BY <1>2 DEF Package
  <2>2. pkg' = [pkg EXCEPT ![id] = p] /\ UNCHANGED <<counter, index, payouts>>
    BY <1>4 DEF ReassignPackage
  <2> HIDE DEF p
  <2> QED
    BY <1>1, <2>1, <2>2 DEF Amends
<1>5. ASSUME NEW e \in Times, ExtendExpiry(id, e)
      PROVE  Amends(id)
  <2>0. e \in Nat
    BY DEF EscrowAssumption
  <2> DEFINE p == [pkg[id] EXCEPT !.expiresAt = e]
  <2>1. /\ p \in Package
        /\ p.status = pkg[id].status
        /\ p.amount = pkg[id].amount
        /\ p.token = pkg[id].token
        /\ p.startsAt = pkg[id].startsAt
        /\ p.campaign = pkg[id].campaign
        /\ p.root = pkg[id].root
    BY <2>0, <1>2 DEF Package
  <2>2. pkg' = [pkg EXCEPT ![id] = p] /\ UNCHANGED <<counter, index, payouts>>
    BY <1>5 DEF ExtendExpiry
  <2> HIDE DEF p
  <2> QED
    BY <1>1, <2>1, <2>2 DEF Amends
<1> QED
  BY <1>3, <1>4, <1>5

\* Whatever entry point a step is, it opens one package, pays it out, closes it
\* unpaid, pays it back, amends it, or leaves all packages as they are.
THEOREM StepShape ==
    ASSUME EscrowAssumption, TypeOK, IndexConsistent, [Next]_vars
    PROVE  Shape
<1>1. CASE UNCHANGED vars \/ (\E t \in Tokens, a \in Amounts : Fund(t, a)) \/ Withdraw \/ Tick
  BY <1>1 DEF vars, Fund, Withdraw, ProposeSurplusWithdrawal, CancelSurplusWithdrawal,
              ExecuteSurplusWithdrawal, Tick, Stands, Shape
<1>2. CASE Delegation
  BY <1>2 DEF Delegation, SetDelegate, SetDelegateWithExpiry, RevokeDelegate, SweepDelegate,
              Stands, Shape
<1>3. CASE Configure
  BY <1>3 DEF Configure, SetConfig, AddAllowedToken, RemoveAllowedToken, SetAllowed, Pause,
              Unpause, SetPaused, PauseCampaign, UnpauseCampaign, SetCampaignPaused,
              Stands, Shape
<1>4. CASE Create
  BY <1>4, CreateShape DEF Shape
<1>5. CASE Collect
  BY <1>5, CollectShape DEF Shape
<1>6. CASE Administer
  <2>1. PICK id \in Ids :
          \/ Disburse(id) \/ Revoke(id) \/ CancelPackage(id) \/ Refund(id)
          \/ AttachEvidenceHash(id)
          \/ \E r \in Addrs : ReassignPackage(id, r)
          \/ \E e \in Times : ExtendExpiry(id, e)
    BY <1>6 DEF Administer
  <2>2. CASE Disburse(id)
    <3>1. Settles(id)
      BY <2>2 DEF Disburse, Active, PayOut, Settles, Moves, Paid, PayoutKinds
    <3> QED
      BY <3>1 DEF Shape
  <2>3. CASE Revoke(id) \/ CancelPackage(id)
    <3>1. Voids(id, "Cancelled")
      BY <2>3, ReleaseShape DEF Revoke, CancelPackage
    <3> QED
      BY <3>1 DEF Shape
  <2>4. CASE Refund(id)
    BY <2>4, RefundShape DEF Shape
  <2>5. CASE \/ AttachEvidenceHash(id)
             \/ \E r \in Addrs : ReassignPackage(id, r)
             \/ \E e \in Times : ExtendExpiry(id, e)
    BY <2>5, AmendShape DEF Shape
  <2> QED
    BY <2>1, <2>2, <2>3, <2>4, <2>5
<1>7. CASE Sweep
  <2>1. PICK i \in 1..Len(index) : SweepPackage(i)
    BY <1>7 DEF Sweep
  <2>2. index[i] \in Ids
    BY DEF TypeOK, PackagesTyped
  <2>3. Voids(index[i], "Expired")
    BY <2>1, <2>2, ReleaseShape DEF SweepPackage, Sweepable
  <2> QED
    BY <2>2, <2>3 DEF Shape
<1> QED
  BY <1>1, <1>2, <1>3, <1>4, <1>5, <1>6, <1>7 DEF Next

-----------------------------------------------------------------------------
(* What the kinds of steps preserve. *)

\* The records, the counter, the index and the payouts keep their types.
LEMMA ShapeKeepsTypes ==
    ASSUME EscrowAssumption, PackagesTyped, Shape
    PROVE  PackagesTyped'
<1>1. CASE Stands
  BY <1>1 DEF Stands, PackagesTyped
<1>2. ASSUME NEW id \in Ids, Opens(id)
      PROVE  PackagesTyped'
  BY <1>2 DEF Opens, StorePackage, Register, PackagesTyped, EscrowAssumption
<1>3. ASSUME NEW id \in Ids, NEW from, NEW to \in PackageStatus, Moves(id, from, to)
      PROVE  /\ DOMAIN pkg' \subseteq Ids
             /\ pkg' \in [DOMAIN pkg' -> Package]
  <2> DEFINE p == [pkg[id] EXCEPT !.status = to]
  <2>1. id \in DOMAIN pkg /\ pkg[id] \in Package
    BY <1>3, PackageFields DEF Moves
  <2>2. p \in Package
    BY <2>1 DEF Package
  <2>3. pkg' = [pkg EXCEPT ![id] = p]
    BY <1>3 DEF Moves, SetStatus
  <2>4. DOMAIN pkg \subseteq Ids /\ pkg \in [DOMAIN pkg -> Package]
    BY DEF PackagesTyped
  <2> HIDE DEF p
  <2> QED
    BY <2>2, <2>3, <2>4
<1>4. ASSUME NEW id \in Ids, Paid(id)
      PROVE  payouts' \in [Ids -> Seq(PayoutKinds)]
  BY <1>4 DEF Paid, PackagesTyped
<1>5. ASSUME NEW id \in Ids, Settles(id)
      PROVE  PackagesTyped'
  BY <1>3, <1>4, <1>5 DEF Settles, Moves, PackagesTyped, PackageStatus
<1>6. ASSUME NEW id \in Ids, NEW s \in {"Expired", "Cancelled"}, Voids(id, s)
      PROVE  PackagesTyped'
  BY <1>3, <1>6 DEF Voids, Moves, PackagesTyped, PackageStatus
<1>7. ASSUME NEW id \in Ids, Returns(id)
      PROVE  PackagesTyped'
  BY <1>3, <1>4, <1>7 DEF Returns, Moves, PackagesTyped, PackageStatus
<1>8. ASSUME NEW id \in Ids, Amends(id)
      PROVE  PackagesTyped'
  BY <1>8 DEF Amends, PackagesTyped
<1> QED
  BY <1>1, <1>2, <1>5, <1>6, <1>7, <1>8 DEF Shape

\* Money leaves for a package exactly when its status says so.
LEMMA ShapeKeepsPaidExactlyOnce ==
    ASSUME PackagesTyped, PaidExactlyOnce, Shape
    PROVE  PaidExactlyOnce'
<1>1. CASE Stands
  BY <1>1 DEF Stands, PaidExactlyOnce
<1>2. ASSUME NEW id \in Ids, Opens(id)
      PROVE  PaidExactlyOnce'
  BY <1>2 DEF Opens, StorePackage, PaidExactlyOnce, PackagesTyped
<1>3. ASSUME NEW id \in Ids, Paid(id)
      PROVE  /\ Len(payouts'[id]) = Len(payouts[id]) + 1
             /\ \A i \in Ids \ {id} : payouts'[i] = payouts[i]
  BY <1>3 DEF Paid, PackagesTyped
<1>4. ASSUME NEW id \in Ids, NEW from, NEW to, Moves(id, from, to)
      PROVE  /\ DOMAIN pkg' = DOMAIN pkg
             /\ pkg'[id].status = to
             /\ \A i \in DOMAIN pkg \ {id} : pkg'[i] = pkg[i]
  BY <1>4, PackageFields DEF Moves, SetStatus, PackagesTyped, Package
<1>5. ASSUME NEW id \in Ids, Settles(id) \/ Returns(id)
      PROVE  PaidExactlyOnce'
  <2>1. /\ Paid(id)
        /\ id \in DOMAIN pkg
        /\ pkg[id].status \notin {"Claimed", "Refunded"}
        /\ \E from, to : to \in {"Claimed", "Refunded"} /\ Moves(id, from, to)
    BY <1>5 DEF Settles, Returns, Moves
  <2>2. Len(payouts[id]) = 0
    BY <2>1 DEF PaidExactlyOnce
  <2>3. /\ DOMAIN pkg' = DOMAIN pkg
        /\ pkg'[id].status \in {"Claimed", "Refunded"}
        /\ \A i \in DOMAIN pkg \ {id} : pkg'[i] = pkg[i]
    BY <2>1, <1>4
  <2> QED
    BY <1>3, <2>1, <2>2, <2>3 DEF PaidExactlyOnce
<1>6. ASSUME NEW id \in Ids, NEW s \in {"Expired", "Cancelled"}, Voids(id, s)
      PROVE  PaidExactlyOnce'
  <2>1. Moves(id, {"Created"}, s) /\ pkg[id].status = "Created" /\ payouts' = payouts
    BY <1>6 DEF Voids, Moves
  <2> QED
    BY <1>4, <2>1 DEF PaidExactlyOnce
<1>7. ASSUME NEW id \in Ids, Amends(id)
      PROVE  PaidExactlyOnce'
  BY <1>7 DEF Amends, PaidExactlyOnce, PackagesTyped
<1> QED
  BY <1>1, <1>2, <1>5, <1>6, <1>7 DEF Shape

\* Only an opening touches the index, and it appends an id that was not in it.
LEMMA ShapeKeepsIndexConsistent ==
    ASSUME EscrowAssumption, PackagesTyped, IndexConsistent, Shape
    PROVE  IndexConsistent'
<1>1. ASSUME DOMAIN pkg' = DOMAIN pkg, UNCHANGED <<counter, index>>
      PROVE  IndexConsistent'
  BY <1>1 DEF IndexConsistent
<1>2. ASSUME NEW id \in Ids, Opens(id)
      PROVE  IndexConsistent'
  <2>1. /\ id \notin DOMAIN pkg
        /\ DOMAIN pkg' = DOMAIN pkg \cup {id}
        /\ counter' = IF id >= counter THEN id + 1 ELSE counter
        /\ index' = Append(index, id)
    BY <1>2 DEF Opens, StorePackage, Register
  <2>2. /\ Len(index') = Len(index) + 1
        /\ index'[Len(index) + 1] = id
        /\ \A i \in 1..Len(index) : index'[i] = index[i]
        /\ Len(index) \in Nat
    BY <2>1 DEF PackagesTyped
  <2>3. \A j \in DOMAIN pkg' : j < counter'
    BY <2>1 DEF IndexConsistent, PackagesTyped, EscrowAssumption
  <2>4. \A j \in DOMAIN pkg' : \E i \in 1..Len(index') : index'[i] = j
    BY <2>1, <2>2 DEF IndexConsistent
  <2>5. \A i \in 1..Len(index') : i \in 1..Len(index) \/ i = Len(index) + 1
    BY <2>2
  <2>6. \A i \in 1..Len(index') : index'[i] \in DOMAIN pkg'
    BY <2>1, <2>2, <2>5 DEF IndexConsistent
  <2>7. \A i, j \in 1..Len(index') : index'[i] = index'[j] => i = j
    BY <2>1, <2>2, <2>5 DEF IndexConsistent
  <2> QED
    BY <2>3, <2>4, <2>6, <2>7 DEF IndexConsistent
<1>3. \/ DOMAIN pkg' = DOMAIN pkg /\ UNCHANGED <<counter, index>>
      \/ \E id \in Ids : Opens(id)
  BY DEF Shape, Stands, Settles, Voids, Returns, Amends, Moves, SetStatus, PackagesTyped
<1> QED
  BY <1>1, <1>2, <1>3

-----------------------------------------------------------------------------
(* The money. *)

\* Unlocking never makes a total negative.
LEMMA UnlockedTyped ==
    ASSUME MoneyTyped, NEW t \in Tokens, NEW a \in Nat \ {0}
    PROVE  /\ Unlocked(t, a) \in [Tokens -> Nat]
           /\ Unlocked(t, a)[t] = IF totalLocked[t] > a THEN totalLocked[t] - a ELSE 0
           /\ \A u \in Tokens \ {t} : Unlocked(t, a)[u] = totalLocked[u]
BY DEF Unlocked, MoneyTyped

\* What a call does to the pool.
PoolStands == UNCHANGED <<balance, totalLocked, totalClaimed, reclaimed>>

PoolFunded(t, a) ==
    /\ balance' = [balance EXCEPT ![t] = @ + a]
    /\ UNCHANGED <<totalLocked, totalClaimed, reclaimed>>

PoolLocked(t, a) ==
    /\ Solvent(t, a)
    /\ Lock(t, a)
    /\ UNCHANGED <<balance, totalClaimed, reclaimed>>

PoolReleased(t, a) ==
    /\ totalLocked' = Unlocked(t, a)
    /\ UNCHANGED <<balance, totalClaimed, reclaimed>>

PoolPaid(t, a) ==
    /\ balance[t] >= a
    /\ balance' = [balance EXCEPT ![t] = @ - a]
    /\ totalClaimed' = totalClaimed \/ CountClaimed(t, a)
    /\ \/ totalLocked' = Unlocked(t, a) /\ reclaimed' = reclaimed
       \/ /\ totalLocked' = Unlocked(t, a) \/ totalLocked' = totalLocked
          /\ reclaimed' = [reclaimed EXCEPT ![t] = @ + a]

PoolWithdrawn(t, a) ==
    /\ a <= Surplus(t)
    /\ balance' = [balance EXCEPT ![t] = @ - a]
    /\ UNCHANGED <<totalLocked, totalClaimed, reclaimed>>

PoolShape ==
    \/ PoolStands
    \/ \E t \in Tokens, a \in Nat \ {0} :
        PoolFunded(t, a) \/ PoolLocked(t, a) \/ PoolReleased(t, a) \/ PoolPaid(t, a)
            \/ PoolWithdrawn(t, a)

\* The same for the money: what a step may do to balance and locked total.
LEMMA StepPoolShape ==
    ASSUME EscrowAssumption, TypeOK, [Next]_vars
    PROVE  PoolShape /\ pending' \in PendingWithdrawal \cup {None}
<1> USE DEF PoolShape
<1>p. /\ PackagesTyped /\ MoneyTyped
      /\ now \in Nat
  BY DEF TypeOK, AdminTyped, EscrowAssumption
<1>1. CASE UNCHANGED vars \/ Tick \/ Delegation \/ Configure
  BY <1>p, <1>1 DEF vars, poolVars, Tick, Delegation, SetDelegate, SetDelegateWithExpiry,
              RevokeDelegate, SweepDelegate, Configure, SetConfig, AddAllowedToken,
              RemoveAllowedToken, SetAllowed, Pause, Unpause, SetPaused, PauseCampaign,
              UnpauseCampaign, SetCampaignPaused, PoolStands, MoneyTyped
<1>2. CASE \E t \in Tokens, a \in Amounts : Fund(t, a)
  <2>1. PICK t \in Tokens, a \in Amounts : Fund(t, a)
    BY <1>2
  <2>2. a \in Nat \ {0}
    <3>1. a > 0
      BY <2>1 DEF Fund
    <3>2. a \in Int
      BY DEF EscrowAssumption
    <3> QED
      BY <3>1, <3>2
  <2>3. PoolFunded(t, a) /\ UNCHANGED pending
    BY <2>1 DEF Fund, PoolFunded
  <2> QED
    BY <1>p, <2>2, <2>3 DEF MoneyTyped
<1>3. CASE Create
  <2>1. PICK t \in Tokens, a \in Amounts :
          /\ AmountValid(a) /\ Solvent(t, a) /\ Lock(t, a)
          /\ UNCHANGED <<balance, totalClaimed, reclaimed, pending>>
    BY <1>3 DEF Create, CreatePackage, BatchCreateItem
  <2>2. a \in Nat \ {0}
    BY <2>1 DEF AmountValid, EscrowAssumption
  <2> QED
    BY <1>p, <2>1, <2>2 DEF PoolLocked, MoneyTyped
<1>4. CASE Collect
  <2>1. PICK id \in DOMAIN pkg : FinalizeClaim(id)
    BY <1>4 DEF Collect, Claim, ClaimWithProof, ClaimWithRelayer, BatchClaimItem, Claimable,
                Active
  <2>2. pkg[id].token \in Tokens /\ pkg[id].amount \in Nat \ {0}
    BY <1>p, PackageFields
  <2> QED
    BY <1>p, <2>1, <2>2 DEF FinalizeClaim, PayOut, PoolPaid, MoneyTyped
<1>5. ASSUME NEW id \in Ids, NEW s, Active(id), Release(id, s)
      PROVE  \E t \in Tokens, a \in Nat \ {0} : PoolReleased(t, a) /\ UNCHANGED pending
  BY <1>p, <1>5, PackageFields DEF Active, Release, PoolReleased
<1>6. CASE Administer
  <2>1. PICK id \in Ids :
          \/ Disburse(id) \/ Revoke(id) \/ CancelPackage(id) \/ Refund(id)
          \/ AttachEvidenceHash(id)
          \/ \E r \in Addrs : ReassignPackage(id, r)
          \/ \E e \in Times : ExtendExpiry(id, e)
    BY <1>6 DEF Administer
  <2>2. CASE Revoke(id) \/ CancelPackage(id)
    BY <1>p, <1>5, <2>2 DEF Revoke, CancelPackage, MoneyTyped
  <2>3. CASE Disburse(id)
    BY <1>p, <2>3, PackageFields DEF Disburse, Active, PayOut, PoolPaid, MoneyTyped
  <2>4. CASE Refund(id)
    <3>1. id \in DOMAIN pkg /\ pkg[id].token \in Tokens /\ pkg[id].amount \in Nat \ {0}
      BY <1>p, <2>4, PackageFields DEF Refund, Refundable
    <3> QED
      BY <1>p, <2>4, <3>1 DEF Refund, UnlocksOnRefund, PayOut, PoolPaid, MoneyTyped
  <2>5. CASE \/ AttachEvidenceHash(id)
             \/ \E r \in Addrs : ReassignPackage(id, r)
             \/ \E e \in Times : ExtendExpiry(id, e)
    BY <1>p, <2>5 DEF AttachEvidenceHash, ReassignPackage, ExtendExpiry, poolVars, PoolStands,
                      MoneyTyped
  <2> QED
    BY <2>1, <2>2, <2>3, <2>4, <2>5
<1>7. CASE Sweep
  <2>1. PICK i \in 1..Len(index) : Active(index[i]) /\ Release(index[i], "Expired")
    BY <1>7 DEF Sweep, SweepPackage, Sweepable
  <2>2. index[i] \in Ids
    BY <1>p DEF PackagesTyped
  <2> QED
    BY <1>p, <1>5, <2>1, <2>2 DEF MoneyTyped
<1>8. CASE Withdraw
  <2>1. CASE \E t \in Tokens, a \in Amounts : ProposeSurplusWithdrawal(t, a)
    BY <1>p, <2>1 DEF ProposeSurplusWithdrawal, poolVars, PoolStands, PendingWithdrawal,
                      EscrowAssumption
  <2>2. CASE CancelSurplusWithdrawal
    BY <2>2 DEF CancelSurplusWithdrawal, poolVars, PoolStands
  <2>3. CASE ExecuteSurplusWithdrawal
    <3>1. pending.token \in Tokens /\ pending.amount \in Nat \ {0}
      BY <1>p, <2>3 DEF ExecuteSurplusWithdrawal, MoneyTyped, PendingWithdrawal
    <3>2. PoolWithdrawn(pending.token, pending.amount) /\ pending' = None
      BY <2>3 DEF ExecuteSurplusWithdrawal, StillSurplus, PoolWithdrawn
    <3> QED
      BY <3>1, <3>2
  <2> QED
    BY <1>8, <2>1, <2>2, <2>3 DEF Withdraw
<1> QED
  BY <1>1, <1>2, <1>3, <1>4, <1>6, <1>7, <1>8 DEF Next

\* Surplus is what is left over the locked total, so taking it cannot make the
\* balance negative; a payout is limited by the balance.
LEMMA PoolKeepsTypes ==
    ASSUME MoneyTyped, PoolShape, pending' \in PendingWithdrawal \cup {None}
    PROVE  MoneyTyped'
<1>1. CASE PoolStands
  BY <1>1 DEF PoolStands, MoneyTyped
<1>u. ASSUME NEW t \in Tokens, NEW a \in Nat \ {0}
      PROVE  Unlocked(t, a) \in [Tokens -> Nat]
  BY UnlockedTyped
<1>2. ASSUME NEW t \in Tokens, NEW a \in Nat \ {0}, PoolFunded(t, a) \/ PoolLocked(t, a)
      PROVE  MoneyTyped'
  BY <1>2 DEF PoolFunded, PoolLocked, Lock, MoneyTyped
<1>5. ASSUME NEW t \in Tokens, NEW a \in Nat \ {0}, PoolReleased(t, a)
      PROVE  MoneyTyped'
  BY <1>5, <1>u DEF PoolReleased, MoneyTyped
<1>3. ASSUME NEW t \in Tokens, NEW a \in Nat \ {0}, PoolPaid(t, a)
      PROVE  MoneyTyped'
  <2>1. balance' \in [Tokens -> Nat]
    BY <1>3 DEF PoolPaid, MoneyTyped
  <2>2. totalLocked' \in [Tokens -> Nat]
    BY <1>3, <1>u DEF PoolPaid, MoneyTyped
  <2>3. totalClaimed' \in [Tokens -> Nat] /\ reclaimed' \in [Tokens -> Nat]
    BY <1>3 DEF PoolPaid, CountClaimed, MoneyTyped
  <2> QED
    BY <2>1, <2>2, <2>3 DEF MoneyTyped
<1>4. ASSUME NEW t \in Tokens, NEW a \in Nat \ {0}, PoolWithdrawn(t, a)
      PROVE  MoneyTyped'
  BY <1>4 DEF PoolWithdrawn, Surplus, MoneyTyped
<1> QED
  BY <1>1, <1>2, <1>3, <1>4, <1>5 DEF PoolShape

\* Creating locks only what the balance covers, paying a locked package takes
\* as much from both sides, and a refund that takes from the balance alone is
\* counted in reclaimed.
LEMMA PoolKeepsLockedIsCovered ==
    ASSUME MoneyTyped, LockedIsCovered, PoolShape
    PROVE  LockedIsCovered'
<1>1. CASE PoolStands
  BY <1>1 DEF PoolStands, LockedIsCovered
<1>u. ASSUME NEW t \in Tokens, NEW a \in Nat \ {0}
      PROVE  /\ Unlocked(t, a) \in [Tokens -> Nat]
             /\ Unlocked(t, a)[t] = IF totalLocked[t] > a THEN totalLocked[t] - a ELSE 0
             /\ \A u \in Tokens \ {t} : Unlocked(t, a)[u] = totalLocked[u]
  BY UnlockedTyped
<1>2. ASSUME NEW t \in Tokens, NEW a \in Nat \ {0}, PoolFunded(t, a) \/ PoolLocked(t, a)
      PROVE  LockedIsCovered'
  BY <1>2 DEF PoolFunded, PoolLocked, Solvent, Lock, MoneyTyped, LockedIsCovered
<1>5. ASSUME NEW t \in Tokens, NEW a \in Nat \ {0}, PoolReleased(t, a)
      PROVE  LockedIsCovered'
  <2>1. \A u \in Tokens : totalLocked'[u] <= totalLocked[u]
    BY <1>5, <1>u DEF PoolReleased, MoneyTyped
  <2> QED
    BY <1>5, <1>u, <2>1 DEF PoolReleased, MoneyTyped, LockedIsCovered
<1>3. ASSUME NEW t \in Tokens, NEW a \in Nat \ {0}, PoolPaid(t, a)
      PROVE  LockedIsCovered'
  <2>1. /\ balance[t] \in Nat /\ totalLocked[t] \in Nat /\ reclaimed[t] \in Nat
        /\ balance[t] + reclaimed[t] >= totalLocked[t]
        /\ balance[t] >= a
        /\ balance'[t] = balance[t] - a
    BY <1>3 DEF PoolPaid, MoneyTyped, LockedIsCovered
  <2>2. \/ totalLocked'[t] = Unlocked(t, a)[t] /\ reclaimed'[t] = reclaimed[t]
        \/ /\ totalLocked'[t] \in {Unlocked(t, a)[t], totalLocked[t]}
           /\ reclaimed'[t] = reclaimed[t] + a
    BY <1>3 DEF PoolPaid, MoneyTyped
  <2>3. balance'[t] + reclaimed'[t] >= totalLocked'[t]
    BY <2>1, <2>2, <1>u
  <2>4. \A u \in Tokens \ {t} : /\ balance'[u] = balance[u]
                                /\ totalLocked'[u] = totalLocked[u]
                                /\ reclaimed'[u] = reclaimed[u]
    BY <1>3, <1>u DEF PoolPaid, MoneyTyped
  <2> QED
    BY <2>3, <2>4 DEF LockedIsCovered
<1>4. ASSUME NEW t \in Tokens, NEW a \in Nat \ {0}, PoolWithdrawn(t, a)
      PROVE  LockedIsCovered'
  BY <1>4 DEF PoolWithdrawn, Surplus, MoneyTyped, LockedIsCovered
<1> QED
  BY <1>1, <1>2, <1>3, <1>4, <1>5 DEF PoolShape

-----------------------------------------------------------------------------
(* The delegates. *)

\* Claim times and delegates keep their types: delegation and claiming only
\* store addresses and times of theirs.
LEMMA StepKeepsPeople ==
    ASSUME EscrowAssumption, TypeOK, [Next]_vars
    PROVE  PeopleTyped'
<1>p. PackagesTyped /\ PeopleTyped /\ now \in Nat
  BY DEF TypeOK, AdminTyped, EscrowAssumption
<1>1. CASE Collect
  <2>1. PICK id \in DOMAIN pkg : FinalizeClaim(id)
    BY <1>1 DEF Collect, Claim, ClaimWithProof, ClaimWithRelayer, BatchClaimItem, Claimable,
                Active
  <2>2. id \in Ids /\ pkg[id].recipient \in Addrs
    BY <1>p, PackageFields
  <2> QED
    BY <1>p, <2>1, <2>2 DEF FinalizeClaim, ClearDelegate, PeopleTyped
<1>2. CASE Delegation
  BY <1>p, <1>2 DEF Delegation, SetDelegate, SetDelegateWithExpiry, RevokeDelegate, SweepDelegate,
                    ClearDelegate, PeopleTyped, EscrowAssumption
<1>3. CASE Create
  BY <1>p, <1>3 DEF Create, CreatePackage, BatchCreateItem, delegateVars, PeopleTyped
<1>4. CASE Administer
  BY <1>p, <1>4 DEF Administer, Disburse, Revoke, CancelPackage, Refund, AttachEvidenceHash,
                    ReassignPackage, ExtendExpiry, Release, delegateVars, PeopleTyped
<1>5. CASE UNCHANGED vars \/ Tick \/ Sweep \/ Withdraw
            \/ (\E t \in Tokens, a \in Amounts : Fund(t, a))
  BY <1>p, <1>5 DEF vars, Tick, Sweep, SweepPackage, Release, Withdraw,
                    ProposeSurplusWithdrawal, CancelSurplusWithdrawal,
                    ExecuteSurplusWithdrawal, Fund, delegateVars, PeopleTyped
<1>6. CASE Configure
  BY <1>p, <1>6 DEF Configure, SetConfig, AddAllowedToken, RemoveAllowedToken, SetAllowed,
                    Pause, Unpause, SetPaused, PauseCampaign, UnpauseCampaign,
                    SetCampaignPaused, delegateVars, PeopleTyped
<1> QED
  BY <1>1, <1>2, <1>3, <1>4, <1>5, <1>6 DEF Next

\* So do the configuration, the pauses, the pending withdrawal and the clock.
LEMMA StepKeepsAdmin ==
    ASSUME EscrowAssumption, TypeOK, [Next]_vars
    PROVE  AdminTyped'
<1>p. AdminTyped
  BY DEF TypeOK
<1>1. CASE Configure
  <2>1. CASE \E c \in Configs : SetConfig(c)
    BY <1>p, <2>1 DEF SetConfig, AdminTyped, Config, ConfigInput, EscrowAssumption
  <2>2. ASSUME NEW ts \in SUBSET Tokens, SetAllowed(ts)
        PROVE  AdminTyped'
    BY <1>p, <2>2 DEF SetAllowed, AdminTyped, Config
  <2>3. ASSUME NEW t \in Tokens, AddAllowedToken(t) \/ RemoveAllowedToken(t)
        PROVE  AdminTyped'
    <3>1. config.allowed \in SUBSET Tokens
      BY <1>p DEF AdminTyped, Config
    <3>2. /\ config.allowed \cup {t} \in SUBSET Tokens
          /\ config.allowed \ {t} \in SUBSET Tokens
      BY <3>1
    <3> QED
      BY <2>2, <2>3, <3>2 DEF AddAllowedToken, RemoveAllowedToken
  <2>4. CASE \E f \in PauseFlags : Pause(f) \/ Unpause(f)
    BY <1>p, <2>4 DEF Pause, Unpause, SetPaused, AdminTyped
  <2>5. CASE \E c \in Campaigns : PauseCampaign(c) \/ UnpauseCampaign(c)
    BY <1>p, <2>5 DEF PauseCampaign, UnpauseCampaign, SetCampaignPaused, AdminTyped
  <2> QED
    BY <1>1, <2>1, <2>3, <2>4, <2>5 DEF Configure
<1>2. CASE Tick
  <2>1. MaxTime \in Nat
    BY DEF EscrowAssumption
  <2>2. now' \in 1..MaxTime
    BY <1>p, <1>2, <2>1 DEF Tick, AdminTyped
  <2> QED
    BY <1>p, <1>2, <2>2 DEF Tick, adminVars, AdminTyped
<1>3. CASE Create
  <2>1. UNCHANGED <<now, adminVars>>
    BY <1>3 DEF Create, CreatePackage, BatchCreateItem
  <2> QED
    BY <1>p, <2>1 DEF adminVars, AdminTyped
<1>4. CASE Collect
  <2>1. UNCHANGED <<now, adminVars>>
    BY <1>4 DEF Collect, Claim, ClaimWithProof, ClaimWithRelayer, BatchClaimItem, FinalizeClaim
  <2> QED
    BY <1>p, <2>1 DEF adminVars, AdminTyped
<1>5. CASE Administer \/ Sweep
  <2>1. UNCHANGED <<now, adminVars>>
    BY <1>5 DEF Administer, Disburse, Revoke, CancelPackage, Refund, AttachEvidenceHash,
                ReassignPackage, ExtendExpiry, Sweep, SweepPackage, Release
  <2> QED
    BY <1>p, <2>1 DEF adminVars, AdminTyped
<1>6. CASE UNCHANGED vars \/ Withdraw \/ Delegation
            \/ (\E t \in Tokens, a \in Amounts : Fund(t, a))
  <2>1. UNCHANGED <<now, adminVars>>
    BY <1>6 DEF vars, Withdraw, ProposeSurplusWithdrawal, CancelSurplusWithdrawal,
                ExecuteSurplusWithdrawal, Delegation, SetDelegate, SetDelegateWithExpiry,
                RevokeDelegate, SweepDelegate, Fund
  <2> QED
    BY <1>p, <2>1 DEF adminVars, AdminTyped
<1> QED
  BY <1>1, <1>2, <1>3, <1>4, <1>5, <1>6 DEF Next

\* Delegates and their expiries are cleared together, and a delegate is only
\* registered on a package that nobody has collected.
Registers(id, a) ==
    /\ DelegateSettable(id, a)
    /\ delegate' = [delegate EXCEPT ![id] = a]
    /\ \/ delegateExpiry' = delegateExpiry
       \/ \E e \in Nat : delegateExpiry' = [delegateExpiry EXCEPT ![id] = e]
    /\ UNCHANGED <<pkg, payouts>>

DelegateShape ==
    \/ UNCHANGED delegateVars
    \/ \E id \in Ids : ClearDelegate(id) \/ \E a \in Addrs : Registers(id, a)

\* What a step may do to the two delegate maps and to one package with them.
LEMMA StepDelegateShape ==
    ASSUME EscrowAssumption, [Next]_vars
    PROVE  DelegateShape
<1>1. CASE Collect
  BY <1>1 DEF Collect, Claim, ClaimWithProof, ClaimWithRelayer, BatchClaimItem,
              FinalizeClaim, DelegateShape
<1>2. CASE Delegation
  <2>1. PICK id \in Ids :
          \/ \E a \in Addrs : SetDelegate(id, a)
          \/ \E a \in Addrs, e \in Times : SetDelegateWithExpiry(id, a, e)
          \/ RevokeDelegate(id) \/ SweepDelegate(id)
    BY <1>2 DEF Delegation
  <2>2. ASSUME NEW a \in Addrs, SetDelegate(id, a)
        PROVE  Registers(id, a)
    BY <2>2 DEF SetDelegate, Registers
  <2>3. ASSUME NEW a \in Addrs, NEW e \in Times, SetDelegateWithExpiry(id, a, e)
        PROVE  Registers(id, a)
    <3>1. e \in Nat
      BY DEF EscrowAssumption
    <3> QED
      BY <2>3, <3>1 DEF SetDelegateWithExpiry, Registers
  <2>4. CASE RevokeDelegate(id) \/ SweepDelegate(id)
    BY <2>4 DEF RevokeDelegate, SweepDelegate, DelegateShape
  <2> QED
    BY <2>1, <2>2, <2>3, <2>4 DEF DelegateShape
<1>3. CASE Create
  BY <1>3 DEF Create, CreatePackage, BatchCreateItem, DelegateShape
<1>4. CASE Administer \/ Sweep
  BY <1>4 DEF Administer, Disburse, Revoke, CancelPackage, Refund, AttachEvidenceHash,
              ReassignPackage, ExtendExpiry, Sweep, SweepPackage, Release, DelegateShape
<1>5. CASE UNCHANGED vars \/ Tick \/ Withdraw
            \/ (\E t \in Tokens, a \in Amounts : Fund(t, a))
  BY <1>5 DEF vars, Tick, Withdraw, ProposeSurplusWithdrawal, CancelSurplusWithdrawal,
              ExecuteSurplusWithdrawal, Fund, DelegateShape
<1>6. CASE Configure
  BY <1>6 DEF Configure, SetConfig, AddAllowedToken, RemoveAllowedToken, SetAllowed,
              Pause, Unpause, SetPaused, PauseCampaign, UnpauseCampaign,
              SetCampaignPaused, DelegateShape
<1> QED
  BY <1>1, <1>2, <1>3, <1>4, <1>5, <1>6 DEF Next

\* No step leaves an expiry behind when it removes a delegate.
LEMMA StepKeepsExpiryHasDelegate ==
    ASSUME EscrowAssumption, PeopleTyped, ExpiryHasDelegate, DelegateShape
    PROVE  ExpiryHasDelegate'
<1>1. CASE UNCHANGED delegateVars
  BY <1>1 DEF delegateVars, ExpiryHasDelegate
<1>2. ASSUME NEW id \in Ids, ClearDelegate(id)
      PROVE  ExpiryHasDelegate'
  BY <1>2 DEF ClearDelegate, PeopleTyped, ExpiryHasDelegate
<1>3. ASSUME NEW id \in Ids, NEW a \in Addrs, Registers(id, a)
      PROVE  ExpiryHasDelegate'
  <2>1. a # None
    BY DEF EscrowAssumption
  <2> QED
    BY <1>3, <2>1 DEF Registers, PeopleTyped, ExpiryHasDelegate
<1> QED
  BY <1>1, <1>2, <1>3 DEF DelegateShape

\* A claim leaves no delegate behind, and none can be registered afterwards.
LEMMA StepKeepsClaimEndsDelegation ==
    ASSUME EscrowAssumption, TypeOK, IndexConsistent, PaidExactlyOnce, ClaimEndsDelegation,
           [Next]_vars
    PROVE  ClaimEndsDelegation'
<1>p. PackagesTyped /\ PeopleTyped
  BY DEF TypeOK
<1>1. CASE Collect
  <2>1. PICK id \in DOMAIN pkg : FinalizeClaim(id)
    BY <1>1 DEF Collect, Claim, ClaimWithProof, ClaimWithRelayer, BatchClaimItem, Claimable,
                Active
  <2>2. id \in Ids
    BY <1>p, PackageFields
  <2>3. delegate'[id] = None
    BY <1>p, <2>1, <2>2 DEF FinalizeClaim, ClearDelegate, PeopleTyped
  <2>4. ASSUME NEW i \in DOMAIN pkg' \ {id}
        PROVE  /\ i \in DOMAIN pkg
               /\ pkg'[i] = pkg[i]
               /\ payouts'[i] = payouts[i]
               /\ delegate'[i] = delegate[i]
    BY <1>p, <2>1, <2>2 DEF FinalizeClaim, SetStatus, PayOut, ClearDelegate, PackagesTyped,
                            PeopleTyped
  <2> QED
    BY <2>3, <2>4 DEF ClaimEndsDelegation, LastPayout
<1>2. CASE UNCHANGED <<pkg, payouts>>
  <2>1. DelegateShape
    BY StepDelegateShape
  <2>2. CASE UNCHANGED delegateVars
    BY <1>2, <2>2 DEF delegateVars, ClaimEndsDelegation, LastPayout
  <2>3. ASSUME NEW id \in Ids, ClearDelegate(id)
        PROVE  ClaimEndsDelegation'
    BY <1>p, <1>2, <2>3 DEF ClearDelegate, ClaimEndsDelegation, LastPayout, PackagesTyped,
                            PeopleTyped
  <2>4. ASSUME NEW id \in Ids, NEW a \in Addrs, Registers(id, a)
        PROVE  ClaimEndsDelegation'
    BY <1>p, <1>2, <2>4 DEF Registers, DelegateSettable, ClaimEndsDelegation, LastPayout,
                            PackagesTyped, PeopleTyped
  <2> QED
    BY <2>1, <2>2, <2>3, <2>4 DEF DelegateShape
<1>3. ASSUME UNCHANGED <<payouts, delegate>>,
             \A i \in DOMAIN pkg' :
                pkg'[i].status = "Claimed" => i \in DOMAIN pkg /\ pkg[i].status = "Claimed"
      PROVE  ClaimEndsDelegation'
  BY <1>3 DEF ClaimEndsDelegation, LastPayout
<1>4. CASE Create
  <2>1. PICK id \in Ids : Opens(id)
    BY <1>4, CreateShape
  <2>2. UNCHANGED delegate
    BY <1>4 DEF Create, CreatePackage, BatchCreateItem, delegateVars
  <2> QED
    BY <1>p, <1>3, <2>1, <2>2 DEF Opens, StorePackage, PackagesTyped
<1>5. ASSUME NEW id \in Ids, NEW s \in {"Expired", "Cancelled"}, Active(id), Release(id, s)
      PROVE  ClaimEndsDelegation'
  <2>1. UNCHANGED <<payouts, delegate>>
    BY <1>5 DEF Release, delegateVars
  <2>2. /\ DOMAIN pkg' = DOMAIN pkg
        /\ pkg'[id].status = s
        /\ \A i \in DOMAIN pkg \ {id} : pkg'[i] = pkg[i]
    BY <1>p, <1>5, PackageFields DEF Active, Release, SetStatus, PackagesTyped, Package
  <2> QED
    BY <1>3, <2>1, <2>2
<1>6. CASE Sweep
  <2>1. PICK i \in 1..Len(index) : Active(index[i]) /\ Release(index[i], "Expired")
    BY <1>6 DEF Sweep, SweepPackage, Sweepable
  <2>2. index[i] \in Ids
    BY <1>p DEF PackagesTyped
  <2> QED
    BY <1>5, <2>1, <2>2
<1>7. CASE Administer
  <2>1. PICK id \in Ids :
          \/ Disburse(id) \/ Revoke(id) \/ CancelPackage(id) \/ Refund(id)
          \/ AttachEvidenceHash(id)
          \/ \E r \in Addrs : ReassignPackage(id, r)
          \/ \E e \in Times : ExtendExpiry(id, e)
    BY <1>7 DEF Administer
  <2>2. CASE Revoke(id) \/ CancelPackage(id)
    BY <1>5, <2>2 DEF Revoke, CancelPackage
  <2>3. CASE Disburse(id)
    <3>1. id \in DOMAIN pkg /\ UNCHANGED delegate
      BY <2>3 DEF Disburse, Active, delegateVars
    <3>2. payouts' = [payouts EXCEPT ![id] = Append(@, "disburse")]
      BY <2>3 DEF Disburse, PayOut
    <3>3. payouts'[id] = Append(payouts[id], "disburse") /\ payouts[id] \in Seq(PayoutKinds)
      BY <1>p, <3>2 DEF PackagesTyped
    <3>4. payouts'[id][Len(payouts'[id])] = "disburse"
      BY <3>3
    <3>5. ASSUME NEW i \in DOMAIN pkg' \ {id}
          PROVE  i \in DOMAIN pkg /\ pkg'[i] = pkg[i] /\ payouts'[i] = payouts[i]
      BY <1>p, <2>3, <3>2 DEF Disburse, SetStatus, PackagesTyped
    <3> QED
      BY <3>1, <3>4, <3>5 DEF ClaimEndsDelegation, LastPayout
  <2>4. CASE Refund(id)
    <3>1. id \in DOMAIN pkg /\ UNCHANGED delegate
      BY <2>4 DEF Refund, Refundable, delegateVars
    <3>2. pkg'[id].status = "Refunded"
      BY <1>p, <2>4, <3>1, PackageFields DEF Refund, SetStatus, PackagesTyped, Package
    <3>3. ASSUME NEW i \in DOMAIN pkg' \ {id}
          PROVE  i \in DOMAIN pkg /\ pkg'[i] = pkg[i] /\ payouts'[i] = payouts[i]
      BY <1>p, <2>4 DEF Refund, SetStatus, PayOut, PackagesTyped
    <3> QED
      BY <3>1, <3>2, <3>3 DEF ClaimEndsDelegation, LastPayout
  <2>5. CASE \/ AttachEvidenceHash(id)
             \/ \E r \in Addrs : ReassignPackage(id, r)
             \/ \E e \in Times : ExtendExpiry(id, e)
    <3>1. Amends(id)
      BY <2>5, AmendShape
    <3>2. UNCHANGED delegate
      BY <2>5 DEF AttachEvidenceHash, ReassignPackage, ExtendExpiry, delegateVars
    <3> QED
      BY <1>p, <1>3, <3>1, <3>2 DEF Amends, PackagesTyped
  <2> QED
    BY <2>1, <2>2, <2>3, <2>4, <2>5
<1>8. CASE \/ UNCHANGED vars \/ Tick \/ Delegation \/ Configure \/ Withdraw
           \/ (\E t \in Tokens, a \in Amounts : Fund(t, a))
  <2>1. UNCHANGED <<pkg, payouts>>
    BY <1>8 DEF vars, Tick, Delegation, SetDelegate, SetDelegateWithExpiry, RevokeDelegate,
                SweepDelegate, Configure, SetConfig, AddAllowedToken, RemoveAllowedToken,
                SetAllowed, Pause, Unpause, SetPaused, PauseCampaign, UnpauseCampaign,
                SetCampaignPaused, Withdraw, ProposeSurplusWithdrawal,
                CancelSurplusWithdrawal, ExecuteSurplusWithdrawal, Fund
  <2> QED
    BY <1>2, <2>1
<1> QED
  BY <1>1, <1>4, <1>6, <1>7, <1>8 DEF Next

-----------------------------------------------------------------------------
(* The invariant.  None of the safety invariants is inductive without the  *)
(* types, and the kinds of steps need IndexConsistent: were an id of the   *)
(* counter in use, a batch creation would reopen that package.             *)

Inv ==
    /\ TypeOK
    /\ IndexConsistent
    /\ PaidExactlyOnce
    /\ LockedIsCovered
    /\ ExpiryHasDelegate
    /\ ClaimEndsDelegation

\* The freshly initialised contract satisfies the inductive invariant.
LEMMA InitInv ==
    ASSUME EscrowAssumption, Init
    PROVE  Inv
<1>1. pkg = [i \in {} |-> None] /\ DOMAIN pkg = {}
  BY DEF Init
<1>2. PackagesTyped
  BY <1>1 DEF Init, PackagesTyped
<1>3. MoneyTyped /\ PeopleTyped
  BY DEF Init, MoneyTyped, PeopleTyped, NeverClaimed
<1>4. AdminTyped
  BY DEF Init, AdminTyped, Config, EscrowAssumption
<1>5. IndexConsistent
  BY <1>1 DEF Init, IndexConsistent
<1>6. PaidExactlyOnce /\ ClaimEndsDelegation
  BY <1>1 DEF Init, PaidExactlyOnce, ClaimEndsDelegation
<1>7. LockedIsCovered /\ ExpiryHasDelegate
  BY DEF Init, LockedIsCovered, ExpiryHasDelegate
<1> QED
  BY <1>2, <1>3, <1>4, <1>5, <1>6, <1>7 DEF Inv, TypeOK

\* Every call keeps the inductive invariant.
LEMMA StepInv ==
    ASSUME EscrowAssumption, Inv, [Next]_vars
    PROVE  Inv'
<1>1. TypeOK /\ PackagesTyped /\ MoneyTyped /\ PeopleTyped
  BY DEF Inv, TypeOK
<1>2. Shape
  BY StepShape DEF Inv
<1>3. PoolShape /\ pending' \in PendingWithdrawal \cup {None}
  BY <1>1, StepPoolShape
<1>4. PackagesTyped' /\ IndexConsistent' /\ PaidExactlyOnce'
  BY <1>1, <1>2, ShapeKeepsTypes, ShapeKeepsIndexConsistent, ShapeKeepsPaidExactlyOnce DEF Inv
<1>5. MoneyTyped' /\ LockedIsCovered'
  BY <1>1, <1>3, PoolKeepsTypes, PoolKeepsLockedIsCovered DEF Inv
<1>6. PeopleTyped' /\ AdminTyped'
  BY <1>1, StepKeepsPeople, StepKeepsAdmin
<1>7. ExpiryHasDelegate' /\ ClaimEndsDelegation'
  BY <1>1, StepDelegateShape, StepKeepsExpiryHasDelegate, StepKeepsClaimEndsDelegation DEF Inv
<1> QED
  BY <1>4, <1>5, <1>6, <1>7 DEF Inv, TypeOK

\* The inductive invariant holds in every reachable state of the contract.
THEOREM InvHolds == Spec => []Inv
<1>1. Init => Inv
  BY EscrowAssumption, InitInv
<1>2. Inv /\ [Next]_vars => Inv'
  BY EscrowAssumption, StepInv
<1> QED
  BY <1>1, <1>2, PTL DEF Spec

\* No total, balance or record of the contract leaves its type.
THEOREM TypesHold == Spec => []TypeOK
<1>1. Inv => TypeOK
  BY DEF Inv
<1> QED
  BY <1>1, InvHolds, PTL

\* The money of a package leaves the contract exactly once.
THEOREM NoDoublePayout == Spec => []PaidExactlyOnce
<1>1. Inv => PaidExactlyOnce
  BY DEF Inv
<1> QED
  BY <1>1, InvHolds, PTL

\* Ids chosen by callers and ids taken from the counter never collide.
THEOREM NoIdReuse == Spec => []IndexConsistent
<1>1. Inv => IndexConsistent
  BY DEF Inv
<1> QED
  BY <1>1, InvHolds, PTL

\* The balance covers the locked total but for refunds of unlocked packages.
THEOREM LockedStaysCovered == Spec => []LockedIsCovered
<1>1. Inv => LockedIsCovered
  BY DEF Inv
<1> QED
  BY <1>1, InvHolds, PTL

\* The expiry map never outlives the delegate map.
THEOREM NoOrphanExpiry == Spec => []ExpiryHasDelegate
<1>1. Inv => ExpiryHasDelegate
  BY DEF Inv
<1> QED
  BY <1>1, InvHolds, PTL

\* A package collected through a claim path has no delegate, now or later.
THEOREM NoDelegateAfterClaim == Spec => []ClaimEndsDelegation
<1>1. Inv => ClaimEndsDelegation
  BY DEF Inv
<1> QED
  BY <1>1, InvHolds, PTL

-----------------------------------------------------------------------------
(* What a call may do to the money and to the clocks, for the promises     *)
(* about single calls.                                                     *)

PaysFor(id, k) ==
    /\ id \in DOMAIN pkg
    /\ ~CampaignPaused(id)
    /\ PayOut(id, k)
    /\ k = "claim" => CooldownPassed(pkg[id].recipient)

PaymentShape ==
    \/ UNCHANGED payouts /\ \A t \in Tokens : balance'[t] >= balance[t]
    \/ UNCHANGED payouts /\ ExecuteSurplusWithdrawal
    \/ \E id \in Ids, k \in PayoutKinds : PaysFor(id, k)

\* Money leaves for a package of a campaign that is not paused, or as a
\* withdrawal.
LEMMA StepPaymentShape ==
    ASSUME EscrowAssumption, TypeOK, [Next]_vars
    PROVE  PaymentShape
<1>0. balance \in [Tokens -> Nat] /\ Amounts \subseteq Int
  BY DEF TypeOK, MoneyTyped, EscrowAssumption
<1>1. CASE UNCHANGED <<balance, payouts>>
  BY <1>0, <1>1 DEF PaymentShape
<1>2. CASE \E t \in Tokens, a \in Amounts : Fund(t, a)
  BY <1>0, <1>2 DEF Fund, PaymentShape
<1>3. CASE Create \/ Sweep \/ Delegation \/ Configure \/ Tick \/ UNCHANGED vars
  <2>1. CASE Create
    BY <1>1, <2>1 DEF Create, CreatePackage, BatchCreateItem
  <2>2. CASE Sweep
    BY <1>1, <2>2 DEF Sweep, SweepPackage, Release
  <2>3. CASE Delegation
    BY <1>1, <2>3 DEF Delegation, SetDelegate, SetDelegateWithExpiry, RevokeDelegate,
       SweepDelegate, poolVars
  <2>4. CASE Configure
    BY <1>1, <2>4 DEF Configure, SetConfig, AddAllowedToken, RemoveAllowedToken, SetAllowed,
       Pause, Unpause, SetPaused, PauseCampaign, UnpauseCampaign, SetCampaignPaused, poolVars
  <2>5. CASE Tick \/ UNCHANGED vars
    BY <1>1, <2>5 DEF Tick, vars, poolVars
  <2> QED
    BY <1>3, <2>1, <2>2, <2>3, <2>4, <2>5
<1>4. CASE Withdraw
  BY <1>1, <1>4 DEF Withdraw, ProposeSurplusWithdrawal, CancelSurplusWithdrawal,
     ExecuteSurplusWithdrawal, poolVars, PaymentShape
<1>5. CASE Collect
  <2>1. PICK id \in Ids : Claimable(id) /\ FinalizeClaim(id)
    BY <1>5 DEF Collect, Claim, ClaimWithProof, ClaimWithRelayer, BatchClaimItem
  <2>2. PaysFor(id, "claim")
    BY <2>1 DEF Claimable, Active, FinalizeClaim, PaysFor
  <2> QED
    BY <2>2 DEF PaymentShape, PayoutKinds
<1>6. CASE Administer
  <2>1. PICK id \in Ids :
          \/ Disburse(id) \/ Revoke(id) \/ CancelPackage(id) \/ Refund(id)
          \/ AttachEvidenceHash(id)
          \/ \E r \in Addrs : ReassignPackage(id, r)
          \/ \E e \in Times : ExtendExpiry(id, e)
    BY <1>6 DEF Administer
  <2>2. CASE Disburse(id)
    <3>1. PaysFor(id, "disburse")
      BY <2>2 DEF Disburse, Active, PaysFor
    <3> QED
      BY <3>1 DEF PaymentShape, PayoutKinds
  <2>3. CASE Refund(id)
    <3>1. PaysFor(id, "refundOfLocked") \/ PaysFor(id, "refundOfUnlocked")
      BY <2>3 DEF Refund, Refundable, PaysFor
    <3> QED
      BY <3>1 DEF PaymentShape, PayoutKinds
  <2>4. CASE Revoke(id) \/ CancelPackage(id)
    BY <1>1, <2>4 DEF Revoke, CancelPackage, Release
  <2>5. CASE \/ AttachEvidenceHash(id)
             \/ \E r \in Addrs : ReassignPackage(id, r)
             \/ \E e \in Times : ExtendExpiry(id, e)
    BY <1>1, <2>5 DEF AttachEvidenceHash, ReassignPackage, ExtendExpiry, poolVars
  <2> QED
    BY <2>1, <2>2, <2>3, <2>4, <2>5
<1> QED
  BY <1>2, <1>3, <1>4, <1>5, <1>6 DEF Next

\* A pause stops every payment: the seven entry points that pay ask for it,
\* each in its own way (is_paused, is_campaign_paused).
THEOREM PauseStopsPayments == Spec => PauseHoldsFunds
<1>1. Inv /\ [Next]_vars =>
        [/\ "all" \in paused => \A t \in Tokens : balance'[t] >= balance[t]
         /\ \A id \in DOMAIN pkg :
              pkg[id].campaign \in campaignPaused => payouts'[id] = payouts[id]]_vars
  <2> SUFFICES ASSUME Inv, [Next]_vars
               PROVE  /\ "all" \in paused => \A t \in Tokens : balance'[t] >= balance[t]
                      /\ \A id \in DOMAIN pkg :
                           pkg[id].campaign \in campaignPaused => payouts'[id] = payouts[id]
    OBVIOUS
  <2>1. PaymentShape /\ TypeOK
    BY EscrowAssumption, StepPaymentShape DEF Inv
  <2>2. CASE UNCHANGED payouts /\ \A t \in Tokens : balance'[t] >= balance[t]
    BY <2>2
  <2>3. CASE UNCHANGED payouts /\ ExecuteSurplusWithdrawal
    BY <2>3 DEF ExecuteSurplusWithdrawal, ActionPaused
  <2>4. ASSUME NEW id \in Ids, NEW k \in PayoutKinds, PaysFor(id, k)
        PROVE  /\ "all" \notin paused
               /\ \A i \in DOMAIN pkg :
                    pkg[i].campaign \in campaignPaused => payouts'[i] = payouts[i]
    <3>1. "all" \notin paused /\ pkg[id].campaign \notin campaignPaused
      BY <2>4 DEF PaysFor, CampaignPaused
    <3>2. \A i \in DOMAIN pkg \ {id} : payouts'[i] = payouts[i]
      BY <2>1, <2>4 DEF PaysFor, PayOut, TypeOK, PackagesTyped
    <3> QED
      BY <3>1, <3>2
  <2> QED
    BY <2>1, <2>2, <2>3, <2>4 DEF PaymentShape
<1> QED
  BY <1>1, InvHolds, PTL DEF Spec, PauseHoldsFunds

\* No recipient has collected in the future.
ClaimsArePast == \A a \in Addrs : lastClaim[a] <= now

\* Only a claim writes the time of a recipient's last claim, and time goes on.
LEMMA StepClaimClock ==
    ASSUME EscrowAssumption, TypeOK, [Next]_vars
    PROVE  /\ \/ lastClaim' = lastClaim
              \/ \E a \in Addrs : lastClaim' = [lastClaim EXCEPT ![a] = now]
           /\ now' >= now
<1>0. now \in Nat
  BY DEF TypeOK, AdminTyped
<1>1. CASE UNCHANGED <<now, lastClaim>>
  BY <1>0, <1>1
<1>2. CASE Create \/ Sweep \/ Delegation \/ Withdraw \/ UNCHANGED vars
           \/ (\E t \in Tokens, a \in Amounts : Fund(t, a))
  <2>1. CASE Create
    BY <1>1, <2>1 DEF Create, CreatePackage, BatchCreateItem
  <2>2. CASE Sweep
    BY <1>1, <2>2 DEF Sweep, SweepPackage, Release
  <2>3. CASE Delegation
    BY <1>1, <2>3 DEF Delegation, SetDelegate, SetDelegateWithExpiry, RevokeDelegate,
       SweepDelegate
  <2>4. CASE Withdraw
    BY <1>1, <2>4 DEF Withdraw, ProposeSurplusWithdrawal, CancelSurplusWithdrawal,
       ExecuteSurplusWithdrawal
  <2>5. CASE UNCHANGED vars \/ (\E t \in Tokens, a \in Amounts : Fund(t, a))
    BY <1>1, <2>5 DEF vars, Fund
  <2> QED
    BY <1>2, <2>1, <2>2, <2>3, <2>4, <2>5
<1>3. CASE Configure
  BY <1>1, <1>3 DEF Configure, SetConfig, AddAllowedToken, RemoveAllowedToken, SetAllowed,
     Pause, Unpause, SetPaused, PauseCampaign, UnpauseCampaign, SetCampaignPaused
<1>4. CASE Tick
  BY <1>0, <1>4 DEF Tick
<1>5. CASE Collect
  <2>1. PICK id \in Ids : Claimable(id) /\ FinalizeClaim(id)
    BY <1>5 DEF Collect, Claim, ClaimWithProof, ClaimWithRelayer, BatchClaimItem
  <2>2. PICK a \in Addrs : a = pkg[id].recipient
    BY <2>1 DEF Claimable, Active, TypeOK, PackagesTyped, Package
  <2>3. lastClaim' = [lastClaim EXCEPT ![a] = now] /\ now' = now
    BY <2>1, <2>2 DEF FinalizeClaim
  <2>4. now' >= now
    BY <1>0, <2>3
  <2> QED
    BY <2>3, <2>4, Zenon
<1>6. CASE Administer
  BY <1>1, <1>6 DEF Administer, Disburse, Revoke, CancelPackage, Refund, AttachEvidenceHash,
     ReassignPackage, ExtendExpiry, Release
<1> QED
  BY <1>2, <1>3, <1>4, <1>5, <1>6 DEF Next

LEMMA ClaimsStayPast == Spec => [](Inv /\ ClaimsArePast)
<1>1. Init => ClaimsArePast
  <2>1. Init => now = 1 /\ lastClaim = [a \in Addrs |-> NeverClaimed]
    BY DEF Init
  <2>2. NeverClaimed <= 1
    BY DEF NeverClaimed
  <2> QED
    BY <2>1, <2>2 DEF ClaimsArePast
<1>2. Inv /\ ClaimsArePast /\ [Next]_vars => ClaimsArePast'
  <2> SUFFICES ASSUME Inv, ClaimsArePast, [Next]_vars PROVE ClaimsArePast'
    OBVIOUS
  <2>1. /\ lastClaim \in [Addrs -> Nat \cup {NeverClaimed}] /\ NeverClaimed = -1
        /\ now \in Nat /\ now' \in Nat
    BY EscrowAssumption, StepInv DEF Inv, TypeOK, PeopleTyped, AdminTyped, NeverClaimed
  <2>2. /\ \/ lastClaim' = lastClaim
           \/ \E a \in Addrs : lastClaim' = [lastClaim EXCEPT ![a] = now]
        /\ now' >= now
    BY EscrowAssumption, StepClaimClock DEF Inv
  <2> QED
    BY <2>1, <2>2 DEF ClaimsArePast
<1> QED
  BY <1>1, <1>2, InvHolds, PTL DEF Spec

\* Whoever collects and by whichever path, a recipient's claims keep the
\* cooldown (finalize_claim).
THEOREM ClaimsAreSpaced == Spec => CooldownSpaced
<1>1. Inv /\ ClaimsArePast /\ [Next]_vars =>
        [\A id \in DOMAIN pkg :
            /\ payouts'[id] = Append(payouts[id], "claim")
            /\ lastClaim[pkg[id].recipient] # NeverClaimed
            => now - lastClaim[pkg[id].recipient] >= config.cooldown]_vars
  <2> SUFFICES ASSUME Inv, ClaimsArePast, [Next]_vars,
                      NEW id \in DOMAIN pkg, payouts'[id] = Append(payouts[id], "claim"),
                      lastClaim[pkg[id].recipient] # NeverClaimed
               PROVE  now - lastClaim[pkg[id].recipient] >= config.cooldown
    OBVIOUS
  <2>1. TypeOK /\ PaymentShape
    BY EscrowAssumption, StepPaymentShape DEF Inv
  <2>2. /\ id \in Ids /\ payouts[id] \in Seq(PayoutKinds) /\ payouts \in [Ids -> Seq(PayoutKinds)]
        /\ pkg[id].recipient \in Addrs
    BY <2>1 DEF TypeOK, PackagesTyped, Package
  <2>3. payouts'[id] # payouts[id]
    <3>1. Len(Append(payouts[id], "claim")) = Len(payouts[id]) + 1 /\ Len(payouts[id]) \in Nat
      BY <2>2
    <3> QED
      BY <3>1
  <2>4. PICK i \in Ids, k \in PayoutKinds : PaysFor(i, k)
    BY <2>1, <2>3 DEF PaymentShape
  <2>5. i = id /\ payouts'[id] = Append(payouts[id], k)
    BY <2>2, <2>3, <2>4 DEF PaysFor, PayOut
  <2>6. k = "claim"
    <3>1. \A s \in Seq(PayoutKinds), x \in PayoutKinds : Append(s, x)[Len(s) + 1] = x
      OBVIOUS
    <3> QED
      BY <2>2, <2>5, <3>1 DEF PayoutKinds
  <2>7. CooldownPassed(pkg[id].recipient)
    BY <2>4, <2>5, <2>6 DEF PaysFor
  <2>8. /\ lastClaim[pkg[id].recipient] \in Nat /\ lastClaim[pkg[id].recipient] <= now
        /\ now \in Nat /\ config.cooldown \in Nat
    BY <2>1, <2>2 DEF TypeOK, PeopleTyped, AdminTyped, Config, ClaimsArePast
  <2> QED
    BY <2>7, <2>8 DEF CooldownPassed
<1> QED
  BY <1>1, ClaimsStayPast, PTL DEF Spec, CooldownSpaced

\* A withdrawal waits for its delay and leaves the locked total covered
\* (execute_surplus_withdrawal measures the surplus again).
THEOREM WithdrawalsAreSafe == Spec => WithdrawalSafe
<1>1. Inv /\ [Next]_vars =>
        [pending # None /\ pending' = None /\ balance' # balance =>
            /\ now >= pending.executableAt
            /\ balance'[pending.token] >= totalLocked'[pending.token]]_vars
  <2> SUFFICES ASSUME Inv, [Next]_vars, pending # None, pending' = None, balance' # balance
               PROVE  /\ now >= pending.executableAt
                      /\ balance'[pending.token] >= totalLocked'[pending.token]
    OBVIOUS
  <2>1. ExecuteSurplusWithdrawal
    <3>1. CASE Withdraw
      BY <3>1 DEF Withdraw, ProposeSurplusWithdrawal, CancelSurplusWithdrawal, poolVars
    <3>2. CASE Collect
      BY <3>2 DEF Collect, Claim, ClaimWithProof, ClaimWithRelayer, BatchClaimItem, FinalizeClaim
    <3>3. CASE Administer
      BY <3>3 DEF Administer, Disburse, Revoke, CancelPackage, Refund, AttachEvidenceHash,
         ReassignPackage, ExtendExpiry, Release
    <3>4. CASE Create \/ Sweep \/ Delegation
      BY <3>4 DEF Create, CreatePackage, BatchCreateItem, Sweep, SweepPackage, Release,
         Delegation, SetDelegate, SetDelegateWithExpiry, RevokeDelegate, SweepDelegate
    <3>5. CASE Configure
      BY <3>5 DEF Configure, SetConfig, AddAllowedToken, RemoveAllowedToken, SetAllowed,
         Pause, Unpause, SetPaused, PauseCampaign, UnpauseCampaign, SetCampaignPaused
    <3>6. CASE Tick \/ UNCHANGED vars \/ (\E t \in Tokens, a \in Amounts : Fund(t, a))
      BY <3>6 DEF Tick, vars, Fund
    <3> QED
      BY <3>1, <3>2, <3>3, <3>4, <3>5, <3>6 DEF Next
  <2>2. /\ pending \in PendingWithdrawal /\ balance \in [Tokens -> Nat]
        /\ totalLocked \in [Tokens -> Nat]
    BY DEF Inv, TypeOK, MoneyTyped
  <2>3. /\ pending.token \in Tokens /\ pending.amount \in Nat
    BY <2>2 DEF PendingWithdrawal
  <2> QED
    BY <2>1, <2>2, <2>3 DEF ExecuteSurplusWithdrawal, StillSurplus, Surplus
<1> QED
  BY <1>1, InvHolds, PTL DEF Spec, WithdrawalSafe

-----------------------------------------------------------------------------
(* The refinement.  Each kind of step is a step of the lifecycle of one    *)
(* package, or leaves every package where it was.                          *)

\* Stages and terms of the packages a step leaves alone.
LEMMA OthersStand ==
    ASSUME PackagesTyped, NEW id \in Ids,
           DOMAIN pkg' \in {DOMAIN pkg, DOMAIN pkg \cup {id}},
           \A i \in DOMAIN pkg \ {id} : pkg'[i] = pkg[i]
    PROVE  \A i \in Ids \ {id} : StageOf(i)' = StageOf(i) /\ TermsOf(i)' = TermsOf(i)
<1> TAKE i \in Ids \ {id}
<1>1. i \in DOMAIN pkg' <=> i \in DOMAIN pkg
  OBVIOUS
<1>2. i \in DOMAIN pkg => pkg'[i] = pkg[i]
  OBVIOUS
<1>3. StageOf(i)' = StageOf(i)
  BY <1>1, <1>2 DEF StageOf
<1>4. TermsOf(i)' = TermsOf(i)
  BY <1>1, <1>2 DEF TermsOf
<1> QED
  BY <1>3, <1>4

\* A change of status moves the stage of one package and keeps all the terms.
LEMMA MovesStage ==
    ASSUME PackagesTyped, NEW id \in Ids, NEW from, NEW to \in PackageStatus,
           Moves(id, from, to)
    PROVE  /\ pkg'[id].status = to
           /\ DOMAIN pkg' = DOMAIN pkg
           /\ TermsOf(id)' = TermsOf(id)
           /\ \A i \in Ids \ {id} : StageOf(i)' = StageOf(i) /\ TermsOf(i)' = TermsOf(i)
<1>1. /\ id \in DOMAIN pkg
      /\ pkg[id] \in Package
      /\ pkg' = [pkg EXCEPT ![id].status = to]
  BY PackageFields DEF Moves, SetStatus
<1>2. /\ DOMAIN pkg' = DOMAIN pkg
      /\ pkg'[id].status = to
      /\ pkg'[id].amount = pkg[id].amount
      /\ pkg'[id].token = pkg[id].token
      /\ pkg'[id].startsAt = pkg[id].startsAt
      /\ pkg'[id].campaign = pkg[id].campaign
      /\ pkg'[id].root = pkg[id].root
      /\ \A i \in DOMAIN pkg \ {id} : pkg'[i] = pkg[i]
  BY <1>1 DEF PackagesTyped, Package
<1>3. TermsOf(id)' = TermsOf(id)
  BY <1>1, <1>2 DEF TermsOf
<1>4. \A i \in Ids \ {id} : StageOf(i)' = StageOf(i) /\ TermsOf(i)' = TermsOf(i)
  BY <1>2, OthersStand
<1> QED
  BY <1>2, <1>3, <1>4

\* A payout adds one payment to one package, and none to any other.
LEMMA PaysOnce ==
    ASSUME PackagesTyped, NEW id \in Ids, Paid(id)
    PROVE  [i \in Ids |-> Len(payouts[i])]' =
                [[i \in Ids |-> Len(payouts[i])] EXCEPT ![id] = @ + 1]
<1>1. PICK k \in PayoutKinds : payouts' = [payouts EXCEPT ![id] = Append(@, k)]
  BY DEF Paid
<1>2. Len(payouts'[id]) = Len(payouts[id]) + 1
  BY <1>1 DEF PackagesTyped
<1>3. \A i \in Ids \ {id} : payouts'[i] = payouts[i]
  BY <1>1 DEF PackagesTyped
<1> QED
  BY <1>2, <1>3

\* Every call of the contract is one step of the lifecycle for one package,
\* or no step of it at all.
LEMMA StepRefines ==
    ASSUME PackagesTyped, Shape
    PROVE  [Lifecycle!LifecycleNext]_(Lifecycle!abstractVars)
<1> USE DEF Lifecycle!LifecycleNext
<1>1. ASSUME \A i \in Ids : StageOf(i)' = StageOf(i) /\ TermsOf(i)' = TermsOf(i),
             UNCHANGED payouts
      PROVE  UNCHANGED Lifecycle!abstractVars
  BY <1>1 DEF Lifecycle!abstractVars
<1>2. CASE Stands
  BY <1>1, <1>2 DEF Stands, StageOf, TermsOf
<1>3. ASSUME NEW id \in Ids, Opens(id)
      PROVE  Lifecycle!Offer(id)
  <2>1. PICK p \in Package : p.status = "Created" /\ StorePackage(id, p)
    BY <1>3 DEF Opens
  <2>2. id \notin DOMAIN pkg /\ payouts' = payouts
    BY <1>3 DEF Opens
  <2>3. /\ DOMAIN pkg' = DOMAIN pkg \cup {id}
        /\ pkg'[id] = p
        /\ \A i \in DOMAIN pkg \ {id} : pkg'[i] = pkg[i]
    BY <2>1 DEF StorePackage
  <2>4. /\ StageOf(id) = "none" /\ StageOf(id)' = "open"
        /\ TermsOf(id)' = <<p.amount, p.token, p.startsAt, p.campaign, p.root>>
    BY <2>1, <2>2, <2>3 DEF StageOf, TermsOf
  <2>5. \A i \in Ids \ {id} : StageOf(i)' = StageOf(i) /\ TermsOf(i)' = TermsOf(i)
    BY <2>3, OthersStand
  <2>6. TermsOf(id)' # <<>>
    BY <2>4
  <2> QED
    BY <2>2, <2>4, <2>5, <2>6 DEF Lifecycle!Offer, Lifecycle!Move
<1>4. ASSUME NEW id \in Ids, Settles(id)
      PROVE  Lifecycle!Settle(id)
  <2>1. Moves(id, {"Created"}, "Claimed") /\ Paid(id)
    BY <1>4 DEF Settles
  <2>2. StageOf(id) = "open" /\ StageOf(id)' = "settled"
    BY <2>1, MovesStage DEF Moves, StageOf, PackageStatus
  <2>3. /\ TermsOf(id)' = TermsOf(id)
        /\ \A i \in Ids \ {id} : StageOf(i)' = StageOf(i) /\ TermsOf(i)' = TermsOf(i)
    BY <2>1, MovesStage DEF PackageStatus
  <2> QED
    BY <2>1, <2>2, <2>3, PaysOnce DEF Lifecycle!Settle, Lifecycle!Move, Lifecycle!Pay
<1>5. ASSUME NEW id \in Ids, NEW s \in {"Expired", "Cancelled"}, Voids(id, s)
      PROVE  Lifecycle!Void(id)
  <2>1. Moves(id, {"Created"}, s) /\ payouts' = payouts
    BY <1>5 DEF Voids
  <2>2. StageOf(id) = "open" /\ StageOf(id)' = "void"
    BY <2>1, MovesStage DEF Moves, StageOf, PackageStatus
  <2>3. /\ TermsOf(id)' = TermsOf(id)
        /\ \A i \in Ids \ {id} : StageOf(i)' = StageOf(i) /\ TermsOf(i)' = TermsOf(i)
    BY <2>1, MovesStage DEF PackageStatus
  <2> QED
    BY <2>1, <2>2, <2>3 DEF Lifecycle!Void, Lifecycle!Move
<1>6. ASSUME NEW id \in Ids, Returns(id)
      PROVE  Lifecycle!Return(id)
  <2>1. Moves(id, {"Created", "Expired", "Cancelled"}, "Refunded") /\ Paid(id)
    BY <1>6 DEF Returns
  <2>2. StageOf(id) \in {"open", "void"} /\ StageOf(id)' = "returned"
    BY <2>1, MovesStage DEF Moves, StageOf, PackageStatus
  <2>3. /\ TermsOf(id)' = TermsOf(id)
        /\ \A i \in Ids \ {id} : StageOf(i)' = StageOf(i) /\ TermsOf(i)' = TermsOf(i)
    BY <2>1, MovesStage DEF PackageStatus
  <2> QED
    BY <2>1, <2>2, <2>3, PaysOnce DEF Lifecycle!Return, Lifecycle!Move, Lifecycle!Pay
<1>7. ASSUME NEW id \in Ids, Amends(id)
      PROVE  UNCHANGED Lifecycle!abstractVars
  <2>1. PICK p \in Package :
          /\ pkg' = [pkg EXCEPT ![id] = p]
          /\ p.status = pkg[id].status /\ p.amount = pkg[id].amount /\ p.token = pkg[id].token
          /\ p.startsAt = pkg[id].startsAt /\ p.campaign = pkg[id].campaign
          /\ p.root = pkg[id].root
    BY <1>7 DEF Amends
  <2>2. id \in DOMAIN pkg /\ payouts' = payouts
    BY <1>7 DEF Amends
  <2>3. /\ DOMAIN pkg' = DOMAIN pkg
        /\ pkg'[id] = p
        /\ \A i \in DOMAIN pkg \ {id} : pkg'[i] = pkg[i]
    BY <2>1, <2>2 DEF PackagesTyped
  <2>4. StageOf(id)' = StageOf(id) /\ TermsOf(id)' = TermsOf(id)
    BY <2>1, <2>2, <2>3 DEF StageOf, TermsOf
  <2>5. \A i \in Ids \ {id} : StageOf(i)' = StageOf(i) /\ TermsOf(i)' = TermsOf(i)
    BY <2>3, OthersStand
  <2> QED
    BY <1>1, <2>2, <2>4, <2>5
<1> QED
  BY <1>2, <1>3, <1>4, <1>5, <1>6, <1>7 DEF Shape

\* The contract, with its ten ways of ending a package, implements the
\* lifecycle: one offer, fixed terms, at most one payment.
THEOREM RefinesLifecycle == Spec => ImplementsLifecycle
<1>1. Init => Lifecycle!LifecycleInit
  <2>1. ASSUME Init
        PROVE  DOMAIN pkg = {} /\ \A id \in Ids : Len(payouts[id]) = 0
    BY <2>1 DEF Init
  <2> QED
    BY <2>1 DEF Lifecycle!LifecycleInit, StageOf, TermsOf
<1>2. Inv /\ [Next]_vars => [Lifecycle!LifecycleNext]_(Lifecycle!abstractVars)
  BY EscrowAssumption, StepShape, StepRefines DEF Inv, TypeOK
<1> QED
  BY <1>1, <1>2, InvHolds, PTL DEF Spec, ImplementsLifecycle, Lifecycle!LifecycleSpec

-----------------------------------------------------------------------------
(* Sums of amounts, of the packages P. *)

AmountsAdding(P, S) ==
    CHOOSE g :
        g = [s \in SUBSET S |-> IF s = {} THEN 0 ELSE P[Pick(s)].amount + g[s \ {Pick(s)}]]

Amounted(P) == [i \in DOMAIN P |-> P[i].amount]

SumOf(P, S) == Total(Amounted(P), S)

\* The sums the contract's module writes are these.
LEMMA AmountsAddUp ==
    ASSUME NEW P, NEW S \in SUBSET DOMAIN P, IsFiniteSet(S)
    PROVE  AmountsAdding(P, S)[S] = SumOf(P, S)
<1> DEFINE f == Amounted(P)
           Sums(g) == g = [s \in SUBSET S |->
                             IF s = {} THEN 0 ELSE P[Pick(s)].amount + g[s \ {Pick(s)}]]
<1>1. \A s \in SUBSET S : s # {} => f[Pick(s)] = P[Pick(s)].amount
  BY PickIsIn DEF Amounted
<1> HIDE DEF f
<1>2. \A g : Sums(g) <=> Adds(g, f, S)
  BY <1>1 DEF Adds
<1>3. Adds(Adding(f, S), f, S)
  BY AddsExists
<1>4. Sums(AmountsAdding(P, S))
  BY <1>2, <1>3 DEF AmountsAdding
<1>5. PICK h : h = AmountsAdding(P, S)
  OBVIOUS
<1>6. Adds(h, f, S)
  BY <1>2, <1>4, <1>5
<1>7. h[S] = Adding(f, S)[S]
  BY <1>3, <1>6, AddsUnique
<1> QED
  BY <1>5, <1>7 DEF f, SumOf, Total

\* S of the packages P and T of the packages R differ in id at most.
Alike(P, S, R, T, id) ==
    /\ S \subseteq DOMAIN P /\ T \subseteq DOMAIN R
    /\ IsFiniteSet(S)
    /\ S \ {id} = T \ {id}
    /\ \A i \in S : P[i].amount \in Nat
    /\ \A i \in T : R[i].amount \in Nat
    /\ \A i \in S \ {id} : P[i].amount = R[i].amount

\* What a sum of amounts is worth after one package joined, left or changed.
LEMMA SumMoves ==
    ASSUME NEW P, NEW R, NEW S, NEW T, NEW id, Alike(P, S, R, T, id)
    PROVE  /\ SumOf(P, S) \in Nat /\ SumOf(R, T) \in Nat
           /\ SumOf(R, T) + (IF id \in S THEN P[id].amount ELSE 0)
                = SumOf(P, S) + (IF id \in T THEN R[id].amount ELSE 0)
<1>0. /\ S \subseteq DOMAIN P /\ T \subseteq DOMAIN R
      /\ IsFiniteSet(S)
      /\ S \ {id} = T \ {id}
      /\ \A i \in S : P[i].amount \in Nat
      /\ \A i \in T : R[i].amount \in Nat
      /\ \A i \in S \ {id} : P[i].amount = R[i].amount
  BY DEF Alike
<1> DEFINE f == Amounted(P)
           g == Amounted(R)
<1>1. /\ \A i \in S : f[i] = P[i].amount /\ f[i] \in Int /\ f[i] >= 0
      /\ \A i \in T : g[i] = R[i].amount /\ g[i] \in Int /\ g[i] >= 0
  BY <1>0 DEF Amounted
<1> HIDE DEF f, g
<1>2. PICK U : U = S \ {id}
  OBVIOUS
<1>3. IsFiniteSet(U) /\ IsFiniteSet(T) /\ U \subseteq S /\ U \subseteq T
  <2>1. IsFiniteSet(U)
    BY <1>0, <1>2, FS_Subset
  <2>2. T = U \/ T = U \cup {id}
    BY <1>0, <1>2
  <2>3. IsFiniteSet(U \cup {id})
    BY <2>1, FS_AddElement
  <2> QED
    BY <1>2, <2>1, <2>2, <2>3
<1>4. Total(f, U) = Total(g, U)
  <2>1. \A i \in U : f[i] = g[i]
    BY <1>0, <1>1, <1>2, <1>3
  <2> QED
    BY <1>3, <2>1, TotalSame
<1>5. Total(f, U) \in Int /\ Total(f, U) >= 0
  BY <1>1, <1>3, TotalType
<1>6. IF id \in S THEN Total(f, S) = f[id] + Total(f, U) ELSE Total(f, S) = Total(f, U)
  <2>1. CASE id \in S
    BY <1>0, <1>1, <1>2, <2>1, TotalSplit
  <2>2. CASE id \notin S
    <3>1. U = S
      BY <1>2, <2>2
    <3> QED
      BY <2>2, <3>1
  <2> QED
    BY <2>1, <2>2
<1>7. IF id \in T THEN Total(g, T) = g[id] + Total(g, U) ELSE Total(g, T) = Total(g, U)
  <2>0. U = T \ {id}
    BY <1>0, <1>2
  <2>1. CASE id \in T
    BY <1>1, <1>3, <2>0, <2>1, TotalSplit
  <2>2. CASE id \notin T
    <3>1. U = T
      BY <2>0, <2>2
    <3> QED
      BY <2>2, <3>1
  <2> QED
    BY <2>1, <2>2
<1>8. PICK u \in Nat : u = Total(f, U)
  BY <1>5
<1>9. /\ SumOf(P, S) = IF id \in S THEN P[id].amount + u ELSE u
      /\ SumOf(R, T) = IF id \in T THEN R[id].amount + u ELSE u
  BY <1>1, <1>4, <1>6, <1>7, <1>8 DEF SumOf, f, g
<1>10. (id \in S => P[id].amount \in Nat) /\ (id \in T => R[id].amount \in Nat)
  BY <1>0
<1> QED
  BY <1>9, <1>10

-----------------------------------------------------------------------------
(* The packages P of a scope K, by status and by what was paid last out of *)
(* the history Y.                                                          *)

In(K, p) == <<p.token, p.campaign>> \in K

StatusIn(K, P, s) == {i \in DOMAIN P : In(K, P[i]) /\ P[i].status = s}

PaidIn(K, P, Y, s, k) == {i \in StatusIn(K, P, s) : Y[i][Len(Y[i])] = k}

Open(K, P) == SumOf(P, StatusIn(K, P, "Created"))

Claimed(K, P) == SumOf(P, StatusIn(K, P, "Claimed"))

Collected(K, P, Y) == SumOf(P, PaidIn(K, P, Y, "Claimed", "claim"))

Disbursed(K, P, Y) == SumOf(P, PaidIn(K, P, Y, "Claimed", "disburse"))

Doubled(K, P, Y) == SumOf(P, PaidIn(K, P, Y, "Refunded", "refundOfUnlocked"))

-----------------------------------------------------------------------------
(* What a call does to one package, told by what the totals depend on. *)

Touches(id) ==
    /\ DOMAIN pkg' = DOMAIN pkg \cup {id}
    /\ \A i \in DOMAIN pkg \ {id} : pkg'[i] = pkg[i] /\ payouts'[i] = payouts[i]
    /\ id \in DOMAIN pkg => /\ pkg'[id].amount = pkg[id].amount
                            /\ pkg'[id].token = pkg[id].token
                            /\ pkg'[id].campaign = pkg[id].campaign

Begins(id) == Touches(id) /\ id \notin DOMAIN pkg /\ pkg'[id].status = "Created"

Turns(id, from, to) ==
    /\ Touches(id)
    /\ id \in DOMAIN pkg
    /\ pkg[id].status \in from
    /\ pkg'[id].status = to

PaysLast(id, k) == payouts'[id][Len(payouts'[id])] = k

Collects(id) == Turns(id, {"Created"}, "Claimed") /\ PaysLast(id, "claim")

Disburses(id) == Turns(id, {"Created"}, "Claimed") /\ PaysLast(id, "disburse")

Frees(id) == \E s \in {"Expired", "Cancelled"} : Turns(id, {"Created"}, s)

Repays(id) == Turns(id, {"Created"}, "Refunded") /\ PaysLast(id, "refundOfLocked")

Doubles(id) ==
    Turns(id, {"Expired", "Cancelled"}, "Refunded") /\ PaysLast(id, "refundOfUnlocked")

Keeps(id) == Turns(id, {pkg[id].status}, pkg[id].status) /\ payouts'[id] = payouts[id]

\* The amount a package has, if the scope has the package.
Weight(K, id) == IF In(K, pkg'[id]) THEN pkg'[id].amount ELSE 0

Had(id, s) == id \in DOMAIN pkg /\ pkg[id].status = s

HadPaid(id, k) == payouts[id][Len(payouts[id])] = k

\* A sum that was x and is y, of the packages with some property: the package
\* had the property, has it.
Follows(K, id, x, y, had, has) ==
    /\ x \in Nat /\ y \in Nat
    /\ y + (IF had THEN Weight(K, id) ELSE 0) = x + (IF has THEN Weight(K, id) ELSE 0)

\* Every sum follows the package that the call touches.
LEMMA SumsFollow ==
    ASSUME PackagesTyped, PackagesTyped', IsFiniteSet(DOMAIN pkg), NEW id, Touches(id), NEW K
    PROVE  /\ \A s : Follows(K, id, SumOf(pkg, StatusIn(K, pkg, s)),
                             SumOf(pkg', StatusIn(K, pkg', s)),
                             Had(id, s), pkg'[id].status = s)
           /\ \A s, k : Follows(K, id, SumOf(pkg, PaidIn(K, pkg, payouts, s, k)),
                                SumOf(pkg', PaidIn(K, pkg', payouts', s, k)),
                                Had(id, s) /\ HadPaid(id, k),
                                pkg'[id].status = s /\ PaysLast(id, k))
<1>1. /\ \A i \in DOMAIN pkg : pkg[i].amount \in Nat
      /\ \A i \in DOMAIN pkg' : pkg'[i].amount \in Nat
  BY DEF PackagesTyped, Package
<1>2. PICK P, R : P = pkg /\ R = pkg'
  OBVIOUS
<1>3. ASSUME NEW S \in SUBSET DOMAIN P, NEW T \in SUBSET DOMAIN R, S \ {id} = T \ {id},
             NEW had \in BOOLEAN, NEW has \in BOOLEAN,
             id \in S <=> had /\ In(K, R[id]), id \in T <=> has /\ In(K, R[id])
      PROVE  Follows(K, id, SumOf(P, S), SumOf(R, T), had, has)
  <2>1. IsFiniteSet(S)
    BY <1>2, FS_Subset
  <2>2. \A i \in S \ {id} : P[i].amount = R[i].amount
    BY <1>2 DEF Touches
  <2>3. (\A i \in S : P[i].amount \in Nat) /\ (\A i \in T : R[i].amount \in Nat)
    BY <1>1, <1>2
  <2>a. Alike(P, S, R, T, id)
    BY <1>3, <2>1, <2>2, <2>3 DEF Alike
  <2>4. /\ SumOf(P, S) \in Nat /\ SumOf(R, T) \in Nat
        /\ SumOf(R, T) + (IF id \in S THEN P[id].amount ELSE 0)
             = SumOf(P, S) + (IF id \in T THEN R[id].amount ELSE 0)
    BY <2>a, SumMoves
  <2>5. id \in S => P[id].amount = R[id].amount
    BY <1>2 DEF Touches
  <2>6. Weight(K, id) = IF In(K, R[id]) THEN R[id].amount ELSE 0
    BY <1>2 DEF Weight
  <2>7. /\ (IF id \in S THEN P[id].amount ELSE 0) = IF had THEN Weight(K, id) ELSE 0
        /\ (IF id \in T THEN R[id].amount ELSE 0) = IF has THEN Weight(K, id) ELSE 0
    BY <1>3, <2>5, <2>6
  <2> QED
    BY <2>4, <2>7 DEF Follows
<1>4. \A s : /\ StatusIn(K, P, s) \in SUBSET DOMAIN P
             /\ StatusIn(K, R, s) \in SUBSET DOMAIN R
             /\ StatusIn(K, P, s) \ {id} = StatusIn(K, R, s) \ {id}
             /\ id \in StatusIn(K, P, s) <=> Had(id, s) /\ In(K, R[id])
             /\ id \in StatusIn(K, R, s) <=> R[id].status = s /\ In(K, R[id])
             /\ Had(id, s) \in BOOLEAN
  BY <1>2 DEF Touches, StatusIn, In, Had
<1>5. PICK Y, Z : Y = payouts /\ Z = payouts'
  OBVIOUS
<1>6. \A s, k : /\ PaidIn(K, P, Y, s, k) \in SUBSET DOMAIN P
                /\ PaidIn(K, R, Z, s, k) \in SUBSET DOMAIN R
                /\ PaidIn(K, P, Y, s, k) \ {id} = PaidIn(K, R, Z, s, k) \ {id}
                /\ id \in PaidIn(K, P, Y, s, k) <=>
                     (Had(id, s) /\ HadPaid(id, k)) /\ In(K, R[id])
                /\ id \in PaidIn(K, R, Z, s, k) <=>
                     (R[id].status = s /\ PaysLast(id, k)) /\ In(K, R[id])
  <2>1. \A i \in DOMAIN P \ {id} : Y[i] = Z[i]
    BY <1>2, <1>5 DEF Touches
  <2>2. \A s, k : /\ \A i : i \in PaidIn(K, P, Y, s, k) <=>
                              i \in StatusIn(K, P, s) /\ Y[i][Len(Y[i])] = k
                  /\ \A i : i \in PaidIn(K, R, Z, s, k) <=>
                              i \in StatusIn(K, R, s) /\ Z[i][Len(Z[i])] = k
    BY DEF PaidIn
  <2>3. \A k : /\ HadPaid(id, k) <=> Y[id][Len(Y[id])] = k
               /\ PaysLast(id, k) <=> Z[id][Len(Z[id])] = k
    BY <1>5 DEF HadPaid, PaysLast
  <2> QED
    BY <1>4, <2>1, <2>2, <2>3
<1>7. \A s : Follows(K, id, SumOf(P, StatusIn(K, P, s)), SumOf(R, StatusIn(K, R, s)),
                     Had(id, s), R[id].status = s)
  BY <1>3, <1>4
<1>8. \A s, k : Follows(K, id, SumOf(P, PaidIn(K, P, Y, s, k)), SumOf(R, PaidIn(K, R, Z, s, k)),
                        Had(id, s) /\ HadPaid(id, k), R[id].status = s /\ PaysLast(id, k))
  BY <1>3, <1>6
<1> QED
  BY <1>2, <1>5, <1>7, <1>8

SumsAreNat(K, P, Y) ==
    /\ Open(K, P) \in Nat /\ Claimed(K, P) \in Nat /\ Collected(K, P, Y) \in Nat
    /\ Disbursed(K, P, Y) \in Nat /\ Doubled(K, P, Y) \in Nat

\* The sums after the step less those before it.
SumsMoveBy(K, open, collected, disbursed, doubled) ==
    /\ Open(K, pkg') = Open(K, pkg) + open
    /\ Collected(K, pkg', payouts') = Collected(K, pkg, payouts) + collected
    /\ Disbursed(K, pkg', payouts') = Disbursed(K, pkg, payouts) + disbursed
    /\ Claimed(K, pkg') = Claimed(K, pkg) + (collected + disbursed)
    /\ Doubled(K, pkg', payouts') = Doubled(K, pkg, payouts) + doubled

\* How the sums move, kind by kind.
LEMMA SumsMove ==
    ASSUME PackagesTyped, PackagesTyped', IsFiniteSet(DOMAIN pkg), NEW id, Touches(id), NEW K,
           NEW w, w = Weight(K, id)
    PROVE  /\ SumsAreNat(K, pkg, payouts) /\ SumsAreNat(K, pkg', payouts') /\ w \in Nat
           /\ Begins(id) => SumsMoveBy(K, w, 0, 0, 0)
           /\ Collects(id) => SumsMoveBy(K, -w, w, 0, 0)
           /\ Disburses(id) => SumsMoveBy(K, -w, 0, w, 0)
           /\ Frees(id) \/ Repays(id) => SumsMoveBy(K, -w, 0, 0, 0)
           /\ Doubles(id) => SumsMoveBy(K, 0, 0, 0, w)
           /\ Keeps(id) => SumsMoveBy(K, 0, 0, 0, 0)
<1>0. id \in DOMAIN pkg' /\ pkg'[id].amount \in Nat
  BY DEF Touches, PackagesTyped, Package
<1>1. Weight(K, id) \in Nat
  BY <1>0 DEF Weight
<1>2. w \in Nat /\ w = Weight(K, id)
  BY <1>1
<1>3. \A s : /\ SumOf(pkg, StatusIn(K, pkg, s)) \in Nat
             /\ SumOf(pkg', StatusIn(K, pkg', s)) \in Nat
             /\ SumOf(pkg', StatusIn(K, pkg', s)) + (IF Had(id, s) THEN w ELSE 0)
                  = SumOf(pkg, StatusIn(K, pkg, s)) + (IF pkg'[id].status = s THEN w ELSE 0)
  BY <1>2, SumsFollow DEF Follows
<1>4. \A s, k : /\ SumOf(pkg, PaidIn(K, pkg, payouts, s, k)) \in Nat
                /\ SumOf(pkg', PaidIn(K, pkg', payouts', s, k)) \in Nat
                /\ SumOf(pkg', PaidIn(K, pkg', payouts', s, k))
                     + (IF Had(id, s) /\ HadPaid(id, k) THEN w ELSE 0)
                   = SumOf(pkg, PaidIn(K, pkg, payouts, s, k))
                     + (IF pkg'[id].status = s /\ PaysLast(id, k) THEN w ELSE 0)
  BY <1>2, SumsFollow DEF Follows
<1>5. SumsAreNat(K, pkg, payouts) /\ SumsAreNat(K, pkg', payouts')
  BY <1>3, <1>4 DEF SumsAreNat, Open, Claimed, Collected, Disbursed, Doubled
<1>6. PICK o, p, q, r \in Nat, c, d, e, f \in Nat, g, h \in Nat :
        /\ o = Open(K, pkg) /\ p = Open(K, pkg')
        /\ q = Claimed(K, pkg) /\ r = Claimed(K, pkg')
        /\ c = Collected(K, pkg, payouts) /\ d = Collected(K, pkg', payouts')
        /\ e = Disbursed(K, pkg, payouts) /\ f = Disbursed(K, pkg', payouts')
        /\ g = Doubled(K, pkg, payouts) /\ h = Doubled(K, pkg', payouts')
  BY <1>5 DEF SumsAreNat
<1>7. /\ p + (IF Had(id, "Created") THEN w ELSE 0)
           = o + (IF pkg'[id].status = "Created" THEN w ELSE 0)
      /\ r + (IF Had(id, "Claimed") THEN w ELSE 0)
           = q + (IF pkg'[id].status = "Claimed" THEN w ELSE 0)
      /\ d + (IF Had(id, "Claimed") /\ HadPaid(id, "claim") THEN w ELSE 0)
           = c + (IF pkg'[id].status = "Claimed" /\ PaysLast(id, "claim") THEN w ELSE 0)
      /\ f + (IF Had(id, "Claimed") /\ HadPaid(id, "disburse") THEN w ELSE 0)
           = e + (IF pkg'[id].status = "Claimed" /\ PaysLast(id, "disburse") THEN w ELSE 0)
      /\ h + (IF Had(id, "Refunded") /\ HadPaid(id, "refundOfUnlocked") THEN w ELSE 0)
           = g + (IF pkg'[id].status = "Refunded" /\ PaysLast(id, "refundOfUnlocked")
                  THEN w ELSE 0)
  BY <1>3, <1>4, <1>6 DEF Open, Claimed, Collected, Disbursed, Doubled
<1>8. Keeps(id) => /\ \A s : Had(id, s) <=> pkg'[id].status = s
                   /\ \A k : HadPaid(id, k) <=> PaysLast(id, k)
  BY DEF Keeps, Turns, Had, HadPaid, PaysLast
<1>9. Begins(id) => (\A s : ~Had(id, s)) /\ pkg'[id].status = "Created"
  BY DEF Begins, Had
<1>10. Collects(id) \/ Disburses(id) \/ Frees(id) \/ Repays(id) =>
          \A s : Had(id, s) <=> s = "Created"
  BY DEF Collects, Disburses, Frees, Repays, Turns, Had
<1>11. Doubles(id) => /\ ~Had(id, "Created") /\ ~Had(id, "Claimed") /\ ~Had(id, "Refunded")
                      /\ pkg'[id].status = "Refunded" /\ PaysLast(id, "refundOfUnlocked")
  BY DEF Doubles, Turns, Had
<1>12. /\ Collects(id) => pkg'[id].status = "Claimed" /\ PaysLast(id, "claim")
                            /\ ~PaysLast(id, "disburse")
       /\ Disburses(id) => pkg'[id].status = "Claimed" /\ PaysLast(id, "disburse")
                            /\ ~PaysLast(id, "claim")
       /\ Frees(id) => pkg'[id].status \in {"Expired", "Cancelled"}
       /\ Repays(id) => pkg'[id].status = "Refunded" /\ ~PaysLast(id, "refundOfUnlocked")
  BY DEF Collects, Disburses, Frees, Repays, Turns, PaysLast
<1> DEFINE by(x, y, z, u) ==
             /\ p = o + x /\ d = c + y /\ f = e + z /\ r = q + (y + z) /\ h = g + u
<1>13. \A x, y, z, u \in Int : by(x, y, z, u) => SumsMoveBy(K, x, y, z, u)
  BY <1>6 DEF SumsMoveBy
<1>14. Begins(id) => by(w, 0, 0, 0)
  BY <1>2, <1>6, <1>7, <1>9
<1>15. Collects(id) => by(-w, w, 0, 0)
  BY <1>2, <1>6, <1>7, <1>10, <1>12
<1>16. Disburses(id) => by(-w, 0, w, 0)
  BY <1>2, <1>6, <1>7, <1>10, <1>12
<1>17. Frees(id) \/ Repays(id) => by(-w, 0, 0, 0)
  BY <1>2, <1>6, <1>7, <1>10, <1>12
<1>18. Doubles(id) => by(0, 0, 0, w)
  BY <1>2, <1>6, <1>7, <1>11
<1>19. Keeps(id) => by(0, 0, 0, 0)
  BY <1>2, <1>6, <1>7, <1>8
<1> HIDE DEF by
<1>20. w \in Int /\ -w \in Int
  BY <1>2
<1> QED
  BY <1>2, <1>5, <1>13, <1>14, <1>15, <1>16, <1>17, <1>18, <1>19, <1>20

-----------------------------------------------------------------------------
(* Every call is of one of the kinds, and moves the totals of its token.   *)

Locks(id) ==
    /\ Lock(pkg'[id].token, pkg'[id].amount)
    /\ UNCHANGED totalClaimed

Unlocks(id) == totalLocked' = Unlocked(pkg[id].token, pkg[id].amount)

Counts(id) == CountClaimed(pkg[id].token, pkg[id].amount)

\* A new record under a new id.
LEMMA CreateBegins ==
    ASSUME EscrowAssumption, Inv, Create
    PROVE  \E id \in Ids : Begins(id) /\ Locks(id)
<1>1. PICK r \in Addrs, a \in Amounts, t \in Tokens, x \in Times, s \in Times \cup {now},
           c \in Campaigns \cup {None}, m \in Roots \cup {None} :
        \/ \E id \in Ids : CreatePackage(id, r, a, t, x, s, c, m)
        \/ BatchCreateItem(r, a, t, x, s, c, m)
  BY DEF Create
<1>2. PICK id \in Ids, e \in {x, now + x} :
        /\ id \notin DOMAIN pkg /\ Lock(t, a)
        /\ StorePackage(id, NewPackage(r, a, t, e, s, c, m))
        /\ UNCHANGED <<totalClaimed, payouts>>
  <2>1. CASE \E id \in Ids : CreatePackage(id, r, a, t, x, s, c, m)
    BY <2>1 DEF CreatePackage
  <2>2. CASE BatchCreateItem(r, a, t, x, s, c, m)
    <3>1. counter \in Ids /\ counter \notin DOMAIN pkg
      BY <2>2 DEF BatchCreateItem, Inv, IndexConsistent, TypeOK, PackagesTyped
    <3> QED
      BY <2>2, <3>1 DEF BatchCreateItem
  <2> QED
    BY <1>1, <2>1, <2>2
<1>3. PICK p : p = NewPackage(r, a, t, e, s, c, m)
  OBVIOUS
<1>4. p.status = "Created" /\ p.amount = a /\ p.token = t
  BY <1>3 DEF NewPackage
<1>5. /\ DOMAIN pkg' = DOMAIN pkg \cup {id} /\ pkg'[id] = p
      /\ \A i \in DOMAIN pkg \ {id} : pkg'[i] = pkg[i]
  BY <1>2, <1>3 DEF StorePackage
<1> QED
  BY <1>2, <1>4, <1>5 DEF Begins, Touches, Locks

\* A change of status leaves the other packages and the terms alone.
LEMMA SetStatusTurns ==
    ASSUME PackagesTyped, NEW id \in DOMAIN pkg, NEW s, SetStatus(id, s),
           \/ payouts' = payouts
           \/ \E k \in PayoutKinds : payouts' = [payouts EXCEPT ![id] = Append(@, k)]
    PROVE  Turns(id, {pkg[id].status}, s)
<1>1. pkg[id] \in Package /\ pkg \in [DOMAIN pkg -> Package] /\ id \in Ids
      /\ DOMAIN pkg \subseteq Ids /\ DOMAIN payouts = Ids
  BY DEF PackagesTyped
<1>2. pkg' = [pkg EXCEPT ![id] = [pkg[id] EXCEPT !.status = s]]
  BY DEF SetStatus
<1>3. PICK p : p = [pkg[id] EXCEPT !.status = s]
  OBVIOUS
<1>4. /\ p.status = s /\ p.amount = pkg[id].amount /\ p.token = pkg[id].token
      /\ p.campaign = pkg[id].campaign
  BY <1>1, <1>3 DEF Package
<1>5. /\ DOMAIN pkg' = DOMAIN pkg /\ pkg'[id] = p
      /\ \A i \in DOMAIN pkg \ {id} : pkg'[i] = pkg[i]
  BY <1>2, <1>3
<1>6. \A i \in DOMAIN pkg \ {id} : payouts'[i] = payouts[i]
  BY <1>1
<1> QED
  BY <1>4, <1>5, <1>6 DEF Turns, Touches

\* The last payout is the one just appended.
LEMMA AppendPaysLast ==
    ASSUME PackagesTyped, NEW id \in Ids, NEW k \in PayoutKinds,
           payouts' = [payouts EXCEPT ![id] = Append(@, k)]
    PROVE  PaysLast(id, k)
<1>1. payouts[id] \in Seq(PayoutKinds) /\ payouts'[id] = Append(payouts[id], k)
  BY DEF PackagesTyped
<1>2. PICK y \in Seq(PayoutKinds) : y = payouts[id]
  BY <1>1
<1>3. Append(y, k)[Len(Append(y, k))] = k
  OBVIOUS
<1> QED
  BY <1>1, <1>2, <1>3 DEF PaysLast

\* finalize_claim takes the amount from the locked total to the claimed one.
LEMMA CollectCollects ==
    ASSUME EscrowAssumption, Inv, Collect
    PROVE  \E id \in Ids : Collects(id) /\ Unlocks(id) /\ Counts(id)
<1>1. PICK id \in Ids : Active(id) /\ FinalizeClaim(id)
  BY DEF Collect, Claim, ClaimWithProof, ClaimWithRelayer, BatchClaimItem, Claimable
<1>2. PackagesTyped /\ id \in DOMAIN pkg /\ pkg[id].status = "Created"
  BY <1>1 DEF Inv, TypeOK, Active
<1>3. /\ SetStatus(id, "Claimed") /\ Unlocks(id) /\ Counts(id)
      /\ payouts' = [payouts EXCEPT ![id] = Append(@, "claim")]
  BY <1>1 DEF FinalizeClaim, PayOut, Unlocks, Counts
<1>4. "claim" \in PayoutKinds
  BY DEF PayoutKinds
<1>5. Turns(id, {"Created"}, "Claimed")
  BY <1>2, <1>3, <1>4, SetStatusTurns
<1> QED
  BY <1>2, <1>3, <1>4, <1>5, AppendPaysLast DEF Collects

\* A released package gives up its lock and nothing else.
LEMMA ReleaseFrees ==
    ASSUME PackagesTyped, NEW id, Active(id), NEW s \in {"Expired", "Cancelled"}, Release(id, s)
    PROVE  Frees(id) /\ Unlocks(id) /\ UNCHANGED totalClaimed
<1>1. /\ id \in DOMAIN pkg /\ pkg[id].status = "Created" /\ SetStatus(id, s)
      /\ Unlocks(id) /\ UNCHANGED <<payouts, totalClaimed>>
  BY DEF Active, Release, Unlocks
<1>2. Turns(id, {"Created"}, s)
  BY <1>1, SetStatusTurns
<1> QED
  BY <1>1, <1>2 DEF Frees

LEMMA SweepFrees ==
    ASSUME EscrowAssumption, Inv, Sweep
    PROVE  \E id \in Ids : Frees(id) /\ Unlocks(id) /\ UNCHANGED totalClaimed
<1>1. PICK i \in 1..Len(index) : Active(index[i]) /\ Release(index[i], "Expired")
  BY DEF Sweep, SweepPackage, Sweepable
<1>2. PackagesTyped /\ index[i] \in Ids
  BY DEF Inv, TypeOK, PackagesTyped
<1> QED
  BY <1>1, <1>2, ReleaseFrees

\* The admin's calls: only a refund of a package that had been unlocked pays
\* without a Created package to take the amount from.
Administers(id) ==
    /\ UNCHANGED totalClaimed
    /\ \/ (Disburses(id) \/ Frees(id) \/ Repays(id)) /\ Unlocks(id)
       \/ Doubles(id) /\ (Unlocks(id) \/ UNCHANGED totalLocked)
       \/ Keeps(id) /\ UNCHANGED totalLocked

LEMMA AdministerKinds ==
    ASSUME EscrowAssumption, Inv, Administer
    PROVE  \E id \in Ids : Administers(id)
<1>1. PICK id \in Ids :
        \/ Disburse(id) \/ Revoke(id) \/ CancelPackage(id) \/ Refund(id)
        \/ AttachEvidenceHash(id)
        \/ \E r \in Addrs : ReassignPackage(id, r)
        \/ \E e \in Times : ExtendExpiry(id, e)
  BY DEF Administer
<1>2. PackagesTyped /\ TypeOK
  BY DEF Inv, TypeOK
<1>3. /\ "disburse" \in PayoutKinds /\ "refundOfLocked" \in PayoutKinds
      /\ "refundOfUnlocked" \in PayoutKinds
  BY DEF PayoutKinds
<1>4. CASE Disburse(id)
  <2>1. /\ id \in DOMAIN pkg /\ pkg[id].status = "Created" /\ SetStatus(id, "Claimed")
        /\ payouts' = [payouts EXCEPT ![id] = Append(@, "disburse")]
        /\ Unlocks(id) /\ UNCHANGED totalClaimed
    BY <1>4 DEF Disburse, Active, PayOut, Unlocks
  <2>2. Turns(id, {"Created"}, "Claimed") /\ PaysLast(id, "disburse")
    BY <1>2, <1>3, <2>1, SetStatusTurns, AppendPaysLast
  <2> QED
    BY <2>1, <2>2 DEF Administers, Disburses
<1>5. CASE Revoke(id) \/ CancelPackage(id)
  <2>1. Active(id) /\ Release(id, "Cancelled")
    BY <1>5 DEF Revoke, CancelPackage
  <2> QED
    BY <1>2, <2>1, ReleaseFrees DEF Administers
<1>6. CASE Refund(id)
  <2>1. /\ id \in DOMAIN pkg /\ SetStatus(id, "Refunded") /\ UNCHANGED totalClaimed
        /\ pkg[id].status \in {"Created", "Expired", "Cancelled"}
        /\ pkg[id].status = "Created" =>
             Unlocks(id) /\ payouts' = [payouts EXCEPT ![id] = Append(@, "refundOfLocked")]
        /\ pkg[id].status # "Created" =>
             /\ Unlocks(id) \/ UNCHANGED totalLocked
             /\ payouts' = [payouts EXCEPT ![id] = Append(@, "refundOfUnlocked")]
    BY <1>6 DEF Refund, Refundable, PayOut, UnlocksOnRefund, Unlocks
  <2>2. Turns(id, {pkg[id].status}, "Refunded")
    BY <1>2, <1>3, <2>1, SetStatusTurns
  <2>3. CASE pkg[id].status = "Created"
    BY <1>2, <1>3, <2>1, <2>2, <2>3, AppendPaysLast DEF Administers, Repays
  <2>4. CASE pkg[id].status # "Created"
    <3>1. Turns(id, {"Expired", "Cancelled"}, "Refunded")
      BY <2>1, <2>2, <2>4 DEF Turns
    <3>2. PaysLast(id, "refundOfUnlocked")
      BY <1>2, <1>3, <2>1, <2>4, AppendPaysLast
    <3> QED
      BY <2>1, <2>4, <3>1, <3>2 DEF Administers, Doubles
  <2> QED
    BY <2>3, <2>4
<1>7. CASE \/ AttachEvidenceHash(id)
           \/ \E r \in Addrs : ReassignPackage(id, r)
           \/ \E e \in Times : ExtendExpiry(id, e)
  <2>1. Amends(id)
    BY <1>2, <1>7, AmendShape
  <2>2. UNCHANGED <<totalLocked, totalClaimed>>
    BY <1>7 DEF AttachEvidenceHash, ReassignPackage, ExtendExpiry, poolVars
  <2>3. /\ id \in DOMAIN pkg /\ DOMAIN pkg' = DOMAIN pkg /\ payouts' = payouts
        /\ \A i \in DOMAIN pkg \ {id} : pkg'[i] = pkg[i]
        /\ pkg'[id].status = pkg[id].status /\ pkg'[id].amount = pkg[id].amount
        /\ pkg'[id].token = pkg[id].token /\ pkg'[id].campaign = pkg[id].campaign
    BY <2>1 DEF Amends
  <2>4. Touches(id)
    BY <2>3 DEF Touches
  <2>5. Keeps(id)
    BY <2>3, <2>4 DEF Keeps, Turns
  <2> QED
    BY <2>2, <2>5 DEF Administers
<1> QED
  BY <1>1, <1>4, <1>5, <1>6, <1>7

\* The other calls neither touch packages nor totals.
Idles == UNCHANGED <<pkg, payouts, totalLocked, totalClaimed>>

LEMMA OtherIdles ==
    ASSUME \/ \E t \in Tokens, a \in Amounts : Fund(t, a)
           \/ Withdraw \/ Delegation \/ Configure \/ Tick
    PROVE  Idles
<1>1. CASE \/ \E t \in Tokens, a \in Amounts : Fund(t, a)
           \/ Withdraw \/ Tick
  BY <1>1 DEF Fund, Withdraw, ProposeSurplusWithdrawal, CancelSurplusWithdrawal,
              ExecuteSurplusWithdrawal, Tick, poolVars, Idles
<1>2. CASE Delegation
  BY <1>2 DEF Delegation, SetDelegate, SetDelegateWithExpiry, RevokeDelegate, SweepDelegate,
              poolVars, Idles
<1>3. CASE Configure
  BY <1>3 DEF Configure, SetConfig, AddAllowedToken, RemoveAllowedToken, SetAllowed, Pause,
              Unpause, SetPaused, PauseCampaign, UnpauseCampaign, SetCampaignPaused, poolVars,
              Idles
<1> QED
  BY <1>1, <1>2, <1>3

-----------------------------------------------------------------------------
(* A locked total n of a scope is in balance when it counts nothing but    *)
(* Created packages, and misses no more of them than was unlocked twice.   *)

Balanced(K, P, Y, n) ==
    /\ n <= Open(K, P)
    /\ Open(K, P) - n <= Doubled(K, P, Y)

\* The balance survives the kinds: the floor of an unlock can only bite when
\* the total already fell short.
LEMMA BalanceKept ==
    ASSUME PackagesTyped, PackagesTyped', IsFiniteSet(DOMAIN pkg), NEW id, Touches(id), NEW K,
           NEW w, w = Weight(K, id), NEW n \in Nat, Balanced(K, pkg, payouts, n)
    PROVE  /\ Begins(id) => Balanced(K, pkg', payouts', n + w)
           /\ Collects(id) \/ Disburses(id) \/ Frees(id) \/ Repays(id) =>
                Balanced(K, pkg', payouts', Less(n, w))
           /\ Doubles(id) => /\ Balanced(K, pkg', payouts', n)
                             /\ Balanced(K, pkg', payouts', Less(n, w))
           /\ Keeps(id) => Balanced(K, pkg', payouts', n)
<1>1. w \in Nat /\ SumsAreNat(K, pkg, payouts) /\ SumsAreNat(K, pkg', payouts')
  BY SumsMove
<1>2. PICK o, p, g, h \in Nat :
        /\ o = Open(K, pkg) /\ p = Open(K, pkg')
        /\ g = Doubled(K, pkg, payouts) /\ h = Doubled(K, pkg', payouts')
  BY <1>1 DEF SumsAreNat
<1>3. n <= o /\ o - n <= g
  BY <1>2 DEF Balanced
<1>4. \A m : m <= p /\ p - m <= h => Balanced(K, pkg', payouts', m)
  BY <1>2 DEF Balanced
<1>5. ASSUME Begins(id)
      PROVE  p = o + w /\ h = g + 0
  BY <1>2, <1>5, SumsMove DEF SumsMoveBy
<1>6. ASSUME Collects(id) \/ Disburses(id) \/ Frees(id) \/ Repays(id)
      PROVE  p = o + -w /\ h = g + 0
  BY <1>2, <1>6, SumsMove DEF SumsMoveBy
<1>7. ASSUME Doubles(id)
      PROVE  p = o + 0 /\ h = g + w
  BY <1>2, <1>7, SumsMove DEF SumsMoveBy
<1>8. ASSUME Keeps(id)
      PROVE  p = o + 0 /\ h = g + 0
  BY <1>2, <1>8, SumsMove DEF SumsMoveBy
<1>9. Less(n, w) \in Nat /\ Less(n, w) <= n /\ n - w <= Less(n, w) /\ (n > w => Less(n, w) = n - w)
      /\ (~(n > w) => Less(n, w) = 0)
  BY <1>1 DEF Less
<1>10. Begins(id) => n + w <= p /\ p - (n + w) <= h
  BY <1>1, <1>2, <1>3, <1>5
<1>11. Collects(id) \/ Disburses(id) \/ Frees(id) \/ Repays(id) =>
         Less(n, w) <= p /\ p - Less(n, w) <= h
  BY <1>1, <1>2, <1>3, <1>6, <1>9
<1>12. Doubles(id) => /\ n <= p /\ p - n <= h
                      /\ Less(n, w) <= p /\ p - Less(n, w) <= h
  BY <1>1, <1>2, <1>3, <1>7, <1>9
<1>13. Keeps(id) => n <= p /\ p - n <= h
  BY <1>1, <1>2, <1>3, <1>8
<1> QED
  BY <1>4, <1>10, <1>11, <1>12, <1>13

-----------------------------------------------------------------------------
(* The totals of the tokens. *)

OfToken(t) == {t} \X (Campaigns \cup {None})

Scopes == SUBSET (Tokens \X (Campaigns \cup {None}))

\* Every Claimed package was collected or disbursed.
EveryClaimIsPaid(K, P, Y) == Claimed(K, P) = Collected(K, P, Y) + Disbursed(K, P, Y)

TotalsInv ==
    /\ IsFiniteSet(DOMAIN pkg)
    /\ \A t \in Tokens : /\ Balanced(OfToken(t), pkg, payouts, totalLocked[t])
                         /\ totalClaimed[t] = Collected(OfToken(t), pkg, payouts)
    /\ \A K \in Scopes : EveryClaimIsPaid(K, pkg, payouts)

\* A token's totals move by the package's weight in the token's scope.
LEMMA TokenWeight ==
    ASSUME PackagesTyped, PackagesTyped', MoneyTyped, NEW id, Touches(id), NEW t \in Tokens,
           NEW w, w = Weight(OfToken(t), id)
    PROVE  /\ w \in Nat
           /\ Locks(id) => totalLocked'[t] = totalLocked[t] + w
           /\ id \in DOMAIN pkg /\ Unlocks(id) => totalLocked'[t] = Less(totalLocked[t], w)
           /\ id \in DOMAIN pkg /\ Counts(id) => totalClaimed'[t] = totalClaimed[t] + w
<1>1. /\ id \in DOMAIN pkg'
      /\ pkg'[id].amount \in Nat \ {0} /\ pkg'[id].token \in Tokens
      /\ pkg'[id].campaign \in Campaigns \cup {None}
  BY DEF Touches, PackagesTyped, Package
<1>2. PICK a \in Nat \ {0}, u \in Tokens : a = pkg'[id].amount /\ u = pkg'[id].token
  BY <1>1
<1>3. w = IF u = t THEN a ELSE 0
  BY <1>1, <1>2 DEF Weight, OfToken, In
<1>4. totalLocked \in [Tokens -> Nat] /\ totalClaimed \in [Tokens -> Nat]
  BY DEF MoneyTyped
<1>5. Locks(id) => totalLocked'[t] = totalLocked[t] + w
  BY <1>2, <1>3, <1>4 DEF Locks, Lock
<1>6. id \in DOMAIN pkg => pkg[id].amount = a /\ pkg[id].token = u
  BY <1>2 DEF Touches
<1>7. id \in DOMAIN pkg /\ Unlocks(id) => totalLocked'[t] = Less(totalLocked[t], w)
  BY <1>3, <1>4, <1>6 DEF Unlocks, Unlocked, Less
<1>8. id \in DOMAIN pkg /\ Counts(id) => totalClaimed'[t] = totalClaimed[t] + w
  BY <1>3, <1>4, <1>6 DEF Counts, CountClaimed
<1> QED
  BY <1>2, <1>3, <1>5, <1>7, <1>8

\* A step of one of the kinds, with what it does to the totals.
KindStep(id) ==
    \/ Begins(id) /\ Locks(id)
    \/ Collects(id) /\ Unlocks(id) /\ Counts(id)
    \/ Administers(id)

\* Every step is of one of the kinds.
LEMMA StepKinds ==
    ASSUME EscrowAssumption, Inv, [Next]_vars
    PROVE  Idles \/ \E id \in Ids : KindStep(id)
<1>1. CASE Create
  BY <1>1, CreateBegins DEF KindStep
<1>2. CASE Collect
  BY <1>2, CollectCollects DEF KindStep
<1>3. CASE Administer
  BY <1>3, AdministerKinds DEF KindStep
<1>4. CASE Sweep
  BY <1>4, SweepFrees DEF KindStep, Administers
<1>5. CASE UNCHANGED vars
  BY <1>5 DEF vars, poolVars, Idles
<1> QED
  BY <1>1, <1>2, <1>3, <1>4, <1>5, OtherIdles DEF Next

LEMMA KindTouches ==
    ASSUME NEW id, KindStep(id)
    PROVE  Touches(id) /\ (Begins(id) \/ id \in DOMAIN pkg)
BY DEF KindStep, Administers, Begins, Collects, Disburses, Frees, Repays, Doubles, Keeps, Turns

\* Each kind of step keeps the totals of every token what they should be.
LEMMA KindKeepsTotals ==
    ASSUME Inv, Inv', TotalsInv, NEW id \in Ids, KindStep(id)
    PROVE  TotalsInv'
<1>1. /\ PackagesTyped /\ PackagesTyped' /\ MoneyTyped /\ MoneyTyped'
      /\ IsFiniteSet(DOMAIN pkg)
  BY DEF Inv, TypeOK, TotalsInv
<1>2. Touches(id) /\ (Begins(id) \/ id \in DOMAIN pkg)
  BY KindTouches
<1>3. IsFiniteSet(DOMAIN pkg')
  BY <1>1, <1>2, FS_AddElement DEF Touches
<1>4. ASSUME NEW t \in Tokens
      PROVE  /\ Balanced(OfToken(t), pkg', payouts', totalLocked'[t])
             /\ totalClaimed'[t] = Collected(OfToken(t), pkg', payouts')
  <2>1. PICK K, w : K = OfToken(t) /\ w = Weight(K, id)
    OBVIOUS
  <2>2. PICK n \in Nat, m \in Nat : n = totalLocked[t] /\ m = totalClaimed[t]
    BY <1>1 DEF MoneyTyped
  <2>3. Balanced(K, pkg, payouts, n) /\ m = Collected(K, pkg, payouts)
    BY <2>1, <2>2 DEF TotalsInv
  <2>4. /\ w \in Nat
        /\ Locks(id) => totalLocked'[t] = n + w
        /\ id \in DOMAIN pkg /\ Unlocks(id) => totalLocked'[t] = Less(n, w)
        /\ id \in DOMAIN pkg /\ Counts(id) => totalClaimed'[t] = m + w
    BY <1>1, <1>2, <2>1, <2>2, TokenWeight
  <2>5. /\ Begins(id) => Balanced(K, pkg', payouts', n + w)
        /\ Collects(id) \/ Disburses(id) \/ Frees(id) \/ Repays(id) =>
             Balanced(K, pkg', payouts', Less(n, w))
        /\ Doubles(id) => /\ Balanced(K, pkg', payouts', n)
                          /\ Balanced(K, pkg', payouts', Less(n, w))
        /\ Keeps(id) => Balanced(K, pkg', payouts', n)
    BY <1>1, <1>2, <2>1, <2>3, BalanceKept
  <2>6. /\ Collects(id) => Collected(K, pkg', payouts') = m + w
        /\ Begins(id) \/ Disburses(id) \/ Frees(id) \/ Repays(id) \/ Doubles(id) \/ Keeps(id) =>
             Collected(K, pkg', payouts') = m
    <3>1. /\ Collects(id) => SumsMoveBy(K, -w, w, 0, 0)
          /\ Begins(id) => SumsMoveBy(K, w, 0, 0, 0)
          /\ Disburses(id) => SumsMoveBy(K, -w, 0, w, 0)
          /\ Frees(id) \/ Repays(id) => SumsMoveBy(K, -w, 0, 0, 0)
          /\ Doubles(id) => SumsMoveBy(K, 0, 0, 0, w)
          /\ Keeps(id) => SumsMoveBy(K, 0, 0, 0, 0)
      BY <1>1, <1>2, <2>1, SumsMove
    <3>2. \A o, c, d, u : SumsMoveBy(K, o, c, d, u) => Collected(K, pkg', payouts') = m + c
      BY <2>3 DEF SumsMoveBy
    <3>3. m + 0 = m
      BY <2>2
    <3> QED
      BY <3>1, <3>2, <3>3
  <2>7. CASE Begins(id) /\ Locks(id)
    BY <2>1, <2>2, <2>4, <2>5, <2>6, <2>7 DEF Locks
  <2>8. CASE Collects(id) /\ Unlocks(id) /\ Counts(id)
    BY <2>1, <2>4, <2>5, <2>6, <2>8 DEF Collects, Turns
  <2>9. CASE Administers(id)
    <3>1. id \in DOMAIN pkg /\ UNCHANGED totalClaimed
      BY <2>9 DEF Administers, Disburses, Frees, Repays, Doubles, Keeps, Turns
    <3>2. CASE (Disburses(id) \/ Frees(id) \/ Repays(id)) /\ Unlocks(id)
      BY <2>1, <2>2, <2>4, <2>5, <2>6, <3>1, <3>2
    <3>3. CASE Doubles(id) /\ (Unlocks(id) \/ UNCHANGED totalLocked)
      BY <2>1, <2>2, <2>4, <2>5, <2>6, <3>1, <3>3
    <3>4. CASE Keeps(id) /\ UNCHANGED totalLocked
      BY <2>1, <2>2, <2>5, <2>6, <3>1, <3>4
    <3> QED
      BY <2>9, <3>2, <3>3, <3>4 DEF Administers
  <2> QED
    BY <2>7, <2>8, <2>9 DEF KindStep
<1>5. ASSUME NEW K \in Scopes
      PROVE  EveryClaimIsPaid(K, pkg', payouts')
  <2>1. PICK w : w = Weight(K, id)
    OBVIOUS
  <2>2. /\ SumsAreNat(K, pkg, payouts) /\ w \in Nat
        /\ Collects(id) => SumsMoveBy(K, -w, w, 0, 0)
        /\ Begins(id) => SumsMoveBy(K, w, 0, 0, 0)
        /\ Disburses(id) => SumsMoveBy(K, -w, 0, w, 0)
        /\ Frees(id) \/ Repays(id) => SumsMoveBy(K, -w, 0, 0, 0)
        /\ Doubles(id) => SumsMoveBy(K, 0, 0, 0, w)
        /\ Keeps(id) => SumsMoveBy(K, 0, 0, 0, 0)
    BY <1>1, <1>2, <2>1, SumsMove
  <2>3. PICK x \in Int, c \in Nat, d \in Nat, u \in Int : SumsMoveBy(K, x, c, d, u)
    <3>1. 0 \in Nat /\ w \in Nat /\ -w \in Int /\ w \in Int /\ 0 \in Int
      BY <2>2
    <3> QED
      BY <2>2, <3>1 DEF KindStep, Administers
  <2>4. PICK q, e, f \in Nat :
          /\ q = Claimed(K, pkg) /\ e = Collected(K, pkg, payouts)
          /\ f = Disbursed(K, pkg, payouts)
    BY <2>2 DEF SumsAreNat
  <2>5. q = e + f
    BY <2>4 DEF TotalsInv, EveryClaimIsPaid
  <2>6. /\ Claimed(K, pkg') = q + (c + d)
        /\ Collected(K, pkg', payouts') = e + c
        /\ Disbursed(K, pkg', payouts') = f + d
    BY <2>3, <2>4 DEF SumsMoveBy
  <2>7. q + (c + d) = (e + c) + (f + d)
    BY <2>5
  <2> QED
    BY <2>6, <2>7 DEF EveryClaimIsPaid
<1> QED
  BY <1>3, <1>4, <1>5 DEF TotalsInv

\* Before the first package every sum is nothing.
LEMMA InitTotals ==
    ASSUME Init
    PROVE  TotalsInv
<1>1. DOMAIN pkg = {}
  BY DEF Init
<1>2. IsFiniteSet(DOMAIN pkg)
  BY <1>1, FS_EmptySet
<1>3. ASSUME NEW K
      PROVE  /\ Open(K, pkg) = 0 /\ Claimed(K, pkg) = 0
             /\ Collected(K, pkg, payouts) = 0 /\ Disbursed(K, pkg, payouts) = 0
             /\ Doubled(K, pkg, payouts) = 0
  <2>1. \A s : StatusIn(K, pkg, s) = {}
    BY <1>1 DEF StatusIn
  <2>2. \A s, k : PaidIn(K, pkg, payouts, s, k) = {}
    BY <2>1 DEF PaidIn
  <2>3. SumOf(pkg, {}) = 0
    BY TotalEmpty DEF SumOf
  <2> QED
    BY <2>1, <2>2, <2>3 DEF Open, Claimed, Collected, Disbursed, Doubled
<1>4. \A t \in Tokens : totalLocked[t] = 0 /\ totalClaimed[t] = 0
  BY DEF Init
<1>5. \A t \in Tokens : /\ Balanced(OfToken(t), pkg, payouts, totalLocked[t])
                        /\ totalClaimed[t] = Collected(OfToken(t), pkg, payouts)
  BY <1>3, <1>4 DEF Balanced
<1>6. \A K \in Scopes : EveryClaimIsPaid(K, pkg, payouts)
  BY <1>3 DEF EveryClaimIsPaid
<1> QED
  BY <1>2, <1>5, <1>6 DEF TotalsInv

LEMMA StepTotals ==
    ASSUME EscrowAssumption, Inv, Inv', TotalsInv, [Next]_vars
    PROVE  TotalsInv'
<1>1. CASE Idles
  BY <1>1 DEF Idles, TotalsInv
<1>2. CASE \E id \in Ids : KindStep(id)
  BY <1>2, KindKeepsTotals
<1> QED
  BY <1>1, <1>2, StepKinds

LEMMA TotalsHold == Spec => [](Inv /\ TotalsInv)
<1>1. Init => TotalsInv
  BY InitTotals
<1>2. Inv /\ Inv' /\ TotalsInv /\ [Next]_vars => TotalsInv'
  BY EscrowAssumption, StepTotals
<1> QED
  BY <1>1, <1>2, InvHolds, PTL DEF Spec

\* The sums of the contract's module over packages in use.
LEMMA SumIsSumOf ==
    ASSUME IsFiniteSet(DOMAIN pkg), NEW S \in SUBSET DOMAIN pkg
    PROVE  Sum(S) = SumOf(pkg, S)
<1>1. IsFiniteSet(S)
  BY FS_Subset
<1>2. Sum(S) = AmountsAdding(pkg, S)[S]
  BY DEF Sum, MapThenSumSet, MapThenFoldSet, AmountsAdding, Pick
<1> QED
  BY <1>1, <1>2, AmountsAddUp

\* The sets the properties sum over are those of a token's scope.
LEMMA TokenSums ==
    ASSUME PackagesTyped, IsFiniteSet(DOMAIN pkg), NEW t \in Tokens
    PROVE  /\ Committed(t) = Open(OfToken(t), pkg)
           /\ Sum({i \in DOMAIN pkg : /\ pkg[i].token = t
                                      /\ pkg[i].status = "Refunded"
                                      /\ LastPayout(i) = "refundOfUnlocked"})
                = Doubled(OfToken(t), pkg, payouts)
           /\ Sum({i \in DOMAIN pkg : /\ pkg[i].token = t
                                      /\ pkg[i].status = "Claimed"
                                      /\ LastPayout(i) = "claim"})
                = Collected(OfToken(t), pkg, payouts)
<1>1. \A i \in DOMAIN pkg : In(OfToken(t), pkg[i]) <=> pkg[i].token = t
  BY DEF PackagesTyped, Package, In, OfToken
<1>2. {i \in DOMAIN pkg : pkg[i].token = t /\ pkg[i].status = "Created"}
        = StatusIn(OfToken(t), pkg, "Created")
  BY <1>1 DEF StatusIn
<1>3. {i \in DOMAIN pkg : /\ pkg[i].token = t
                          /\ pkg[i].status = "Refunded"
                          /\ LastPayout(i) = "refundOfUnlocked"}
        = PaidIn(OfToken(t), pkg, payouts, "Refunded", "refundOfUnlocked")
  BY <1>1 DEF StatusIn, PaidIn, LastPayout
<1>4. {i \in DOMAIN pkg : /\ pkg[i].token = t
                          /\ pkg[i].status = "Claimed"
                          /\ LastPayout(i) = "claim"}
        = PaidIn(OfToken(t), pkg, payouts, "Claimed", "claim")
  BY <1>1 DEF StatusIn, PaidIn, LastPayout
<1>5. /\ StatusIn(OfToken(t), pkg, "Created") \in SUBSET DOMAIN pkg
      /\ PaidIn(OfToken(t), pkg, payouts, "Refunded", "refundOfUnlocked") \in SUBSET DOMAIN pkg
      /\ PaidIn(OfToken(t), pkg, payouts, "Claimed", "claim") \in SUBSET DOMAIN pkg
  BY DEF StatusIn, PaidIn
<1>6. Committed(t) = Open(OfToken(t), pkg)
  BY <1>2, <1>5, SumIsSumOf DEF Committed, Open
<1> QED
  BY <1>3, <1>4, <1>5, <1>6, SumIsSumOf DEF Doubled, Collected

\* get_aggregates never reports more locked than the open packages need:
\* every call that ends a package takes its amount out of the locked total.
THEOREM LockedIsNeverStale == Spec => []LockedIsCommitted
<1>1. Inv /\ TotalsInv => LockedIsCommitted
  BY TokenSums DEF Inv, TypeOK, TotalsInv, Balanced, LockedIsCommitted
<1> QED
  BY <1>1, TotalsHold, PTL

\* The locked total falls short of the open packages by no more than what
\* refunds unlocked a second time.
THEOREM ShortfallIsAccountedFor == Spec => []ShortfallIsDoubleUnlock
<1>1. Inv /\ TotalsInv => ShortfallIsDoubleUnlock
  BY TokenSums DEF Inv, TypeOK, TotalsInv, Balanced, ShortfallIsDoubleUnlock
<1> QED
  BY <1>1, TotalsHold, PTL

\* The claimed total is to the unit what the claim paths paid out.
THEOREM ClaimedTotalIsExact == Spec => []ClaimedTotalExact
<1>1. Inv /\ TotalsInv => ClaimedTotalExact
  BY TokenSums DEF Inv, TypeOK, TotalsInv, ClaimedTotalExact
<1> QED
  BY <1>1, TotalsHold, PTL

-----------------------------------------------------------------------------
(* The totals of the campaigns: the same balance for a single pair, which  *)
(* a migration restores from the packages.                                 *)

OfCampaign(c, t) == {<<t, c>>}

\* The claimed total n has every collection and at most the disbursements on top.
ClaimsCounted(K, P, Y, n) ==
    /\ Collected(K, P, Y) <= n
    /\ n <= Collected(K, P, Y) + Disbursed(K, P, Y)

CampaignsInv ==
    /\ CampaignsTypeOK
    /\ \A c \in Campaigns, t \in Tokens :
        /\ Balanced(OfCampaign(c, t), pkg, payouts, campaignLocked[c][t])
        /\ ClaimsCounted(OfCampaign(c, t), pkg, payouts, campaignClaimed[c][t])

\* adjust_campaign_token_amount moves the package's own campaign and token.
LEMMA RaiseLowerTyped ==
    ASSUME EscrowAssumption, NEW totals \in CampaignTotals, NEW p \in Package
    PROVE  Raise(totals, p) \in CampaignTotals /\ Lower(totals, p) \in CampaignTotals
<1>1. /\ p.amount \in Nat \ {0} /\ p.token \in Tokens
      /\ p.campaign \in Campaigns \cup {None} /\ None \notin Campaigns
  BY DEF Package, EscrowAssumption
<1>2. PICK a \in Nat \ {0}, u \in Tokens, d \in Campaigns \cup {None} :
        a = p.amount /\ u = p.token /\ d = p.campaign
  BY <1>1
<1>3. CASE d = None
  BY <1>1, <1>2, <1>3 DEF Raise, Lower
<1>4. CASE d \in Campaigns
  <2>1. /\ Raise(totals, p) = [totals EXCEPT ![d] = [totals[d] EXCEPT ![u] = totals[d][u] + a]]
        /\ Lower(totals, p) =
             [totals EXCEPT ![d] = [totals[d] EXCEPT ![u] = Less(totals[d][u], a)]]
    BY <1>1, <1>2, <1>4 DEF Raise, Lower
  <2>2. totals[d] \in [Tokens -> Nat] /\ totals[d][u] \in Nat
    BY <1>4 DEF CampaignTotals
  <2>3. totals[d][u] + a \in Nat /\ Less(totals[d][u], a) \in Nat
    BY <2>2 DEF Less
  <2>4. \A x \in Nat : [totals[d] EXCEPT ![u] = x] \in [Tokens -> Nat]
    BY <2>2
  <2>5. \A f \in [Tokens -> Nat] : [totals EXCEPT ![d] = f] \in CampaignTotals
    BY <1>4 DEF CampaignTotals
  <2>6. PICK m \in Nat, n \in Nat : m = totals[d][u] + a /\ n = Less(totals[d][u], a)
    BY <2>3
  <2>7. /\ [totals EXCEPT ![d] = [totals[d] EXCEPT ![u] = m]] \in CampaignTotals
        /\ [totals EXCEPT ![d] = [totals[d] EXCEPT ![u] = n]] \in CampaignTotals
    BY <2>4, <2>5
  <2> QED
    BY <2>1, <2>6, <2>7
<1> QED
  BY <1>2, <1>3, <1>4

LEMMA RaiseLower ==
    ASSUME EscrowAssumption, NEW totals \in CampaignTotals, NEW p \in Package,
           NEW c \in Campaigns, NEW t \in Tokens,
           NEW w, w = IF In(OfCampaign(c, t), p) THEN p.amount ELSE 0
    PROVE  Raise(totals, p)[c][t] = totals[c][t] + w /\ Lower(totals, p)[c][t] = Less(totals[c][t], w)
<1>1. /\ p.amount \in Nat \ {0} /\ p.token \in Tokens
      /\ p.campaign \in Campaigns \cup {None} /\ None \notin Campaigns
  BY DEF Package, EscrowAssumption
<1>2. PICK a \in Nat \ {0}, u \in Tokens, d \in Campaigns \cup {None} :
        a = p.amount /\ u = p.token /\ d = p.campaign
  BY <1>1
<1>3. w = IF u = t /\ d = c THEN a ELSE 0
  BY <1>2 DEF In, OfCampaign
<1>4. totals[c][t] \in Nat /\ Less(totals[c][t], 0) = totals[c][t] /\ totals[c][t] + 0 = totals[c][t]
  BY DEF CampaignTotals, Less
<1>5. CASE d = None
  <2>1. Raise(totals, p) = totals /\ Lower(totals, p) = totals /\ w = 0
    BY <1>1, <1>2, <1>3, <1>5 DEF Raise, Lower
  <2> QED
    BY <1>4, <2>1
<1>6. CASE d \in Campaigns
  <2>1. /\ Raise(totals, p) = [totals EXCEPT ![d] = [totals[d] EXCEPT ![u] = totals[d][u] + a]]
        /\ Lower(totals, p) =
             [totals EXCEPT ![d] = [totals[d] EXCEPT ![u] = Less(totals[d][u], a)]]
    BY <1>1, <1>2, <1>6 DEF Raise, Lower
  <2>2. totals[d] \in [Tokens -> Nat] /\ totals \in [Campaigns -> [Tokens -> Nat]]
    BY <1>6 DEF CampaignTotals
  <2>3. \A x : [totals EXCEPT ![d] = [totals[d] EXCEPT ![u] = x]][c][t]
                 = IF u = t /\ d = c THEN x ELSE totals[c][t]
    BY <2>2
  <2>4. /\ Raise(totals, p)[c][t] = IF u = t /\ d = c THEN totals[d][u] + a ELSE totals[c][t]
        /\ Lower(totals, p)[c][t] =
             IF u = t /\ d = c THEN Less(totals[d][u], a) ELSE totals[c][t]
    BY <2>1, <2>3
  <2>5. CASE u = t /\ d = c
    BY <1>3, <2>4, <2>5
  <2>6. CASE ~(u = t /\ d = c)
    BY <1>3, <1>4, <2>4, <2>6
  <2> QED
    BY <2>5, <2>6
<1> QED
  BY <1>5, <1>6

\* A step of a kind on package id, with what it does to the campaigns' totals.
CampaignStep(id) ==
    LET lowered == Lower(campaignLocked, pkg'[id])
    IN  \/ /\ Begins(id)
           /\ campaignLocked' = Raise(campaignLocked, pkg'[id])
           /\ campaignClaimed' = campaignClaimed
        \/ /\ Collects(id)
           /\ campaignLocked' = lowered
           /\ campaignClaimed' = Raise(campaignClaimed, pkg'[id])
        \/ /\ Disburses(id) \/ Frees(id) \/ Repays(id)
           /\ campaignLocked' = lowered /\ campaignClaimed' = campaignClaimed
        \/ /\ Doubles(id)
           /\ campaignLocked' \in {campaignLocked, lowered} /\ campaignClaimed' = campaignClaimed
        \/ /\ Keeps(id)
           /\ UNCHANGED <<campaignLocked, campaignClaimed>>

LEMMA CampaignStepKeeps ==
    ASSUME EscrowAssumption, Inv, Inv', TotalsInv, CampaignsInv, NEW id \in Ids, Touches(id),
           CampaignStep(id), version' = version
    PROVE  CampaignsInv'
<1>1. /\ PackagesTyped /\ PackagesTyped' /\ IsFiniteSet(DOMAIN pkg) /\ version \in Nat
      /\ campaignLocked \in CampaignTotals /\ campaignClaimed \in CampaignTotals
  BY DEF Inv, TypeOK, TotalsInv, CampaignsInv, CampaignsTypeOK
<1>2. PICK p \in Package : p = pkg'[id]
  BY <1>1 DEF Touches, PackagesTyped
<1>3. PICK l \in CampaignTotals, r \in CampaignTotals : l = campaignLocked /\ r = campaignClaimed
  BY <1>1
<1>4. PICK m, s : m = campaignLocked' /\ s = campaignClaimed'
  OBVIOUS
<1>5. \/ Begins(id) /\ m = Raise(l, p) /\ s = r
      \/ Collects(id) /\ m = Lower(l, p) /\ s = Raise(r, p)
      \/ (Disburses(id) \/ Frees(id) \/ Repays(id)) /\ m = Lower(l, p) /\ s = r
      \/ Doubles(id) /\ (m = l \/ m = Lower(l, p)) /\ s = r
      \/ Keeps(id) /\ m = l /\ s = r
  BY <1>2, <1>3, <1>4 DEF CampaignStep
<1>6. m \in CampaignTotals /\ s \in CampaignTotals
  BY <1>5, RaiseLowerTyped
<1>7. ASSUME NEW c \in Campaigns, NEW t \in Tokens
      PROVE  /\ Balanced(OfCampaign(c, t), pkg', payouts', m[c][t])
             /\ ClaimsCounted(OfCampaign(c, t), pkg', payouts', s[c][t])
  <2>1. PICK K, w : K = OfCampaign(c, t) /\ w = Weight(K, id)
    OBVIOUS
  <2>2. w = IF In(OfCampaign(c, t), p) THEN p.amount ELSE 0
    BY <1>2, <2>1 DEF Weight
  <2>3. PICK n \in Nat, k \in Nat : n = l[c][t] /\ k = r[c][t]
    BY DEF CampaignTotals
  <2>4. /\ Raise(l, p)[c][t] = n + w
        /\ Lower(l, p)[c][t] = Less(n, w)
        /\ Raise(r, p)[c][t] = k + w
    BY <2>2, <2>3, RaiseLower
  <2>5. Balanced(K, pkg, payouts, n) /\ ClaimsCounted(K, pkg, payouts, k)
    BY <1>3, <2>1, <2>3 DEF CampaignsInv
  <2>6. /\ Begins(id) => Balanced(K, pkg', payouts', n + w)
        /\ Collects(id) \/ Disburses(id) \/ Frees(id) \/ Repays(id) =>
             Balanced(K, pkg', payouts', Less(n, w))
        /\ Doubles(id) => /\ Balanced(K, pkg', payouts', n)
                          /\ Balanced(K, pkg', payouts', Less(n, w))
        /\ Keeps(id) => Balanced(K, pkg', payouts', n)
    BY <1>1, <2>1, <2>5, BalanceKept
  <2>7. Balanced(K, pkg', payouts', m[c][t])
    BY <1>5, <2>3, <2>4, <2>6
  <2>8. /\ SumsAreNat(K, pkg, payouts) /\ w \in Nat
        /\ Begins(id) => SumsMoveBy(K, w, 0, 0, 0)
        /\ Collects(id) => SumsMoveBy(K, -w, w, 0, 0)
        /\ Disburses(id) => SumsMoveBy(K, -w, 0, w, 0)
        /\ Frees(id) \/ Repays(id) => SumsMoveBy(K, -w, 0, 0, 0)
        /\ Doubles(id) => SumsMoveBy(K, 0, 0, 0, w)
        /\ Keeps(id) => SumsMoveBy(K, 0, 0, 0, 0)
    BY <1>1, <2>1, SumsMove
  <2>9. PICK e \in Nat, f \in Nat :
          e = Collected(K, pkg, payouts) /\ f = Disbursed(K, pkg, payouts)
    BY <2>8 DEF SumsAreNat
  <2>10. e <= k /\ k <= e + f
    BY <2>5, <2>9 DEF ClaimsCounted
  <2>11. \A o, u, v, g : SumsMoveBy(K, o, u, v, g) =>
           /\ Collected(K, pkg', payouts') = e + u
           /\ Disbursed(K, pkg', payouts') = f + v
    BY <2>9 DEF SumsMoveBy
  <2>12. CASE Collects(id) /\ s = Raise(r, p)
    <3>1. Collected(K, pkg', payouts') = e + w /\ Disbursed(K, pkg', payouts') = f + 0
      BY <2>8, <2>11, <2>12
    <3>2. e + w <= k + w /\ k + w <= (e + w) + (f + 0)
      BY <2>8, <2>10
    <3> QED
      BY <2>1, <2>4, <2>7, <2>12, <3>1, <3>2 DEF ClaimsCounted
  <2>13. CASE ~Collects(id) /\ s = r
    <3>1. /\ Collected(K, pkg', payouts') = e + 0
          /\ Disbursed(K, pkg', payouts') = f + w \/ Disbursed(K, pkg', payouts') = f + 0
      BY <1>5, <2>8, <2>11, <2>13
    <3>2. e + 0 <= k /\ k <= (e + 0) + (f + 0) /\ k <= (e + 0) + (f + w)
      BY <2>8, <2>10
    <3> QED
      BY <2>1, <2>3, <2>7, <2>13, <3>1, <3>2 DEF ClaimsCounted
  <2>14. Collects(id) => ~(Begins(id) \/ Disburses(id) \/ Frees(id) \/ Repays(id) \/ Doubles(id))
    BY DEF Collects, Begins, Disburses, Frees, Repays, Doubles, Turns, PaysLast
  <2>15. Collects(id) => ~Keeps(id)
    BY DEF Collects, Keeps, Turns
  <2> QED
    BY <1>5, <2>12, <2>13, <2>14, <2>15
<1> QED
  BY <1>1, <1>4, <1>6, <1>7 DEF CampaignsInv, CampaignsTypeOK

\* A call that ends a package ends the one it touches, and the campaign totals
\* are moved by that package.
LEMMA EndsTouched ==
    ASSUME NEW id, Touches(id), NEW i, Ends(i)
    PROVE  /\ i = id
           /\ \A totals : /\ Lower(totals, pkg[i]) = Lower(totals, pkg'[id])
                          /\ Raise(totals, pkg[i]) = Raise(totals, pkg'[id])
<1>1. i = id /\ id \in DOMAIN pkg
  BY DEF Touches, Ends
<1>2. /\ pkg'[id].amount = pkg[id].amount /\ pkg'[id].token = pkg[id].token
      /\ pkg'[id].campaign = pkg[id].campaign
  BY <1>1 DEF Touches
<1> QED
  BY <1>1, <1>2 DEF Lower, Raise

\* Each call that moves a campaign total moves it as the kind of the call says.
LEMMA CampaignKinds ==
    ASSUME EscrowAssumption, Inv,
           CampaignCreate \/ CampaignCollect \/ CampaignAdminister \/ CampaignSweep
    PROVE  \E id \in Ids : Touches(id) /\ CampaignStep(id) /\ version' = version
<1>1. CASE CampaignCreate
  <2>1. PICK id \in Ids : Begins(id)
    BY <1>1, CreateBegins DEF CampaignCreate
  <2>2. PICK i \in Ids : Stores(i) /\ campaignLocked' = Raise(campaignLocked, pkg'[i])
    BY <1>1 DEF CampaignCreate
  <2>3. i = id
    BY <2>1, <2>2 DEF Begins, Touches, Stores
  <2> QED
    BY <1>1, <2>1, <2>2, <2>3 DEF Begins, CampaignCreate, CampaignStep
<1>2. CASE CampaignCollect
  <2>1. PICK id \in Ids : Collects(id)
    BY <1>2, CollectCollects DEF CampaignCollect
  <2>2. PICK i \in Ids :
          /\ Ends(i)
          /\ campaignLocked' = Lower(campaignLocked, pkg[i])
          /\ campaignClaimed' = Raise(campaignClaimed, pkg[i])
    BY <1>2 DEF CampaignCollect
  <2>3. Touches(id)
    BY <2>1 DEF Collects, Turns
  <2> QED
    BY <1>2, <2>1, <2>2, <2>3, EndsTouched DEF CampaignCollect, CampaignStep
<1>3. ASSUME NEW id \in Ids, Touches(id), NEW i \in Ids, CampaignUnlock(i)
      PROVE  /\ campaignLocked' = Lower(campaignLocked, pkg'[id])
             /\ UNCHANGED <<campaignClaimed, version>>
  BY <1>3, EndsTouched DEF CampaignUnlock
<1>4. CASE CampaignSweep
  <2>1. PICK id \in Ids : Frees(id)
    BY <1>4, SweepFrees DEF CampaignSweep
  <2>2. Touches(id)
    BY <2>1 DEF Frees, Turns
  <2> QED
    BY <1>3, <1>4, <2>1, <2>2 DEF CampaignSweep, CampaignStep
<1>5. CASE CampaignAdminister
  <2>1. PICK id \in Ids : Administers(id)
    BY <1>5, AdministerKinds DEF CampaignAdminister
  <2>2. Touches(id) /\ id \in DOMAIN pkg
    BY <2>1 DEF Administers, Disburses, Frees, Repays, Doubles, Keeps, Turns
  <2>3. Keeps(id) => \A i \in Ids : ~Ends(i)
    BY <2>2, EndsTouched DEF Keeps, Turns, Ends
  <2>4. Disburses(id) \/ Frees(id) \/ Repays(id) =>
          Ends(id) /\ (pkg'[id].status = "Refunded" => UnlocksOnRefund(id))
    BY <2>2 DEF Disburses, Frees, Repays, Turns, Ends, UnlocksOnRefund
  <2>5. CASE \E i \in Ids : Ends(i) /\ (pkg'[i].status = "Refunded" => UnlocksOnRefund(i))
    <3>1. PICK i \in Ids : CampaignUnlock(i)
      BY <1>5, <2>5 DEF CampaignAdminister
    <3>2. ~Keeps(id)
      BY <2>3, <2>5
    <3> QED
      BY <1>3, <2>1, <2>2, <3>1, <3>2 DEF Administers, CampaignStep
  <2>6. CASE ~ \E i \in Ids : Ends(i) /\ (pkg'[i].status = "Refunded" => UnlocksOnRefund(i))
    <3>1. UNCHANGED <<campaignLocked, campaignClaimed, version>>
      BY <1>5, <2>6 DEF CampaignAdminister, campaignVars
    <3>2. Doubles(id) \/ Keeps(id)
      BY <2>1, <2>4, <2>6 DEF Administers
    <3> QED
      BY <2>2, <3>1, <3>2 DEF CampaignStep
  <2> QED
    BY <2>5, <2>6
<1> QED
  BY <1>1, <1>2, <1>4, <1>5

\* The scan of migrate finds the packages of the pair: no id is at or above
\* the counter.
LEMMA BackfillIsSum ==
    ASSUME Inv, TotalsInv, NEW c \in Campaigns, NEW t \in Tokens, NEW s
    PROVE  Backfill(s)[c][t] = SumOf(pkg, StatusIn(OfCampaign(c, t), pkg, s))
<1>1. \A id \in DOMAIN pkg : id < counter
  BY DEF Inv, IndexConsistent
<1>2. \A id \in DOMAIN pkg : In(OfCampaign(c, t), pkg[id]) <=>
                               pkg[id].campaign = c /\ pkg[id].token = t
  BY DEF In, OfCampaign
<1>3. Tagged(c, t, s) = StatusIn(OfCampaign(c, t), pkg, s)
  BY <1>1, <1>2 DEF Tagged, StatusIn
<1>4. Backfill(s)[c][t] = Sum(Tagged(c, t, s)) /\ Tagged(c, t, s) \in SUBSET DOMAIN pkg
  BY DEF Backfill, Tagged
<1> QED
  BY <1>3, <1>4, SumIsSumOf DEF TotalsInv

\* A migration puts the locked total of every pair at exactly the open
\* packages, and the claimed total at the claimed ones.
LEMMA MigrateKeeps ==
    ASSUME EscrowAssumption, VersionsAssumption, Inv, TotalsInv, CampaignsInv,
           NEW v \in Versions, Migrate(v)
    PROVE  CampaignsInv'
<1>1. /\ UNCHANGED <<pkg, payouts>> /\ version' = v /\ v \in Nat
      /\ PackagesTyped /\ IsFiniteSet(DOMAIN pkg)
  BY DEF Migrate, vars, VersionsAssumption, Inv, TypeOK, TotalsInv
<1>2. CASE version = 1 /\ v = 2
  <2>1. campaignLocked' = Backfill("Created") /\ campaignClaimed' = Backfill("Claimed")
    BY <1>2 DEF Migrate
  <2>2. ASSUME NEW c \in Campaigns, NEW t \in Tokens
        PROVE  /\ campaignLocked'[c][t] \in Nat /\ campaignClaimed'[c][t] \in Nat
               /\ Balanced(OfCampaign(c, t), pkg, payouts, campaignLocked'[c][t])
               /\ ClaimsCounted(OfCampaign(c, t), pkg, payouts, campaignClaimed'[c][t])
    <3>1. PICK K : K = OfCampaign(c, t)
      OBVIOUS
    <3>2. K \in Scopes
      BY <3>1 DEF OfCampaign, Scopes
    <3>3. campaignLocked'[c][t] = Open(K, pkg) /\ campaignClaimed'[c][t] = Claimed(K, pkg)
      BY <2>1, <3>1, BackfillIsSum DEF Open, Claimed
    <3>4. SumsAreNat(K, pkg, payouts)
      <4>1. \A S \in SUBSET DOMAIN pkg : SumOf(pkg, S) \in Nat
        <5> SUFFICES ASSUME NEW S \in SUBSET DOMAIN pkg
                     PROVE  SumOf(pkg, S) \in Nat
          OBVIOUS
        <5>1. IsFiniteSet(S)
          BY <1>1, FS_Subset
        <5>2. \A i \in DOMAIN pkg : pkg[i].amount \in Nat
          BY <1>1 DEF PackagesTyped, Package
        <5>3. Alike(pkg, S, pkg, S, None)
          BY <5>1, <5>2 DEF Alike
        <5> QED
          BY <5>3, SumMoves
      <4>2. /\ \A s : StatusIn(K, pkg, s) \in SUBSET DOMAIN pkg
            /\ \A s, k : PaidIn(K, pkg, payouts, s, k) \in SUBSET DOMAIN pkg
        BY DEF StatusIn, PaidIn
      <4> QED
        BY <4>1, <4>2 DEF SumsAreNat, Open, Claimed, Collected, Disbursed, Doubled
    <3>5. EveryClaimIsPaid(K, pkg, payouts)
      BY <3>2 DEF TotalsInv
    <3>6. PICK o, g, q, e, f \in Nat :
            /\ o = Open(K, pkg) /\ g = Doubled(K, pkg, payouts) /\ q = Claimed(K, pkg)
            /\ e = Collected(K, pkg, payouts) /\ f = Disbursed(K, pkg, payouts)
      BY <3>4 DEF SumsAreNat
    <3>7. q = e + f
      BY <3>5, <3>6 DEF EveryClaimIsPaid
    <3>8. o <= o /\ o - o <= g /\ e <= q /\ q <= e + f
      BY <3>7
    <3> QED
      BY <3>1, <3>3, <3>6, <3>8 DEF Balanced, ClaimsCounted
  <2>3. campaignLocked' \in CampaignTotals /\ campaignClaimed' \in CampaignTotals
    <3>1. \A s : Backfill(s) = [c \in Campaigns |-> [t \in Tokens |-> Backfill(s)[c][t]]]
      BY DEF Backfill
    <3>2. /\ \A c \in Campaigns, t \in Tokens : Backfill("Created")[c][t] \in Nat
          /\ \A c \in Campaigns, t \in Tokens : Backfill("Claimed")[c][t] \in Nat
      BY <2>1, <2>2
    <3> QED
      BY <2>1, <3>1, <3>2 DEF CampaignTotals
  <2> QED
    BY <1>1, <2>2, <2>3 DEF CampaignsInv, CampaignsTypeOK
<1>3. CASE ~(version = 1 /\ v = 2)
  <2>1. UNCHANGED <<campaignLocked, campaignClaimed>>
    BY <1>3 DEF Migrate
  <2> QED
    BY <1>1, <2>1 DEF CampaignsInv, CampaignsTypeOK
<1> QED
  BY <1>2, <1>3

\* Keeping campaign totals and migrating them does nothing to the contract's
\* other state: every behaviour with campaigns is one of AidEscrow.
THEOREM CampaignsOnlyAdd == CampaignsSpec => Spec
<1>1. CampaignsInit => Init
  BY DEF CampaignsInit
<1>2. [CampaignsNext]_allVars => [Next]_vars
  BY DEF CampaignsNext, CampaignCreate, CampaignCollect, CampaignAdminister, CampaignSweep,
         CampaignOther, Migrate, allVars, Next
<1> QED
  BY <1>1, <1>2, PTL DEF CampaignsSpec, Spec

LEMMA InitCampaigns ==
    ASSUME CampaignsInit
    PROVE  CampaignsInv
<1>1. DOMAIN pkg = {} /\ campaignLocked = NoTotals /\ campaignClaimed = NoTotals /\ version = 1
  BY DEF CampaignsInit, Init
<1>2. ASSUME NEW K
      PROVE  /\ Open(K, pkg) = 0 /\ Collected(K, pkg, payouts) = 0
             /\ Disbursed(K, pkg, payouts) = 0 /\ Doubled(K, pkg, payouts) = 0
  <2>1. \A s : StatusIn(K, pkg, s) = {}
    BY <1>1 DEF StatusIn
  <2>2. \A s, k : PaidIn(K, pkg, payouts, s, k) = {}
    BY <2>1 DEF PaidIn
  <2>3. SumOf(pkg, {}) = 0
    BY TotalEmpty DEF SumOf
  <2> QED
    BY <2>1, <2>2, <2>3 DEF Open, Collected, Disbursed, Doubled
<1>3. \A c \in Campaigns, t \in Tokens : campaignLocked[c][t] = 0 /\ campaignClaimed[c][t] = 0
  BY <1>1 DEF NoTotals
<1>4. CampaignsTypeOK
  BY <1>1 DEF CampaignsTypeOK, NoTotals, CampaignTotals
<1>5. \A c \in Campaigns, t \in Tokens :
        /\ Balanced(OfCampaign(c, t), pkg, payouts, campaignLocked[c][t])
        /\ ClaimsCounted(OfCampaign(c, t), pkg, payouts, campaignClaimed[c][t])
  BY <1>2, <1>3 DEF Balanced, ClaimsCounted
<1> QED
  BY <1>4, <1>5 DEF CampaignsInv

LEMMA StepCampaigns ==
    ASSUME EscrowAssumption, VersionsAssumption, Inv, Inv', TotalsInv, CampaignsInv,
           [CampaignsNext]_allVars
    PROVE  CampaignsInv'
<1>1. CASE CampaignCreate \/ CampaignCollect \/ CampaignAdminister \/ CampaignSweep
  <2>1. PICK id \in Ids : Touches(id) /\ CampaignStep(id) /\ version' = version
    BY <1>1, CampaignKinds
  <2> QED
    BY <2>1, CampaignStepKeeps
<1>2. CASE CampaignOther \/ UNCHANGED allVars
  <2>1. UNCHANGED campaignVars /\ UNCHANGED <<pkg, payouts>>
    BY <1>2, OtherIdles DEF CampaignOther, allVars, vars, Idles
  <2> QED
    BY <2>1 DEF campaignVars, CampaignsInv, CampaignsTypeOK
<1>3. CASE \E v \in Versions : Migrate(v)
  BY <1>3, MigrateKeeps
<1> QED
  BY <1>1, <1>2, <1>3 DEF CampaignsNext

\* The campaigns' totals stay typed and in balance in every reachable state.
THEOREM CampaignsInvHolds == CampaignsSpec => [](Inv /\ TotalsInv /\ CampaignsInv)
<1>1. CampaignsInit => CampaignsInv
  BY InitCampaigns
<1>2. Inv /\ Inv' /\ TotalsInv /\ CampaignsInv /\ [CampaignsNext]_allVars => CampaignsInv'
  BY EscrowAssumption, VersionsAssumption, StepCampaigns
<1> QED
  BY <1>1, <1>2, CampaignsOnlyAdd, TotalsHold, PTL DEF CampaignsSpec

\* The sets the campaign bounds sum over are those of the pair's scope.
LEMMA CampaignSums ==
    ASSUME IsFiniteSet(DOMAIN pkg), NEW c \in Campaigns, NEW t \in Tokens
    PROVE  /\ CommittedTo(c, t) = Open(OfCampaign(c, t), pkg)
           /\ CollectedFrom(c, t) = Collected(OfCampaign(c, t), pkg, payouts)
           /\ DisbursedFrom(c, t) = Disbursed(OfCampaign(c, t), pkg, payouts)
           /\ Sum({id \in Of(c, t) : /\ pkg[id].status = "Refunded"
                                     /\ LastPayout(id) = "refundOfUnlocked"})
                = Doubled(OfCampaign(c, t), pkg, payouts)
<1>1. \A id \in DOMAIN pkg : In(OfCampaign(c, t), pkg[id]) <=> id \in Of(c, t)
  BY DEF In, OfCampaign, Of
<1>2. Of(c, t) \subseteq DOMAIN pkg
  BY DEF Of
<1>3. {id \in Of(c, t) : pkg[id].status = "Created"} = StatusIn(OfCampaign(c, t), pkg, "Created")
  BY <1>1, <1>2 DEF StatusIn
<1>4. \A s, k : {id \in Of(c, t) : pkg[id].status = s /\ LastPayout(id) = k}
                  = PaidIn(OfCampaign(c, t), pkg, payouts, s, k)
  BY <1>1, <1>2 DEF StatusIn, PaidIn, LastPayout
<1>5. /\ \A s : StatusIn(OfCampaign(c, t), pkg, s) \in SUBSET DOMAIN pkg
      /\ \A s, k : PaidIn(OfCampaign(c, t), pkg, payouts, s, k) \in SUBSET DOMAIN pkg
  BY DEF StatusIn, PaidIn
<1>6. CommittedTo(c, t) = Open(OfCampaign(c, t), pkg)
  BY <1>3, <1>5, SumIsSumOf DEF CommittedTo, Open
<1>7. CollectedFrom(c, t) = Collected(OfCampaign(c, t), pkg, payouts)
  BY <1>4, <1>5, SumIsSumOf DEF CollectedFrom, Collected
<1>8. DisbursedFrom(c, t) = Disbursed(OfCampaign(c, t), pkg, payouts)
  BY <1>4, <1>5, SumIsSumOf DEF DisbursedFrom, Disbursed
<1> QED
  BY <1>4, <1>5, <1>6, <1>7, <1>8, SumIsSumOf DEF Doubled

\* However claims, sweeps and migrations interleave, a campaign's locked total
\* is between its open packages and these less what it unlocked twice.
THEOREM CampaignLocksAreBounded == CampaignsSpec => []CampaignLockedBounds
<1>1. Inv /\ TotalsInv /\ CampaignsInv => CampaignLockedBounds
  BY CampaignSums DEF TotalsInv, CampaignsInv, Balanced, CampaignLockedBounds
<1> QED
  BY <1>1, CampaignsInvHolds, PTL

\* A campaign's claimed total is between what was collected and that plus what
\* was disbursed, before and after any migration.
THEOREM CampaignClaimsAreBounded == CampaignsSpec => []CampaignClaimedBounds
<1>1. Inv /\ TotalsInv /\ CampaignsInv => CampaignClaimedBounds
  BY CampaignSums DEF TotalsInv, CampaignsInv, ClaimsCounted, CampaignClaimedBounds
<1> QED
  BY <1>1, CampaignsInvHolds, PTL

\* The campaign totals never go below zero, the version is a number.
THEOREM CampaignTypesHold == CampaignsSpec => []CampaignsTypeOK
<1>1. CampaignsInv => CampaignsTypeOK
  BY DEF CampaignsInv
<1> QED
  BY <1>1, CampaignsInvHolds, PTL

-----------------------------------------------------------------------------
(* The admin's role and the distributors. *)

\* While somebody is nominated, it is the account that the admin of this
\* moment named last, and nobody else.
NominationStands == pendingAdmin # None => nomination = <<admin, pendingAdmin>>

RolesInv ==
    /\ RolesTypeOK
    /\ NominationStands
    /\ IsFiniteSet(distributors)

-----------------------------------------------------------------------------

\* What one call may do to the admin's role: nothing, nominate, accept or take
\* back; the four calls that touch KEY_ADMIN and KEY_PENDING_ADMIN.
LEMMA TransferShape ==
    ASSUME RolesNext, RolesTypeOK
    PROVE \/ UNCHANGED transferVars
          \/ \E to \in Addrs : admin' = admin /\ pendingAdmin' = to /\ nomination' = <<admin, to>>
          \/ admin' = pendingAdmin /\ pendingAdmin \in Addrs
             /\ pendingAdmin' = None /\ nomination' = <<>>
          \/ admin' = admin /\ pendingAdmin' = None /\ nomination' = <<>>
<1> PICK who \in Addrs :
        \/ \E a \in Addrs :
            TransferAdmin(who, a) \/ AddDistributor(who, a) \/ RemoveDistributor(who, a)
        \/ AcceptAdmin(who)
        \/ CancelAdminTransfer(who)
        \/ \E n \in Caps : SetMaxDistributors(who, n)
    BY DEF RolesNext
<1>1. CASE \E a \in Addrs : TransferAdmin(who, a)
    BY <1>1 DEF TransferAdmin
<1>2. CASE \E a \in Addrs : AddDistributor(who, a) \/ RemoveDistributor(who, a)
    BY <1>2 DEF AddDistributor, RemoveDistributor
<1>3. CASE AcceptAdmin(who)
    BY <1>3 DEF AcceptAdmin
<1>4. CASE CancelAdminTransfer(who)
    BY <1>4 DEF CancelAdminTransfer
<1>5. CASE \E n \in Caps : SetMaxDistributors(who, n)
    BY <1>5 DEF SetMaxDistributors
<1> QED BY <1>1, <1>2, <1>3, <1>4, <1>5

\* What one call may do to the distributors: nothing, add one where there is
\* room, remove one, or set a cap other than 0.
LEMMA DistributorShape ==
    ASSUME RolesNext
    PROVE \/ UNCHANGED distributorVars
          \/ \E a \in Addrs : /\ RoomFor(a)
                              /\ distributors' = distributors \cup {a}
                              /\ maxDistributors' = maxDistributors
          \/ \E a \in Addrs : /\ distributors' = distributors \ {a}
                              /\ maxDistributors' = maxDistributors
          \/ /\ distributors' = distributors
             /\ maxDistributors' \in Caps \ {0}
<1> PICK who \in Addrs :
        \/ \E a \in Addrs :
            TransferAdmin(who, a) \/ AddDistributor(who, a) \/ RemoveDistributor(who, a)
        \/ AcceptAdmin(who)
        \/ CancelAdminTransfer(who)
        \/ \E n \in Caps : SetMaxDistributors(who, n)
    BY DEF RolesNext
<1>1. CASE \E a \in Addrs : TransferAdmin(who, a)
    BY <1>1 DEF TransferAdmin
<1>2. CASE \E a \in Addrs : AddDistributor(who, a)
    BY <1>2 DEF AddDistributor
<1>3. CASE \E a \in Addrs : RemoveDistributor(who, a)
    BY <1>3 DEF RemoveDistributor
<1>4. CASE AcceptAdmin(who) \/ CancelAdminTransfer(who)
    BY <1>4 DEF AcceptAdmin, CancelAdminTransfer
<1>5. CASE \E n \in Caps : SetMaxDistributors(who, n)
    BY <1>5 DEF SetMaxDistributors
<1> QED BY <1>1, <1>2, <1>3, <1>4, <1>5

-----------------------------------------------------------------------------

\* Adding one distributor where there is room stays within the cap.
LEMMA RoomIsOne ==
    ASSUME NEW a, RoomFor(a), IsFiniteSet(distributors), maxDistributors \in Nat
    PROVE /\ IsFiniteSet(distributors \cup {a})
          /\ Cardinality(distributors \cup {a}) <= maxDistributors
<1>1. /\ IsFiniteSet(distributors \cup {a})
      /\ Cardinality(distributors \cup {a}) = Cardinality(distributors) + 1
    BY FS_AddElement DEF RoomFor
<1>2. Cardinality(distributors) \in Nat
    BY FS_CardinalityType
<1> QED BY <1>1, <1>2 DEF RoomFor

\* The invariant that the theorems rest on: admin, nomination and distributors
\* as init, the admin's calls and accept_admin leave them.
THEOREM RolesInvHolds == RolesSpec => []RolesInv
<1> USE RolesAssumption
<1>1. RolesInit => RolesInv
    BY FS_EmptySet DEF RolesInit, RolesInv, RolesTypeOK, NominationStands
<1>2. RolesInv /\ [RolesNext]_rolesVars => RolesInv'
    <2> SUFFICES ASSUME RolesInv, [RolesNext]_rolesVars PROVE RolesInv'
        OBVIOUS
    <2> USE DEF RolesInv
    <2>1. /\ NominationStands'
          /\ admin' \in Addrs
          /\ pendingAdmin' \in Addrs \cup {None}
          /\ nomination' \in (Addrs \X Addrs) \cup {<<>>}
        <3>1. CASE RolesNext
            BY <3>1, TransferShape DEF transferVars, NominationStands, RolesTypeOK
        <3>2. CASE UNCHANGED rolesVars
            BY <3>2 DEF rolesVars, transferVars, NominationStands, RolesTypeOK
        <3> QED BY <3>1, <3>2
    <2>2. /\ distributors' \in SUBSET Addrs
          /\ maxDistributors' \in Nat \ {0}
          /\ IsFiniteSet(distributors')
        <3>1. CASE UNCHANGED distributorVars
            BY <3>1 DEF distributorVars, RolesTypeOK
        <3>2. ASSUME NEW a \in Addrs, RoomFor(a),
                     distributors' = distributors \cup {a}, maxDistributors' = maxDistributors
              PROVE <2>2!1 /\ <2>2!2 /\ <2>2!3
            BY <3>2, RoomIsOne DEF RolesTypeOK
        <3>3. ASSUME NEW a \in Addrs,
                     distributors' = distributors \ {a}, maxDistributors' = maxDistributors
              PROVE <2>2!1 /\ <2>2!2 /\ <2>2!3
            BY <3>3, FS_RemoveElement DEF RolesTypeOK
        <3>4. CASE distributors' = distributors /\ maxDistributors' \in Caps \ {0}
            BY <3>4 DEF RolesTypeOK
        <3>5. CASE UNCHANGED rolesVars
            BY <3>1, <3>5 DEF rolesVars
        <3> QED BY <3>1, <3>2, <3>3, <3>4, <3>5, DistributorShape
    <2> QED BY <2>1, <2>2 DEF RolesTypeOK
<1> QED BY <1>1, <1>2, PTL DEF RolesSpec

\* KEY_ADMIN always names an account, and the cap is never 0: what init and the
\* checks of set_max_distributors keep.
THEOREM RolesTypesHold == RolesSpec => []RolesTypeOK
<1>1. RolesInv => RolesTypeOK
    BY DEF RolesInv
<1> QED BY <1>1, RolesInvHolds, PTL

\* The role of the admin passes only to the account that the admin of that
\* moment nominated last: transfer_admin, accept_admin, cancel_admin_transfer.
THEOREM HandoverIsByConsent == RolesSpec => HandoverByConsent
<1>1. RolesInv /\ [RolesNext]_rolesVars
        => [admin' # admin => nomination = <<admin, admin'>>]_rolesVars
    <2> SUFFICES ASSUME RolesInv, RolesNext, admin' # admin
                 PROVE nomination = <<admin, admin'>>
        OBVIOUS
    <2> QED BY TransferShape, RolesAssumption
            DEF transferVars, RolesInv, NominationStands, RolesTypeOK
<1> QED BY <1>1, RolesInvHolds, PTL DEF RolesSpec, HandoverByConsent

\* add_distributor never takes the number of distributors past the cap of that
\* moment, also after the cap was lowered below the number.
THEOREM GrowthStaysCapped == RolesSpec => GrowthIsCapped
<1>1. RolesInv /\ [RolesNext]_rolesVars
        => [distributors \subseteq distributors' /\ distributors # distributors'
              => Cardinality(distributors') <= maxDistributors]_rolesVars
    <2> SUFFICES ASSUME RolesInv, RolesNext,
                        distributors \subseteq distributors', distributors # distributors'
                 PROVE Cardinality(distributors') <= maxDistributors
        OBVIOUS
    <2>1. PICK a \in Addrs : RoomFor(a) /\ distributors' = distributors \cup {a}
        BY DistributorShape DEF distributorVars
    <2> QED BY <2>1, RoomIsOne DEF RolesInv, RolesTypeOK
<1> QED BY <1>1, RolesInvHolds, PTL DEF RolesSpec, GrowthIsCapped

=============================================================================
