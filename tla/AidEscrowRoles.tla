--------------------------- MODULE AidEscrowRoles ---------------------------
(***************************************************************************)
(* Who may do what in the AidEscrow contract: the admin, whose role moves  *)
(* in two steps, and the distributors, who may create packages and whose   *)
(* number is capped.  Each step is a call signed by `who`.                 *)
(***************************************************************************)
EXTENDS AidEscrowParties, Integers, FiniteSets

CONSTANTS
    Deployer,    \* the admin given to init
    Caps,        \* arguments of set_max_distributors
    DefaultCap   \* DEFAULT_MAX_DISTRIBUTORS

ASSUME RolesAssumption ==
    /\ Deployer \in Addrs
    /\ None \notin Addrs
    /\ Caps \subseteq Nat
    /\ DefaultCap \in Nat \ {0}

VARIABLES
    admin,            \* KEY_ADMIN
    pendingAdmin,     \* KEY_PENDING_ADMIN
    distributors,     \* KEY_DISTRIBUTORS
    maxDistributors,  \* KEY_MAX_DISTRIBUTORS
    nomination        \* history: the nomination that stands, <<from, to>>

transferVars == <<admin, pendingAdmin, nomination>>
distributorVars == <<distributors, maxDistributors>>
rolesVars == <<transferVars, distributorVars>>

RolesTypeOK ==
    /\ admin \in Addrs
    /\ pendingAdmin \in Addrs \cup {None}
    /\ distributors \in SUBSET Addrs
    /\ maxDistributors \in Nat \ {0}
    /\ nomination \in (Addrs \X Addrs) \cup {<<>>}

-----------------------------------------------------------------------------

\* A second nomination replaces the first.
TransferAdmin(who, to) ==
    /\ who = admin
    /\ to # admin
    /\ pendingAdmin' = to
    /\ nomination' = <<admin, to>>
    /\ UNCHANGED <<admin, distributorVars>>

AcceptAdmin(who) ==
    /\ who = pendingAdmin
    /\ admin' = who
    /\ pendingAdmin' = None
    /\ nomination' = <<>>
    /\ UNCHANGED distributorVars

BrokenCancelAdminTransfer(who) ==  \* the nomination stays
    /\ who = admin
    /\ pendingAdmin # None
    /\ nomination' = <<>>
    /\ UNCHANGED <<admin, pendingAdmin, distributorVars>>

CancelAdminTransfer(who) ==
    /\ who = admin
    /\ pendingAdmin # None
    /\ pendingAdmin' = None
    /\ nomination' = <<>>
    /\ UNCHANGED <<admin, distributorVars>>

BrokenRoomFor(a) == a \notin distributors  \* no cap

\* Lowering the cap evicts nobody, so there may be more distributors than it.
RoomFor(a) == a \notin distributors /\ Cardinality(distributors) < maxDistributors

AddDistributor(who, a) ==
    /\ who = admin
    /\ RoomFor(a)
    /\ distributors' = distributors \cup {a}
    /\ UNCHANGED <<transferVars, maxDistributors>>

RemoveDistributor(who, a) ==
    /\ who = admin
    /\ a \in distributors
    /\ distributors' = distributors \ {a}
    /\ UNCHANGED <<transferVars, maxDistributors>>

SetMaxDistributors(who, n) ==
    /\ who = admin
    /\ n # 0
    /\ maxDistributors' = n
    /\ UNCHANGED <<transferVars, distributors>>

RolesInit ==
    /\ admin = Deployer
    /\ pendingAdmin = None
    /\ distributors = {}
    /\ maxDistributors = DefaultCap
    /\ nomination = <<>>

RolesNext ==
    \E who \in Addrs :
        \/ \E a \in Addrs :
            TransferAdmin(who, a) \/ AddDistributor(who, a) \/ RemoveDistributor(who, a)
        \/ AcceptAdmin(who)
        \/ CancelAdminTransfer(who)
        \/ \E n \in Caps : SetMaxDistributors(who, n)

RolesSpec == RolesInit /\ [][RolesNext]_rolesVars

-----------------------------------------------------------------------------
(* Properties *)

\* The role passes only to the account that the admin of that moment nominated
\* last, and not after that admin took the nomination back.
HandoverByConsent == [][admin' # admin => nomination = <<admin, admin'>>]_rolesVars

\* The set of distributors grows only up to the cap of that moment, whatever
\* the cap and the admin were before.
GrowthIsCapped ==
    [][distributors \subseteq distributors' /\ distributors # distributors'
        => Cardinality(distributors') <= maxDistributors]_rolesVars

=============================================================================
