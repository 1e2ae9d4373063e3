----------------------------- MODULE BudgetBook -----------------------------
(***************************************************************************)
(* What a campaign's budget promises to its claims, as if a claim were     *)
(* booked at once: a claim and its ledger entry are written together and   *)
(* once, for one amount; a new claim is booked only while the sum of the   *)
(* entries fits the limit; a replacement is booked without that check and  *)
(* names the claim it replaces.  Nothing else moves the sum.               *)
(***************************************************************************)
EXTENDS Naturals

CONSTANTS
    Claim,    \* claims that may ever be booked
    Amount,   \* amounts a claim can be booked for
    Limit,    \* limits the campaign can have
    Nobody    \* what a claim that replaces no other names

VARIABLES
    grant,   \* grant[c]: what c was booked for, 0 if it was not
    entry,   \* entry[c]: what the ledger holds for c
    origin,  \* origin[c]: the claim that c replaces
    used,    \* the sum of the entries
    limit    \* the campaign's limit

bookVars == <<grant, entry, origin, used, limit>>

BookInit ==
    /\ grant = [c \in Claim |-> 0] /\ entry = [c \in Claim |-> 0]
    /\ origin = [c \in Claim |-> Nobody]
    /\ used = 0
    /\ limit \in Limit

Write(c, a, old) ==
    /\ grant[c] = 0 /\ entry[c] = 0
    /\ grant' = [grant EXCEPT ![c] = a] /\ entry' = [entry EXCEPT ![c] = a]
    /\ origin' = [origin EXCEPT ![c] = old]
    /\ used' = used + a
    /\ UNCHANGED limit

Book(c, a) == used + a <= limit /\ Write(c, a, Nobody)

Replace(old, new, a) == grant[old] # 0 /\ Write(new, a, old)

SetLimit ==
    /\ limit' \in Limit
    /\ UNCHANGED <<grant, entry, origin, used>>

BookNext ==
    \/ SetLimit
    \/ \E c \in Claim, a \in Amount : Book(c, a) \/ \E old \in Claim : Replace(old, c, a)

BookSpec == BookInit /\ [][BookNext]_bookVars

=============================================================================
