----------------------------- MODULE SealedLog -----------------------------
(***************************************************************************)
(* What a tamper-evident log promises, however its entries are written:    *)
(* an entry is sealed once, after all the others and directly after the    *)
(* one it links to; its place and its link never change; and once it is    *)
(* removed it never comes back.                                            *)
(***************************************************************************)
EXTENDS Naturals

CONSTANTS
    Entry,    \* entries that may ever be written
    NoEntry   \* what the first entry links to

VARIABLES
    place,  \* place[e]: where e stands in the chain, 0 if nowhere
    link,   \* link[e]: the entry that e was sealed after
    gone    \* the entries that have been removed

logVars == <<place, link, gone>>

LogInit ==
    /\ place = [e \in Entry |-> 0]
    /\ link = [e \in Entry |-> NoEntry]
    /\ gone = {}

Sealable(e) == e \notin gone /\ place[e] = 0

\* There is no entry, or one that has gone, or none at all between e and the
\* entry it links to.
Follows(e) ==
    \/ link'[e] = NoEntry /\ place'[e] = 1
    \/ link'[e] \in gone
    \/ /\ link'[e] \in Entry /\ place'[link'[e]] # 0
       /\ place'[e] = place'[link'[e]] + 1

Seal(new) ==
    /\ UNCHANGED gone
    /\ \A e \in new : /\ Sealable(e) /\ Follows(e)
                      /\ \A f \in Entry : place[f] < place'[e]
                      /\ \A f \in new : place'[e] = place'[f] => e = f
    /\ place' = [e \in Entry |-> IF e \in new THEN place'[e] ELSE place[e]]
    /\ link' = [e \in Entry |-> IF e \in new THEN link'[e] ELSE link[e]]

Remove(old) ==
    /\ old \cap gone = {} /\ gone' = gone \cup old
    /\ place' = [e \in Entry |-> IF e \in old THEN 0 ELSE place[e]]
    /\ link' = [e \in Entry |-> IF e \in old THEN NoEntry ELSE link[e]]

LogNext == \E s \in SUBSET Entry : Seal(s) \/ Remove(s)

LogSpec == LogInit /\ [][LogNext]_logVars

=============================================================================
