-------------------------- MODULE AuditChainProofs --------------------------
(***************************************************************************)
(* What AuditChain guarantees for every choice of its constants: one       *)
(* chain, no false alarm, no damage passed over.                           *)
(*                                                                         *)
(* A hash names the row it was computed for, ids are never used again, and *)
(* only the holder of the advisory lock seals rows.  So the link of a row  *)
(* is the hash of a sealed row or names a deleted one (Anchored), and as   *)
(* long as nothing is deleted it is the hash of the row one before         *)
(* (Continues).  The walk keeps two promises while it goes on: its cursor  *)
(* continues the chain, and a damaged row is still ahead of it, with       *)
(* enough rows left to count for the walk to get there (StillAhead).       *)
(***************************************************************************)
EXTENDS AuditChain, SumTheorems

-----------------------------------------------------------------------------
(* The rows. *)

IsRow(r) ==
    /\ r = [at |-> r.at, seq |-> r.seq, prev |-> r.prev, hash |-> r.hash,
            content |-> r.content, stamped |-> r.stamped]
    /\ r.at \in {"absent", "legacy", "sealed", "deleted"}
    /\ r.seq \in Nat /\ (r.seq # 0 <=> r.at = "sealed")
    /\ (r.content # "none" <=> r.at \in {"legacy", "sealed"})
    /\ r.stamped \in BOOLEAN

\* h is the hash of a sealed row, or of one that has been deleted.
Anchored(h) ==
    \/ h = Genesis
    \/ /\ h # Genesis /\ h[1] \in Ids
       /\ \/ log[h[1]].at = "deleted"
          \/ log[h[1]].at = "sealed" /\ log[h[1]].hash = h

\* h is what the row after sequence seq links to, if nothing was deleted.
Continues(seq, h) ==
    \/ seq = 0 /\ h = Genesis
    \/ \E j \in SealedIn(log) : log[j].seq = seq /\ log[j].hash = h

RowsWell ==
    /\ log = [i \in Ids |-> log[i]]
    /\ \A i \in Ids : IsRow(log[i])
    /\ rewrites \in 0 .. MaxRewrites /\ purged \in BOOLEAN

\* Until it is stamped, a row has the content it was written with, unless
\* something else has rewritten it.
Sealed(i) ==
    /\ log[i].hash # Genesis /\ log[i].hash[1] = i
    /\ ~log[i].stamped =>
         /\ log[i].hash = EntryHash(i, log[i].seq, log[i].prev, "original")
         /\ log[i].content \in {"original", "rewritten"}
         /\ log[i].content = "rewritten" => rewrites > 0
    /\ Anchored(log[i].prev)
    /\ ~purged => Continues(log[i].seq - 1, log[i].prev)

ChainWell ==
    /\ \A i \in SealedIn(log) : Sealed(i)
    /\ \A i, j \in SealedIn(log) : log[i].seq = log[j].seq => i = j
    /\ \A i \in LegacyRows : ~log[i].stamped => log[i].content = "original"
    /\ \A i \in Ids : log[i].at = "deleted" => purged

-----------------------------------------------------------------------------
(* The transactions. *)

Open(p) == tx[p].at \in {"append", "backfill"}

IsTx(t) ==
    /\ t = [at |-> t.at, head |-> t.head, batch |-> t.batch]
    /\ t.at \in {"idle", "record", "append", "backfill"}

\* The row that the hash h was read from, if it is still there, stands at seq.
Numbered(seq, h) ==
    /\ h = Genesis => seq = 0
    /\ h # Genesis /\ log[h[1]].at = "sealed" => log[h[1]].seq = seq

HeadWell(head) ==
    /\ head.seq \in Nat
    /\ Numbered(head.seq, head.hash)
    /\ \A i \in SealedIn(log) : log[i].seq <= head.seq
    /\ Anchored(head.hash)
    /\ ~purged => Continues(head.seq, head.hash)

BatchWell(batch) ==
    /\ batch = [i \in DOMAIN batch |-> batch[i]]
    /\ DOMAIN batch \subseteq Ids
    /\ \A i \in DOMAIN batch :
        \/ log[i].at = "deleted"
        \/ log[i].at = "legacy" /\ (log[i].stamped \/ batch[i] = "original")

TxWell ==
    /\ tx = [p \in Writers |-> tx[p]]
    /\ lock \in Writers \cup {None}
    /\ \A p \in Writers :
        /\ IsTx(tx[p])
        /\ Open(p) <=> lock = p
        /\ Open(p) => HeadWell(tx[p].head)
        /\ tx[p].at = "backfill" => BatchWell(tx[p].batch)

-----------------------------------------------------------------------------
(* The walk. *)

IsWalk(w) ==
    /\ w = [at |-> w.at, total |-> w.total, processed |-> w.processed,
            expected |-> w.expected, last |-> w.last, issues |-> w.issues,
            cut |-> w.cut, broken |-> w.broken]
    /\ w.at \in {"idle", "walking", "done"}
    /\ w.total \in 0 .. MaxRows /\ w.processed \in Nat /\ w.last \in Nat
    /\ w.issues \in BOOLEAN /\ w.cut \in BOOLEAN
    /\ w.broken \subseteq Ids

\* The row is still there to be reported.
Unmended(i) == log[i].at = "sealed" /\ ~log[i].stamped

\* Why a damaged row will be found when the walk gets to it.
Detectable(i) ==
    \/ log[i].content = "rewritten"
    \/ /\ log[i].prev # Genesis /\ log[i].prev[1] \in Ids
       /\ log[log[i].prev[1]].at = "deleted"
       /\ walk.expected # log[i].prev

\* The walk gets there: all it has processed and will process before row i
\* was in the chain when the walk began, and so was row i itself.
StillAhead(i) ==
    /\ log[i].seq > walk.last
    /\ \E start, seen \in SUBSET Ids :
        /\ Cardinality(start) = walk.total /\ Cardinality(seen) = walk.processed
        /\ seen \subseteq start /\ i \in start \ seen
        /\ \A j \in seen : log[j].at \in {"sealed", "deleted"}
        /\ \A j \in SealedIn(log) :
            /\ log[j].seq <= log[i].seq => j \in start
            /\ j \in seen => log[j].seq <= walk.last

WalkWell ==
    /\ IsWalk(walk)
    /\ \A i \in walk.broken : log[i].at \in {"sealed", "deleted"}
    /\ walk.issues => purged \/ rewrites > 0
    /\ walk.at = "walking" => /\ ~purged => Continues(walk.last, walk.expected)
                              /\ ~walk.issues =>
                                   \A i \in walk.broken :
                                       Unmended(i) => Detectable(i) /\ StillAhead(i)
    /\ walk.at = "done" /\ ~walk.cut /\ ~walk.issues =>
           \A i \in walk.broken : ~Unmended(i)

Inv == RowsWell /\ ChainWell /\ TxWell /\ WalkWell

-----------------------------------------------------------------------------
(* Hashes, and the greatest of finitely many. *)

LEMMA HashFacts ==
    ASSUME NEW i, NEW s, NEW h, NEW c
    PROVE  /\ EntryHash(i, s, h, c) # Genesis
           /\ EntryHash(i, s, h, c)[1] = i
           /\ \A d : EntryHash(i, s, h, c) = EntryHash(i, s, h, d) => c = d
<1>1. EntryHash(i, s, h, c)[1] = i /\ EntryHash(i, s, h, c)[4] = c
  BY DEF EntryHash
<1>2. \A d : EntryHash(i, s, h, d)[4] = d
  BY DEF EntryHash
<1>3. DOMAIN EntryHash(i, s, h, c) = 1 .. 4 /\ DOMAIN Genesis = 1 .. 0
  BY DEF EntryHash, Genesis
<1> QED
  BY <1>1, <1>2, <1>3

\* A finite set that is not empty has an element of the greatest value, and
\* one of the least.
LEMMA GreatestExists ==
    ASSUME NEW S, IsFiniteSet(S), S # {}, NEW f, \A x \in S : f[x] \in Int
    PROVE  \E m \in S : \A x \in S : f[x] <= f[m]
<1> DEFINE T == {t \in SUBSET S : t # {} /\ ~ \E m \in t : \A x \in t : f[x] <= f[m]}
<1> SUFFICES ASSUME T # {} PROVE FALSE
  OBVIOUS
<1>0. T \in SUBSET (SUBSET S)
  OBVIOUS
<1> HIDE DEF T
<1>1. PICK t \in T : \A u \in SUBSET t : u # t => u \notin T
  BY <1>0, SmallestSubset
<1> USE DEF T
<1>2. t \subseteq S /\ t # {} /\ ~ \E m \in t : \A x \in t : f[x] <= f[m]
  OBVIOUS
<1>3. PICK a \in t : TRUE
  BY <1>2
<1>4. PICK u : u = t \ {a}
  OBVIOUS
<1>5. u \in SUBSET t /\ u # t /\ u \subseteq S
  BY <1>2, <1>3, <1>4
<1>6. u = {} \/ \E m \in u : \A x \in u : f[x] <= f[m]
  BY <1>1, <1>5
<1>7. CASE u = {}
  BY <1>2, <1>3, <1>4, <1>7
<1>8. CASE \E m \in u : \A x \in u : f[x] <= f[m]
  <2>1. PICK m \in u : \A x \in u : f[x] <= f[m]
    BY <1>8
  <2>2. m \in t /\ m \in S /\ a \in S
    BY <1>2, <1>3, <1>5, <2>1
  <2>3. f[m] \in Int /\ f[a] \in Int
    BY <2>2
  <2>4. CASE f[a] <= f[m]
    BY <1>2, <1>4, <2>1, <2>2, <2>4
  <2>5. CASE f[m] <= f[a]
    <3>1. \A x \in t : f[x] \in Int /\ (x = a \/ f[x] <= f[m])
      BY <1>2, <1>4, <2>1
    <3>2. \A x \in t : f[x] <= f[a]
      BY <2>3, <2>5, <3>1
    <3> QED
      BY <1>2, <1>3, <3>2
  <2> QED
    BY <2>3, <2>4, <2>5
<1> QED
  BY <1>6, <1>7, <1>8

LEMMA LeastExists ==
    ASSUME NEW S, IsFiniteSet(S), S # {}, NEW f, \A x \in S : f[x] \in Int
    PROVE  \E m \in S : \A x \in S : f[m] <= f[x]
<1>1. PICK g : g = [x \in S |-> 0 - f[x]]
  OBVIOUS
<1>2. \A x \in S : g[x] \in Int /\ g[x] = 0 - f[x]
  BY <1>1
<1>3. PICK m \in S : \A x \in S : g[x] <= g[m]
  BY <1>2, GreatestExists
<1>4. \A x \in S : f[m] <= f[x]
  BY <1>2, <1>3
<1> QED
  BY <1>4

\* Ids are numbers, and there are finitely many.
LEMMA IdsFacts ==
    ASSUME AuditAssumption
    PROVE  /\ Ids \subseteq Nat /\ IsFiniteSet(Ids) /\ Cardinality(Ids) = MaxRows
           /\ \A S \in SUBSET Ids : /\ IsFiniteSet(S) /\ Cardinality(S) \in Nat
                                    /\ Cardinality(S) <= MaxRows
<1>1. Ids \subseteq Nat /\ IsFiniteSet(Ids) /\ Cardinality(Ids) = MaxRows
  BY FS_Interval DEF AuditAssumption, Ids
<1>2. \A S \in SUBSET Ids : /\ IsFiniteSet(S) /\ Cardinality(S) \in Nat
                            /\ Cardinality(S) <= MaxRows
  BY <1>1, FS_Subset, FS_CardinalityType
<1> QED
  BY <1>1, <1>2

\* Max of ids is the greatest of them.
LEMMA MaxIs ==
    ASSUME AuditAssumption, NEW S \in SUBSET Ids, S # {}
    PROVE  Max(S) \in S /\ \A j \in S : j <= Max(S)
<1>1. IsFiniteSet(S) /\ S \subseteq Nat
  BY IdsFacts
<1>2. PICK f : f = [x \in S |-> x]
  OBVIOUS
<1>3. \A x \in S : f[x] = x /\ f[x] \in Int
  BY <1>1, <1>2
<1>4. \E m \in S : \A x \in S : f[x] <= f[m]
  BY <1>1, <1>3, GreatestExists
<1>5. \E m \in S : \A x \in S : m >= x
  BY <1>1, <1>3, <1>4
<1>6. Max(S) \in S /\ \A x \in S : Max(S) >= x
  BY <1>5 DEF Max
<1> QED
  BY <1>1, <1>6

-----------------------------------------------------------------------------
(* The links of a batch. *)

\* The rows of s before row i.
Before(s, i) == {j \in s : j < i}

\* prev gives each row of s the hash of the row before, and the first h.
Links(prev, s, h, head, batch) ==
    prev = [i \in s |-> IF Before(s, i) = {} THEN h
                        ELSE EntryHash(Max(Before(s, i)), BatchSeq(head, batch, Max(Before(s, i))),
                                       prev[Max(Before(s, i))], batch[Max(Before(s, i))])]

LEMMA LinksExist ==
    ASSUME AuditAssumption, NEW D \in SUBSET Ids, NEW h, NEW head, NEW batch
    PROVE  \E prev : Links(prev, D, h, head, batch)
<1> DEFINE T == {s \in SUBSET D : ~ \E prev : Links(prev, s, h, head, batch)}
<1> SUFFICES ASSUME T # {} PROVE FALSE
  OBVIOUS
<1>0. T \in SUBSET (SUBSET D) /\ IsFiniteSet(D)
  BY IdsFacts
<1> HIDE DEF T
<1>1. PICK s \in T : \A u \in SUBSET s : u # s => u \notin T
  BY <1>0, SmallestSubset
<1> USE DEF T
<1>2. s \subseteq D /\ ~ \E prev : Links(prev, s, h, head, batch)
  OBVIOUS
<1>3. CASE s = {}
  <2>1. Links([i \in s |-> h], s, h, head, batch)
    BY <1>3 DEF Links
  <2> QED
    BY <1>2, <2>1
<1>4. CASE s # {}
  <2>1. PICK m \in s : \A j \in s : j <= m
    BY <1>2, <1>4, MaxIs
  <2>2. PICK u : u = s \ {m}
    OBVIOUS
  <2>3. u \in SUBSET s /\ u # s /\ u \in SUBSET D
    BY <1>2, <2>1, <2>2
  <2>4. PICK low : Links(low, u, h, head, batch)
    BY <1>1, <2>3
  <2>5. PICK top : top = IF u = {} THEN h
                         ELSE EntryHash(Max(u), BatchSeq(head, batch, Max(u)), low[Max(u)],
                                        batch[Max(u)])
    OBVIOUS
  <2>6. PICK prev : prev = [i \in s |-> IF i = m THEN top ELSE low[i]]
    OBVIOUS
  <2>7. s \subseteq Nat
    BY <1>2, IdsFacts
  <2>8. Before(s, m) = u
    <3>1. \A j \in s : j \in Nat /\ m \in Nat /\ (j < m <=> j # m)
      BY <2>1, <2>7
    <3>2. Before(s, m) = {j \in s : j # m}
      BY <3>1 DEF Before
    <3> QED
      BY <2>2, <3>2
  <2>9. ASSUME NEW i \in u
        PROVE  Before(s, i) = Before(u, i) /\ Before(u, i) \subseteq u
    BY <2>1, <2>2, <2>7 DEF Before
  <2>10. ASSUME NEW w \in SUBSET u, w # {}
         PROVE  Max(w) \in w /\ Max(w) # m /\ prev[Max(w)] = low[Max(w)]
    <3>1. w \in SUBSET Ids
      BY <1>2, <2>3
    <3>2. Max(w) \in w
      BY <2>10, <3>1, MaxIs
    <3>3. Max(w) \in s /\ Max(w) # m
      BY <2>2, <3>2
    <3> QED
      BY <2>6, <3>2, <3>3
  <2>11. ASSUME NEW i \in s
         PROVE  prev[i] = IF Before(s, i) = {} THEN h
                          ELSE EntryHash(Max(Before(s, i)),
                                         BatchSeq(head, batch, Max(Before(s, i))),
                                         prev[Max(Before(s, i))], batch[Max(Before(s, i))])
    <3>1. CASE i = m
      <4>1. prev[i] = top /\ Before(s, i) = u
        BY <2>6, <2>8, <3>1
      <4>2. u # {} => prev[Max(u)] = low[Max(u)]
        BY <2>10
      <4> QED
        BY <2>5, <4>1, <4>2
    <3>2. CASE i # m
      <4>1. i \in u /\ prev[i] = low[i]
        BY <2>2, <2>6, <3>2
      <4>2. PICK w : w = Before(u, i) /\ w = Before(s, i) /\ w \in SUBSET u
        BY <2>9, <4>1
      <4>3. low[i] = IF Before(u, i) = {} THEN h
                     ELSE EntryHash(Max(Before(u, i)), BatchSeq(head, batch, Max(Before(u, i))),
                                    low[Max(Before(u, i))], batch[Max(Before(u, i))])
        BY <2>4, <4>1 DEF Links
      <4>4. low[i] = IF w = {} THEN h
                     ELSE EntryHash(Max(w), BatchSeq(head, batch, Max(w)), low[Max(w)],
                                    batch[Max(w)])
        BY <4>2, <4>3
      <4>5. w # {} => prev[Max(w)] = low[Max(w)]
        BY <2>10, <4>2
      <4> QED
        BY <4>1, <4>2, <4>4, <4>5
    <3> QED
      BY <3>1, <3>2
  <2>12. Links(prev, s, h, head, batch)
    BY <2>6, <2>11 DEF Links
  <2> QED
    BY <1>2, <2>12
<1> QED
  BY <1>3, <1>4

\* The recursive function of CommitBackfill computes these links.
LEMMA PrevHashLinks ==
    ASSUME AuditAssumption, NEW head, NEW batch, DOMAIN batch \subseteq Ids
    PROVE  Links(PrevHash(head, batch), DOMAIN batch, head.hash, head, batch)
<1>1. \E prev : Links(prev, DOMAIN batch, head.hash, head, batch)
  BY LinksExist
<1>2. PrevHash(head, batch) = CHOOSE prev : Links(prev, DOMAIN batch, head.hash, head, batch)
  BY DEF PrevHash, Links, Before
<1> QED
  BY <1>1, <1>2

\* The rows of a batch are numbered from the head on, without a gap.
LEMMA BatchSeqFacts ==
    ASSUME AuditAssumption, NEW head, head.seq \in Nat, NEW batch, DOMAIN batch \subseteq Ids,
           NEW i \in DOMAIN batch
    PROVE  /\ BatchSeq(head, batch, i) \in Nat /\ BatchSeq(head, batch, i) > head.seq
           /\ Before(DOMAIN batch, i) = {} => BatchSeq(head, batch, i) = head.seq + 1
           /\ Before(DOMAIN batch, i) # {} =>
                /\ Max(Before(DOMAIN batch, i)) \in DOMAIN batch
                /\ BatchSeq(head, batch, i) = BatchSeq(head, batch, Max(Before(DOMAIN batch, i))) + 1
           /\ \A k \in DOMAIN batch :
                BatchSeq(head, batch, i) = BatchSeq(head, batch, k) => i = k
<1> DEFINE D == DOMAIN batch
           UpTo(k) == {j \in D : j <= k}
<1>0. /\ D \subseteq Nat
      /\ \A S \in SUBSET D : IsFiniteSet(S) /\ Cardinality(S) \in Nat
  BY IdsFacts
<1>1. PICK b : b = Before(D, i)
  OBVIOUS
<1>2. b \in SUBSET D /\ i \notin b /\ UpTo(i) = b \cup {i} /\ UpTo(i) \in SUBSET D
  BY <1>0, <1>1 DEF Before
<1>3. Cardinality(UpTo(i)) = Cardinality(b) + 1 /\ Cardinality(b) \in Nat
  BY <1>0, <1>2, FS_AddElement
<1>4. BatchSeq(head, batch, i) = head.seq + Cardinality(b) + 1
  BY <1>3 DEF BatchSeq
<1>5. b = {} => Cardinality(b) = 0
  BY FS_EmptySet
<1>6. ASSUME b # {}
      PROVE  Max(b) \in D /\ BatchSeq(head, batch, Max(b)) = head.seq + Cardinality(b)
  <2>1. PICK m : m = Max(b) /\ m \in b /\ \A j \in b : j <= m
    BY <1>2, <1>6, MaxIs
  <2>2. m \in D /\ m < i /\ \A j \in D : j < i <=> j \in b
    BY <1>1, <2>1 DEF Before
  <2>3. \A j \in D : j <= m <=> j \in b
    BY <1>0, <2>1, <2>2
  <2>4. UpTo(m) = b
    BY <1>2, <2>3
  <2> QED
    BY <2>1, <2>2, <2>4 DEF BatchSeq
<1>7. ASSUME NEW k \in D, BatchSeq(head, batch, i) = BatchSeq(head, batch, k)
      PROVE  i = k
  <2>1. UpTo(i) \in SUBSET D /\ UpTo(k) \in SUBSET D /\ i \in UpTo(i) /\ k \in UpTo(k)
    BY <1>0
  <2>2. Cardinality(UpTo(i)) = Cardinality(UpTo(k))
    BY <1>0, <1>7, <2>1 DEF BatchSeq
  <2>3. i \in Nat /\ k \in Nat
    BY <1>0
  <2>4. CASE i <= k
    <3>1. UpTo(i) \in SUBSET UpTo(k)
      BY <1>0, <2>3, <2>4
    <3>2. UpTo(i) = UpTo(k)
      BY <1>0, <2>1, <2>2, <3>1, FS_Subset
    <3> QED
      BY <2>1, <2>3, <2>4, <3>2
  <2>5. CASE k <= i
    <3>1. UpTo(k) \in SUBSET UpTo(i)
      BY <1>0, <2>3, <2>5
    <3>2. UpTo(i) = UpTo(k)
      BY <1>0, <2>1, <2>2, <3>1, FS_Subset
    <3> QED
      BY <2>1, <2>3, <2>5, <3>2
  <2> QED
    BY <2>3, <2>4, <2>5
<1> QED
  BY <1>1, <1>3, <1>4, <1>5, <1>6, <1>7

LEMMA LastOfIs ==
    ASSUME AuditAssumption, NEW rows, NEW rs \in SUBSET Ids, rs # {},
           \A i \in rs : rows[i].seq \in Nat
    PROVE  LastOf(rows, rs) \in rs /\ \A j \in rs : rows[j].seq <= rows[LastOf(rows, rs)].seq
<1>1. IsFiniteSet(rs)
  BY IdsFacts
<1>2. PICK f : f = [i \in rs |-> rows[i].seq]
  OBVIOUS
<1>3. \A i \in rs : f[i] = rows[i].seq /\ f[i] \in Int
  BY <1>2
<1>4. \E i \in rs : \A j \in rs : f[j] <= f[i]
  BY <1>1, <1>3, GreatestExists
<1>5. \E i \in rs : \A j \in rs : rows[j].seq <= rows[i].seq
  BY <1>3, <1>4
<1> QED
  BY <1>5 DEF LastOf

-----------------------------------------------------------------------------
(* How a row may change in a step. *)

\* Sealed, and later: the link and the hash stay.
Kept(i) ==
    /\ log[i].at = "sealed" /\ log'[i].at = "sealed"
    /\ log'[i].seq = log[i].seq /\ log'[i].prev = log[i].prev /\ log'[i].hash = log[i].hash
    /\ log[i].stamped => log'[i].stamped
    /\ ~log'[i].stamped =>
         \/ log'[i].content = log[i].content
         \/ log'[i].content = "rewritten" /\ rewrites' > 0

\* Sealed by the step, after every other row.
Fresh(i) ==
    /\ log[i].at \in {"absent", "legacy"} /\ log'[i].at = "sealed"
    /\ \A j \in SealedIn(log) : log[j].seq < log'[i].seq

Evolves(i) ==
    \/ log'[i] = log[i]
    \/ Kept(i)
    \/ Fresh(i)
    \/ log[i].at = "legacy" /\ log'[i].at = "legacy" /\ log'[i].stamped
    \/ log[i].at \in {"legacy", "sealed"} /\ log'[i].at = "deleted" /\ purged'

Evolution ==
    /\ \A i \in Ids : Evolves(i)
    /\ rewrites <= rewrites' /\ (purged => purged')

\* What a step may do to the log.
LogShape ==
    \/ UNCHANGED <<log, rewrites, purged>>
    \/ \E p \in Writers, strategy \in Strategies, rows \in SUBSET Ids : Purge(p, strategy, rows)
    \/ \E i \in Ids : Rewrite(i)
    \/ \E p \in Writers, i \in Ids : CommitAppend(p, i)
    \/ \E p \in Writers : CommitBackfill(p)

LEMMA StepLogShape ==
    ASSUME [Next]_vars
    PROVE  LogShape
BY DEF Next, vars, LogShape, BeginAppend, BeginBackfill, Rollback, StartWalk, WalkPage

\* Ways to change a row that leave a row.
LEMMA DeletedIsRow == IsRow(Deleted) /\ Deleted.at = "deleted"
<1>1. PICK a : a = Absent
  OBVIOUS
<1>2. a = [at |-> "absent", seq |-> 0, prev |-> Genesis, hash |-> Genesis,
           content |-> "none", stamped |-> FALSE]
  BY <1>1 DEF Absent
<1>3. Deleted = [a EXCEPT !.at = "deleted"]
  BY <1>1 DEF Deleted
<1>4. Deleted = [at |-> "deleted", seq |-> 0, prev |-> Genesis, hash |-> Genesis,
                 content |-> "none", stamped |-> FALSE]
  BY <1>2, <1>3
<1> QED
  BY <1>4 DEF IsRow

LEMMA StampMakesRow ==
    ASSUME NEW r, IsRow(r), r.at \in {"legacy", "sealed"},
           NEW strategy, NEW n, n = Stamped(r, strategy)
    PROVE  /\ IsRow(n) /\ n.stamped /\ n.at = r.at
           /\ n.seq = r.seq /\ n.prev = r.prev /\ n.hash = r.hash
<1>1. CASE r.stamped
  BY <1>1 DEF Stamped
<1>2. CASE ~r.stamped
  <2>1. PICK c : c = IF strategy = "anonymize" THEN "redacted" ELSE r.content
    OBVIOUS
  <2>2. n = [at |-> r.at, seq |-> r.seq, prev |-> r.prev, hash |-> r.hash,
             content |-> c, stamped |-> TRUE]
    BY <1>2, <2>1 DEF Stamped, IsRow
  <2>3. c # "none"
    BY <2>1 DEF IsRow
  <2> QED
    BY <2>2, <2>3 DEF IsRow
<1> QED
  BY <1>1, <1>2

LEMMA RewriteMakesRow ==
    ASSUME NEW r, IsRow(r), r.at \in {"legacy", "sealed"},
           NEW n, n = [r EXCEPT !.content = "rewritten"]
    PROVE  /\ IsRow(n) /\ n.stamped = r.stamped /\ n.at = r.at /\ n.content = "rewritten"
           /\ n.seq = r.seq /\ n.prev = r.prev /\ n.hash = r.hash
<1>1. n = [at |-> r.at, seq |-> r.seq, prev |-> r.prev, hash |-> r.hash,
           content |-> "rewritten", stamped |-> r.stamped]
  BY DEF IsRow
<1> QED
  BY <1>1 DEF IsRow

\* A record with the fields of a row.
Shaped(r) ==
    /\ r = [at |-> r.at, seq |-> r.seq, prev |-> r.prev, hash |-> r.hash,
            content |-> r.content, stamped |-> r.stamped]
    /\ r.stamped \in BOOLEAN

LEMMA SealMakesRow ==
    ASSUME NEW r, Shaped(r), r.content # "none", NEW i, NEW seq, seq \in Nat \ {0},
           NEW prev, NEW content
    PROVE  /\ IsRow(SealedRow(r, i, seq, prev, content))
           /\ SealedRow(r, i, seq, prev, content).at = "sealed"
           /\ SealedRow(r, i, seq, prev, content).stamped = r.stamped
           /\ SealedRow(r, i, seq, prev, content).content = r.content
           /\ SealedRow(r, i, seq, prev, content).seq = seq
           /\ SealedRow(r, i, seq, prev, content).prev = prev
           /\ SealedRow(r, i, seq, prev, content).hash = EntryHash(i, seq, prev, content)
<1>1. PICK h : h = EntryHash(i, seq, prev, content)
  OBVIOUS
<1>2. PICK n : n = SealedRow(r, i, seq, prev, content)
  OBVIOUS
<1>3. n = [at |-> "sealed", seq |-> seq, prev |-> prev, hash |-> h,
           content |-> r.content, stamped |-> r.stamped]
  BY <1>1, <1>2 DEF SealedRow, Shaped
<1>4. /\ IsRow(n) /\ n.at = "sealed" /\ n.stamped = r.stamped /\ n.content = r.content
      /\ n.seq = seq /\ n.prev = prev /\ n.hash = h
  BY <1>3 DEF IsRow, Shaped
<1> QED
  BY <1>1, <1>2, <1>4

LEMMA RowFacts ==
    ASSUME Inv, NEW i \in Ids
    PROVE  IsRow(log[i]) /\ (i \in SealedIn(log) <=> log[i].at = "sealed")
BY DEF Inv, RowsWell, SealedIn

\* What the holder of the lock knows.
LEMMA OpenFacts ==
    ASSUME Inv, NEW p \in Writers, Open(p)
    PROVE  /\ lock = p /\ HeadWell(tx[p].head)
           /\ tx[p].at = "backfill" => BatchWell(tx[p].batch)
BY DEF Inv, TxWell

LEMMA PurgeRows ==
    ASSUME Inv, NEW p \in Writers, NEW strategy \in Strategies, NEW rows \in SUBSET Ids,
           Purge(p, strategy, rows), NEW i \in Ids
    PROVE  IsRow(log'[i]) /\ Evolves(i)
<1>1. IsRow(log[i])
  BY RowFacts
<1>2. log'[i] = IF i \notin rows THEN log[i]
                ELSE IF strategy = "hard_delete" THEN Deleted ELSE Stamped(log[i], strategy)
  BY DEF Purge
<1>3. purged' = (purged \/ strategy = "hard_delete")
  BY DEF Purge
<1>4. CASE i \notin rows
  BY <1>1, <1>2, <1>4 DEF Evolves
<1>5. CASE i \in rows /\ strategy = "hard_delete"
  <2>1. log[i].at \in {"legacy", "sealed"} /\ log'[i] = Deleted /\ purged'
    BY <1>2, <1>3, <1>5 DEF Purge, Present
  <2> QED
    BY <2>1, DeletedIsRow DEF Evolves
<1>6. CASE i \in rows /\ strategy # "hard_delete"
  <2>1. log[i].at \in {"legacy", "sealed"} /\ log'[i] = Stamped(log[i], strategy)
    BY <1>2, <1>6 DEF Purge, Present
  <2>2. /\ IsRow(log'[i]) /\ log'[i].stamped /\ log'[i].at = log[i].at
        /\ log'[i].seq = log[i].seq /\ log'[i].prev = log[i].prev /\ log'[i].hash = log[i].hash
    BY <1>1, <2>1, StampMakesRow
  <2>3. CASE log[i].at = "legacy"
    BY <2>2, <2>3 DEF Evolves
  <2>4. CASE log[i].at = "sealed"
    BY <2>2, <2>4 DEF Evolves, Kept
  <2> QED
    BY <2>1, <2>2, <2>3, <2>4
<1> QED
  BY <1>4, <1>5, <1>6

LEMMA RewriteRows ==
    ASSUME Inv, AuditAssumption, NEW k \in Ids, Rewrite(k), NEW i \in Ids
    PROVE  IsRow(log'[i]) /\ Evolves(i)
<1>1. IsRow(log[i])
  BY RowFacts
<1>2. log = [j \in Ids |-> log[j]] /\ log' = [log EXCEPT ![k].content = "rewritten"]
  BY DEF Rewrite, Inv, RowsWell
<1>3. rewrites \in Nat /\ rewrites' = rewrites + 1 /\ log[k].at = "sealed"
  BY DEF Rewrite, Inv, RowsWell, AuditAssumption
<1>4. CASE i # k
  <2>1. log'[i] = log[i]
    BY <1>2, <1>4
  <2> QED
    BY <1>1, <2>1 DEF Evolves
<1>5. CASE i = k
  <2>1. log'[i] = [log[i] EXCEPT !.content = "rewritten"]
    BY <1>2, <1>5
  <2>2. /\ IsRow(log'[i]) /\ log'[i].stamped = log[i].stamped /\ log'[i].at = "sealed"
        /\ log'[i].content = "rewritten"
        /\ log'[i].seq = log[i].seq /\ log'[i].prev = log[i].prev /\ log'[i].hash = log[i].hash
    BY <1>1, <1>3, <1>5, <2>1, RewriteMakesRow
  <2>3. rewrites' > 0
    BY <1>3
  <2> QED
    BY <1>3, <1>5, <2>2, <2>3 DEF Evolves, Kept
<1> QED
  BY <1>4, <1>5

\* The row an append seals.
LEMMA AppendRow ==
    ASSUME Inv, NEW p \in Writers, NEW k \in Ids, CommitAppend(p, k)
    PROVE  /\ Open(p) /\ log[k].at = "absent" /\ IsRow(log'[k])
           /\ log'[k].at = "sealed" /\ log'[k].content = "original"
           /\ log'[k].seq = tx[p].head.seq + 1 /\ log'[k].prev = tx[p].head.hash
           /\ log'[k].hash = EntryHash(k, log'[k].seq, log'[k].prev, "original")
           /\ \A i \in Ids \ {k} : log'[i] = log[i]
<1>1. Open(p) /\ log[k].at = "absent"
  BY DEF CommitAppend, Open
<1>2. tx[p].head.seq \in Nat
  BY <1>1, OpenFacts DEF HeadWell
<1>3. PICK n : n = SealedRow([log[k] EXCEPT !.content = "original"], k, tx[p].head.seq + 1,
                             tx[p].head.hash, "original")
  OBVIOUS
<1>4. log' = [log EXCEPT ![k] = n]
  BY <1>3 DEF CommitAppend
<1>5. log = [j \in Ids |-> log[j]]
  BY DEF Inv, RowsWell
<1>6. log'[k] = n /\ \A i \in Ids \ {k} : log'[i] = log[i]
  BY <1>4, <1>5
<1>7. tx[p].head.seq + 1 \in Nat \ {0} /\ IsRow(log[k])
  BY <1>2, RowFacts
<1>8. /\ IsRow(n) /\ n.at = "sealed" /\ n.content = "original"
      /\ n.seq = tx[p].head.seq + 1 /\ n.prev = tx[p].head.hash
      /\ n.hash = EntryHash(k, tx[p].head.seq + 1, tx[p].head.hash, "original")
  <2>1. PICK o : o = [log[k] EXCEPT !.content = "original"]
    OBVIOUS
  <2>2. Shaped(o) /\ o.content = "original"
    BY <1>7, <2>1 DEF Shaped, IsRow
  <2>3. n = SealedRow(o, k, tx[p].head.seq + 1, tx[p].head.hash, "original")
    BY <1>3, <2>1
  <2> QED
    BY <1>7, <2>2, <2>3, SealMakesRow
<1> QED
  BY <1>1, <1>6, <1>8

LEMMA AppendRows ==
    ASSUME Inv, NEW p \in Writers, NEW k \in Ids, CommitAppend(p, k), NEW i \in Ids
    PROVE  IsRow(log'[i]) /\ Evolves(i)
<1>1. CASE i # k
  BY <1>1, AppendRow, RowFacts DEF Evolves
<1>2. CASE i = k
  <2>1. /\ Open(p) /\ log[i].at = "absent" /\ IsRow(log'[i]) /\ log'[i].at = "sealed"
        /\ log'[i].seq = tx[p].head.seq + 1
    BY <1>2, AppendRow
  <2>2. tx[p].head.seq \in Nat /\ \A j \in SealedIn(log) : log[j].seq <= tx[p].head.seq
    BY <2>1, OpenFacts DEF HeadWell
  <2>3. \A j \in SealedIn(log) : log[j].seq \in Nat
    BY RowFacts DEF SealedIn, IsRow
  <2>4. \A j \in SealedIn(log) : log[j].seq < log'[i].seq
    BY <2>1, <2>2, <2>3
  <2> QED
    BY <2>1, <2>4 DEF Evolves, Fresh
<1> QED
  BY <1>1, <1>2

\* The rows a batch seals.
LEMMA BackfillRow ==
    ASSUME AuditAssumption, Inv, NEW p \in Writers, CommitBackfill(p)
    PROVE  \E head, batch, prev :
             /\ head = tx[p].head /\ batch = tx[p].batch /\ DOMAIN batch \subseteq Ids
             /\ HeadWell(head) /\ BatchWell(batch)
             /\ Links(prev, DOMAIN batch, head.hash, head, batch)
             /\ \A i \in Ids \ DOMAIN batch : log'[i] = log[i]
             /\ \A i \in DOMAIN batch :
                  /\ log[i].at = "legacy" /\ IsRow(log'[i]) /\ log'[i].at = "sealed"
                  /\ log'[i].content = log[i].content /\ log'[i].stamped = log[i].stamped
                  /\ log'[i].seq = BatchSeq(head, batch, i) /\ log'[i].prev = prev[i]
                  /\ log'[i].hash = EntryHash(i, log'[i].seq, log'[i].prev, batch[i])
<1>1. PICK head, batch, prev :
        head = tx[p].head /\ batch = tx[p].batch /\ prev = PrevHash(head, batch)
  OBVIOUS
<1>2. Open(p) /\ tx[p].at = "backfill"
  BY DEF CommitBackfill, Open
<1>3. HeadWell(head) /\ BatchWell(batch)
  BY <1>1, <1>2, OpenFacts
<1>4. DOMAIN batch \subseteq Ids /\ head.seq \in Nat
  BY <1>3 DEF HeadWell, BatchWell
<1>5. Links(prev, DOMAIN batch, head.hash, head, batch)
  BY <1>1, <1>4, PrevHashLinks
<1>6. \A i \in Ids : log'[i] =
        IF i \in DOMAIN batch
        THEN SealedRow(log[i], i, BatchSeq(head, batch, i), prev[i], batch[i])
        ELSE log[i]
  BY <1>1 DEF CommitBackfill
<1>7. ASSUME NEW i \in DOMAIN batch
      PROVE  /\ log[i].at = "legacy" /\ IsRow(log'[i]) /\ log'[i].at = "sealed"
             /\ log'[i].content = log[i].content /\ log'[i].stamped = log[i].stamped
             /\ log'[i].seq = BatchSeq(head, batch, i) /\ log'[i].prev = prev[i]
             /\ log'[i].hash = EntryHash(i, log'[i].seq, log'[i].prev, batch[i])
  <2>1. Present(i)
    BY <1>1 DEF CommitBackfill
  <2>2. log[i].at = "legacy" /\ IsRow(log[i])
    BY <1>3, <1>4, <2>1, RowFacts DEF BatchWell, Present
  <2>3. BatchSeq(head, batch, i) \in Nat \ {0} /\ log[i].content # "none"
    BY <1>4, <2>2, BatchSeqFacts DEF IsRow
  <2>4. log'[i] = SealedRow(log[i], i, BatchSeq(head, batch, i), prev[i], batch[i])
    BY <1>4, <1>6
  <2> QED
    <3>1. Shaped(log[i])
      BY <2>2 DEF Shaped, IsRow
    <3> QED
      BY <2>2, <2>3, <2>4, <3>1, SealMakesRow
<1>8. \A i \in Ids \ DOMAIN batch : log'[i] = log[i]
  BY <1>6
<1> QED
  BY <1>1, <1>3, <1>4, <1>5, <1>7, <1>8

LEMMA BackfillRows ==
    ASSUME AuditAssumption, Inv, NEW p \in Writers, CommitBackfill(p), NEW i \in Ids
    PROVE  IsRow(log'[i]) /\ Evolves(i)
<1>1. PICK head, batch :
        /\ HeadWell(head) /\ DOMAIN batch \subseteq Ids
        /\ \A k \in Ids \ DOMAIN batch : log'[k] = log[k]
        /\ \A k \in DOMAIN batch :
             /\ log[k].at = "legacy" /\ IsRow(log'[k]) /\ log'[k].at = "sealed"
             /\ log'[k].seq = BatchSeq(head, batch, k)
  BY BackfillRow
<1>2. CASE i \notin DOMAIN batch
  BY <1>1, <1>2, RowFacts DEF Evolves
<1>3. CASE i \in DOMAIN batch
  <2>1. /\ log[i].at = "legacy" /\ IsRow(log'[i]) /\ log'[i].at = "sealed"
        /\ log'[i].seq = BatchSeq(head, batch, i)
    BY <1>1, <1>3
  <2>2. head.seq \in Nat /\ \A j \in SealedIn(log) : log[j].seq <= head.seq
    BY <1>1 DEF HeadWell
  <2>3. BatchSeq(head, batch, i) \in Nat /\ BatchSeq(head, batch, i) > head.seq
    BY <1>1, <1>3, <2>2, BatchSeqFacts
  <2>4. \A j \in SealedIn(log) : log[j].seq \in Nat
    BY RowFacts DEF SealedIn, IsRow
  <2>5. \A j \in SealedIn(log) : log[j].seq < log'[i].seq
    BY <2>1, <2>2, <2>3, <2>4
  <2> QED
    BY <2>1, <2>5 DEF Evolves, Fresh
<1> QED
  BY <1>2, <1>3

LEMMA StepRows ==
    ASSUME AuditAssumption, Inv, LogShape
    PROVE  RowsWell' /\ Evolution
<1>1. ASSUME NEW i \in Ids
      PROVE  IsRow(log'[i]) /\ Evolves(i)
  <2>1. CASE UNCHANGED <<log, rewrites, purged>>
    BY <2>1, RowFacts DEF Evolves
  <2> QED
    BY <2>1, PurgeRows, RewriteRows, AppendRows, BackfillRows DEF LogShape
<1>2. log = [i \in Ids |-> log[i]] /\ rewrites \in 0 .. MaxRewrites /\ purged \in BOOLEAN
  BY DEF Inv, RowsWell
<1>3. log' = [i \in Ids |-> log'[i]]
  BY <1>2 DEF LogShape, Purge, Rewrite, CommitAppend, CommitBackfill
<1>4. \/ rewrites' = rewrites
      \/ rewrites < MaxRewrites /\ rewrites' = rewrites + 1
  BY DEF LogShape, Purge, Rewrite, CommitAppend, CommitBackfill
<1>5. purged' = purged \/ purged' = TRUE
  BY <1>2 DEF LogShape, Purge, Rewrite, CommitAppend, CommitBackfill
<1>6. rewrites' \in 0 .. MaxRewrites /\ rewrites <= rewrites'
  BY <1>2, <1>4 DEF AuditAssumption
<1> QED
  BY <1>1, <1>2, <1>3, <1>5, <1>6 DEF RowsWell, Evolution

-----------------------------------------------------------------------------
(* What lasts. *)

LEMMA RowLasts ==
    ASSUME Inv, Evolution, NEW i \in Ids
    PROVE  /\ log[i].at = "sealed" => Kept(i) \/ (log'[i].at = "deleted" /\ purged')
           /\ log[i].at = "deleted" => log'[i].at = "deleted"
           /\ log'[i].at = "sealed" => Kept(i) \/ Fresh(i)
           /\ log'[i].at = "deleted" => purged'
           /\ log'[i].at = "legacy" =>
                log[i].at = "legacy" /\ (log'[i] = log[i] \/ log'[i].stamped)
<1>1. Evolves(i) /\ (purged => purged')
  BY DEF Evolution
<1>2. log[i].at = "deleted" => purged
  BY DEF Inv, ChainWell
<1>3. log[i].at = "sealed" /\ log'[i] = log[i] => Kept(i)
  BY DEF Kept
<1>4. log[i].at = "sealed" => Kept(i) \/ (log'[i].at = "deleted" /\ purged')
  BY <1>1, <1>3 DEF Evolves, Fresh
<1>5. log[i].at = "deleted" => log'[i].at = "deleted"
  BY <1>1 DEF Evolves, Kept, Fresh
<1>6. log'[i].at = "sealed" => Kept(i) \/ Fresh(i)
  BY <1>1, <1>3 DEF Evolves
<1>7. log'[i].at = "deleted" => purged'
  BY <1>1, <1>2 DEF Evolves, Kept, Fresh
<1>8. log'[i].at = "legacy" => log[i].at = "legacy" /\ (log'[i] = log[i] \/ log'[i].stamped)
  BY <1>1 DEF Evolves, Kept, Fresh
<1> QED
  BY <1>4, <1>5, <1>6, <1>7, <1>8

LEMMA AnchoredLasts ==
    ASSUME Inv, Evolution, NEW h, Anchored(h)
    PROVE  Anchored(h)'
<1>1. CASE h = Genesis
  BY <1>1 DEF Anchored
<1>2. CASE h # Genesis
  <2>1. PICK j : j = h[1]
    OBVIOUS
  <2>2. j \in Ids /\ (log[j].at = "deleted" \/ (log[j].at = "sealed" /\ log[j].hash = h))
    BY <1>2, <2>1 DEF Anchored
  <2>3. log'[j].at = "deleted" \/ (log'[j].at = "sealed" /\ log'[j].hash = h)
    BY <2>2, RowLasts DEF Kept
  <2> QED
    BY <1>2, <2>1, <2>2, <2>3 DEF Anchored
<1> QED
  BY <1>1, <1>2

LEMMA ContinuesLasts ==
    ASSUME Inv, Evolution, NEW seq, NEW h, Continues(seq, h), ~purged'
    PROVE  Continues(seq, h)'
<1>1. CASE seq = 0 /\ h = Genesis
  BY <1>1 DEF Continues
<1>2. CASE \E j \in SealedIn(log) : log[j].seq = seq /\ log[j].hash = h
  <2>1. PICK j \in Ids : log[j].at = "sealed" /\ log[j].seq = seq /\ log[j].hash = h
    BY <1>2 DEF SealedIn
  <2>2. log'[j].at = "sealed" /\ log'[j].seq = seq /\ log'[j].hash = h
    BY <2>1, RowLasts DEF Kept
  <2> QED
    BY <2>2 DEF Continues, SealedIn
<1> QED
  BY <1>1, <1>2 DEF Continues

LEMMA KeptStaysSealed ==
    ASSUME AuditAssumption, Inv, RowsWell', Evolution, NEW i \in Ids, Kept(i)
    PROVE  Sealed(i)'
<1>1. i \in SealedIn(log) /\ Sealed(i)
  BY RowFacts DEF Kept, Inv, ChainWell
<1>2. log'[i].hash # Genesis /\ log'[i].hash[1] = i
  BY <1>1 DEF Kept, Sealed
<1>3. ASSUME ~log'[i].stamped
      PROVE  /\ log'[i].hash = EntryHash(i, log'[i].seq, log'[i].prev, "original")
             /\ log'[i].content \in {"original", "rewritten"}
             /\ log'[i].content = "rewritten" => rewrites' > 0
  <2>1. ~log[i].stamped
    BY <1>3 DEF Kept
  <2>2. rewrites \in Nat /\ rewrites' \in Nat /\ rewrites <= rewrites'
    BY DEF Inv, RowsWell, Evolution, AuditAssumption
  <2>3. log[i].content = "rewritten" => rewrites' > 0
    BY <1>1, <2>1, <2>2 DEF Sealed
  <2> QED
    BY <1>1, <1>3, <2>1, <2>3 DEF Kept, Sealed
<1>4. PICK h, s : h = log[i].prev /\ s = log[i].seq - 1
  OBVIOUS
<1>5. h = log'[i].prev /\ s = log'[i].seq - 1
  BY <1>4 DEF Kept
<1>6. Anchored(h)'
  BY <1>1, <1>4, AnchoredLasts DEF Sealed
<1>7. ~purged' => Continues(s, h)'
  BY <1>1, <1>4, ContinuesLasts DEF Sealed, Evolution
<1>8. Anchored(log[i].prev)'
  BY <1>5, <1>6 DEF Anchored
<1>9. ~purged' => Continues(log[i].seq - 1, log[i].prev)'
  BY <1>5, <1>7 DEF Continues
<1> QED
  BY <1>2, <1>3, <1>8, <1>9 DEF Sealed

\* A new row is linked to the chain.
LEMMA AppendSeals ==
    ASSUME AuditAssumption, Inv, RowsWell', Evolution, NEW p \in Writers, NEW k \in Ids,
           CommitAppend(p, k)
    PROVE  Sealed(k)'
<1>1. /\ Open(p) /\ log'[k].at = "sealed" /\ log'[k].content = "original"
      /\ log'[k].seq = tx[p].head.seq + 1 /\ log'[k].prev = tx[p].head.hash
      /\ log'[k].hash = EntryHash(k, log'[k].seq, log'[k].prev, "original")
  BY AppendRow
<1>2. HeadWell(tx[p].head)
  BY <1>1, OpenFacts
<1>3. PICK h, s : h = tx[p].head.hash /\ s = tx[p].head.seq
  OBVIOUS
<1>4. s \in Nat /\ Anchored(h) /\ (~purged => Continues(s, h))
  BY <1>2, <1>3 DEF HeadWell
<1>5. h = log'[k].prev /\ s = log'[k].seq - 1
  BY <1>1, <1>3, <1>4
<1>6. Anchored(h)' /\ (~purged' => Continues(s, h)')
  BY <1>4, AnchoredLasts, ContinuesLasts DEF Evolution
<1>7. Anchored(log[k].prev)'
  BY <1>5, <1>6 DEF Anchored
<1>8. ~purged' => Continues(log[k].seq - 1, log[k].prev)'
  BY <1>5, <1>6 DEF Continues
<1>9. log'[k].hash # Genesis /\ log'[k].hash[1] = k
  BY <1>1, HashFacts
<1> QED
  BY <1>1, <1>7, <1>8, <1>9 DEF Sealed

\* So are the rows of a batch, the first to the head and each to the one before.
LEMMA BackfillSeals ==
    ASSUME AuditAssumption, Inv, RowsWell', Evolution, NEW p \in Writers, CommitBackfill(p),
           NEW k \in Ids, Fresh(k)
    PROVE  Sealed(k)'
<1>1. PICK head, batch, prev :
        /\ HeadWell(head) /\ BatchWell(batch) /\ DOMAIN batch \subseteq Ids
        /\ Links(prev, DOMAIN batch, head.hash, head, batch)
        /\ \A i \in Ids \ DOMAIN batch : log'[i] = log[i]
        /\ \A i \in DOMAIN batch :
             /\ log[i].at = "legacy" /\ log'[i].at = "sealed"
             /\ log'[i].content = log[i].content /\ log'[i].stamped = log[i].stamped
             /\ log'[i].seq = BatchSeq(head, batch, i) /\ log'[i].prev = prev[i]
             /\ log'[i].hash = EntryHash(i, log'[i].seq, log'[i].prev, batch[i])
  BY BackfillRow
<1>2. k \in DOMAIN batch
  BY <1>1 DEF Fresh
<1>3. /\ log[k].at = "legacy" /\ log'[k].at = "sealed"
      /\ log'[k].content = log[k].content /\ log'[k].stamped = log[k].stamped
      /\ log'[k].seq = BatchSeq(head, batch, k) /\ log'[k].prev = prev[k]
      /\ log'[k].hash = EntryHash(k, log'[k].seq, log'[k].prev, batch[k])
  BY <1>1, <1>2
<1>4. head.seq \in Nat /\ Anchored(head.hash) /\ (~purged => Continues(head.seq, head.hash))
  BY <1>1 DEF HeadWell
<1>5. log'[k].hash # Genesis /\ log'[k].hash[1] = k
  BY <1>3, HashFacts
<1>6. ASSUME ~log'[k].stamped
      PROVE  /\ log'[k].hash = EntryHash(k, log'[k].seq, log'[k].prev, "original")
             /\ log'[k].content = "original"
  <2>1. batch[k] = "original"
    BY <1>1, <1>2, <1>3, <1>6 DEF BatchWell
  <2>2. log[k].content = "original"
    BY <1>3, <1>6 DEF Inv, ChainWell, LegacyRows
  <2> QED
    BY <1>3, <2>1, <2>2
<1>7. PICK b : b = Before(DOMAIN batch, k)
  OBVIOUS
<1>8. prev[k] = IF b = {} THEN head.hash
                ELSE EntryHash(Max(b), BatchSeq(head, batch, Max(b)), prev[Max(b)], batch[Max(b)])
  BY <1>1, <1>2, <1>7 DEF Links
<1>9. PICK h, s : h = log'[k].prev /\ s = log'[k].seq - 1
  OBVIOUS
<1>10. Anchored(h)' /\ (~purged' => Continues(s, h)')
  <2>1. CASE b = {}
    <3>1. h = head.hash /\ s = head.seq
      BY <1>1, <1>2, <1>3, <1>4, <1>7, <1>8, <1>9, <2>1, BatchSeqFacts
    <3>2. Anchored(h) /\ (~purged => Continues(s, h))
      BY <1>4, <3>1
    <3> QED
      BY <3>2, AnchoredLasts, ContinuesLasts DEF Evolution
  <2>2. CASE b # {}
    <3>1. PICK m : m = Max(b)
      OBVIOUS
    <3>2. m \in DOMAIN batch /\ BatchSeq(head, batch, k) = BatchSeq(head, batch, m) + 1
      BY <1>1, <1>2, <1>4, <1>7, <2>2, <3>1, BatchSeqFacts
    <3>3. BatchSeq(head, batch, m) \in Nat
      BY <1>1, <1>4, <3>2, BatchSeqFacts
    <3>4. /\ m \in Ids /\ log'[m].at = "sealed"
          /\ log'[m].seq = BatchSeq(head, batch, m)
          /\ log'[m].hash = EntryHash(m, BatchSeq(head, batch, m), prev[m], batch[m])
      BY <1>1, <3>2
    <3>5. h = log'[m].hash /\ s = log'[m].seq
      BY <1>3, <1>8, <1>9, <2>2, <3>1, <3>2, <3>3, <3>4
    <3>6. h # Genesis /\ h[1] = m
      BY <3>4, <3>5, HashFacts
    <3>7. Anchored(h)'
      BY <3>4, <3>5, <3>6 DEF Anchored
    <3>8. Continues(s, h)'
      BY <3>4, <3>5 DEF Continues, SealedIn
    <3> QED
      BY <3>7, <3>8
  <2> QED
    BY <2>1, <2>2
<1>11. Anchored(log[k].prev)'
  BY <1>9, <1>10 DEF Anchored
<1>12. ~purged' => Continues(log[k].seq - 1, log[k].prev)'
  BY <1>9, <1>10 DEF Continues
<1> QED
  BY <1>3, <1>5, <1>6, <1>11, <1>12 DEF Sealed

\* Only a commit seals rows, and two rows it seals have different sequences.
LEMMA FreshFacts ==
    ASSUME AuditAssumption, Inv, LogShape, RowsWell', Evolution, NEW k \in Ids, Fresh(k)
    PROVE  /\ Sealed(k)'
           /\ \A i \in Ids : Fresh(i) /\ log'[i].seq = log'[k].seq => i = k
           /\ \E p \in Writers : Open(p) /\ tx' = [tx EXCEPT ![p] = NoTx] /\ lock' = None
<1>1. CASE UNCHANGED <<log, rewrites, purged>>
  BY <1>1 DEF Fresh
<1>2. CASE \E p \in Writers, strategy \in Strategies, rows \in SUBSET Ids :
             Purge(p, strategy, rows)
  <2>p. PICK p \in Writers, strategy \in Strategies, rows \in SUBSET Ids :
          Purge(p, strategy, rows)
    BY <1>2
  <2>1. /\ \A i \in rows : log[i].at \in {"legacy", "sealed"}
        /\ log'[k] = IF k \notin rows THEN log[k]
                     ELSE IF strategy = "hard_delete" THEN Deleted ELSE Stamped(log[k], strategy)
    BY <2>p DEF Purge, Present
  <2>2. k \in rows /\ strategy # "hard_delete" /\ log[k].at = "legacy"
    BY <2>1, DeletedIsRow DEF Fresh
  <2>3. log'[k] = Stamped(log[k], strategy) /\ IsRow(log[k])
    BY <2>1, <2>2, RowFacts
  <2>4. log'[k].at = "legacy"
    BY <2>2, <2>3, StampMakesRow
  <2> QED
    BY <2>4 DEF Fresh
<1>3. CASE \E i \in Ids : Rewrite(i)
  <2>1. PICK i \in Ids : log[i].at = "sealed" /\ log' = [log EXCEPT ![i].content = "rewritten"]
    BY <1>3 DEF Rewrite
  <2>2. k # i
    BY <2>1 DEF Fresh
  <2>3. log'[k] = log[k]
    BY <2>1, <2>2 DEF Inv, RowsWell
  <2> QED
    BY <2>3 DEF Fresh
<1>4. CASE \E p \in Writers, i \in Ids : CommitAppend(p, i)
  <2>1. PICK p \in Writers, i \in Ids : CommitAppend(p, i)
    BY <1>4
  <2>2. \A j \in Ids : Fresh(j) => j = i
    BY <2>1, AppendRow DEF Fresh
  <2>3. k = i
    BY <2>2
  <2>4. Sealed(k)'
    BY <2>1, <2>3, AppendSeals
  <2>5. Open(p)
    BY <2>1, AppendRow
  <2>6. tx' = [tx EXCEPT ![p] = NoTx] /\ lock' = None
    BY <2>1 DEF CommitAppend, EndTx
  <2> QED
    BY <2>2, <2>3, <2>4, <2>5, <2>6
<1>5. CASE \E p \in Writers : CommitBackfill(p)
  <2>1. PICK p \in Writers : CommitBackfill(p)
    BY <1>5
  <2>2. PICK head, batch :
          /\ HeadWell(head) /\ DOMAIN batch \subseteq Ids
          /\ \A i \in Ids \ DOMAIN batch : log'[i] = log[i]
          /\ \A i \in DOMAIN batch : log'[i].seq = BatchSeq(head, batch, i)
    BY <2>1, BackfillRow
  <2>3. \A i \in Ids : Fresh(i) => i \in DOMAIN batch
    BY <2>2 DEF Fresh
  <2>4. head.seq \in Nat
    BY <2>2 DEF HeadWell
  <2>5. ASSUME NEW i \in Ids, Fresh(i), log'[i].seq = log'[k].seq
        PROVE  i = k
    BY <2>2, <2>3, <2>4, <2>5, BatchSeqFacts
  <2>6. Sealed(k)'
    BY <2>1, BackfillSeals
  <2>7. Open(p) /\ tx' = [tx EXCEPT ![p] = NoTx] /\ lock' = None
    BY <2>1 DEF CommitBackfill, EndTx, Open
  <2> QED
    BY <2>5, <2>6, <2>7
<1> QED
  BY <1>1, <1>2, <1>3, <1>4, <1>5 DEF LogShape

LEMMA StepChain ==
    ASSUME AuditAssumption, Inv, LogShape, RowsWell', Evolution
    PROVE  ChainWell'
<1>1. ASSUME NEW i \in Ids, log'[i].at = "sealed"
      PROVE  Sealed(i)'
  BY <1>1, RowLasts, KeptStaysSealed, FreshFacts
<1>2. ASSUME NEW i \in Ids, NEW j \in Ids, log'[i].at = "sealed", log'[j].at = "sealed",
             log'[i].seq = log'[j].seq
      PROVE  i = j
  <2>0. \A k \in Ids : log'[k].seq \in Nat
    BY DEF RowsWell, IsRow
  <2>1. CASE Kept(i) /\ Kept(j)
    BY <1>2, <2>1 DEF Kept, Inv, ChainWell, SealedIn
  <2>2. CASE Fresh(i) /\ Fresh(j)
    BY <1>2, <2>2, FreshFacts
  <2>3. CASE Kept(i) /\ Fresh(j)
    <3>1. log[i].seq < log'[j].seq /\ log[i].seq = log'[i].seq
      BY <2>3 DEF Kept, Fresh, SealedIn
    <3> QED
      BY <1>2, <2>0, <3>1
  <2>4. CASE Fresh(i) /\ Kept(j)
    <3>1. log[j].seq < log'[i].seq /\ log[j].seq = log'[j].seq
      BY <2>4 DEF Kept, Fresh, SealedIn
    <3> QED
      BY <1>2, <2>0, <3>1
  <2> QED
    BY <1>2, <2>1, <2>2, <2>3, <2>4, RowLasts
<1>3. ASSUME NEW i \in Ids, log'[i].at = "legacy", ~log'[i].stamped
      PROVE  log'[i].content = "original"
  BY <1>3, RowLasts DEF Inv, ChainWell, LegacyRows
<1>4. \A i \in Ids : log'[i].at = "deleted" => purged'
  BY RowLasts
<1>5. \A i \in SealedIn(log)' : Sealed(i)'
  BY <1>1 DEF SealedIn
<1>6. \A i, j \in SealedIn(log)' : log'[i].seq = log'[j].seq => i = j
  BY <1>2 DEF SealedIn
<1>7. \A i \in LegacyRows' : ~log'[i].stamped => log'[i].content = "original"
  BY <1>3 DEF LegacyRows
<1> QED
  BY <1>4, <1>5, <1>6, <1>7 DEF ChainWell

-----------------------------------------------------------------------------
(* The transactions keep what they have read. *)

\* While the lock stays with its holder, nothing is sealed.
LEMMA NothingFresh ==
    ASSUME AuditAssumption, Inv, LogShape, RowsWell', Evolution,
           lock' = lock \/ lock = None
    PROVE  \A i \in Ids : ~Fresh(i)
<1> SUFFICES ASSUME NEW i \in Ids, Fresh(i)
             PROVE  FALSE
  OBVIOUS
<1>1. PICK p \in Writers : Open(p) /\ lock' = None
  BY FreshFacts
<1>2. lock = p /\ p # None
  BY <1>1, OpenFacts DEF AuditAssumption
<1> QED
  BY <1>1, <1>2

LEMMA HeadLasts ==
    ASSUME AuditAssumption, Inv, RowsWell', Evolution, \A i \in Ids : ~Fresh(i),
           NEW head, HeadWell(head)
    PROVE  HeadWell(head)'
<1>1. PICK s, h : s = head.seq /\ h = head.hash
  OBVIOUS
<1>2. s \in Nat /\ Anchored(h) /\ (~purged => Continues(s, h))
  BY <1>1 DEF HeadWell
<1>3. Anchored(h)' /\ (~purged' => Continues(s, h)')
  BY <1>2, AnchoredLasts, ContinuesLasts DEF Evolution
<1>4. ASSUME NEW i \in Ids, log'[i].at = "sealed"
      PROVE  log'[i].seq <= s
  <2>1. Kept(i)
    BY <1>4, RowLasts
  <2>2. i \in SealedIn(log) /\ log'[i].seq = log[i].seq
    BY <2>1 DEF Kept, SealedIn
  <2> QED
    BY <1>1, <2>2 DEF HeadWell
<1>5. Numbered(s, h)'
  <2>1. Numbered(s, h) /\ (h # Genesis => h[1] \in Ids)
    BY <1>1, <1>2 DEF HeadWell, Anchored
  <2>2. ASSUME h # Genesis, log'[h[1]].at = "sealed"
        PROVE  log'[h[1]].seq = s
    <3>1. Kept(h[1])
      BY <2>1, <2>2, RowLasts
    <3> QED
      BY <2>1, <2>2, <3>1 DEF Kept, Numbered
  <2> QED
    BY <2>1, <2>2 DEF Numbered
<1>6. /\ Anchored(head.hash)' /\ Numbered(head.seq, head.hash)'
      /\ ~purged' => Continues(head.seq, head.hash)'
  BY <1>1, <1>3, <1>5
<1> QED
  BY <1>1, <1>2, <1>4, <1>6 DEF HeadWell, SealedIn

LEMMA BatchLasts ==
    ASSUME Inv, Evolution, \A i \in Ids : ~Fresh(i), NEW batch, BatchWell(batch)
    PROVE  BatchWell(batch)'
<1>1. ASSUME NEW i \in DOMAIN batch
      PROVE  \/ log'[i].at = "deleted"
             \/ log'[i].at = "legacy" /\ (log'[i].stamped \/ batch[i] = "original")
  <2>1. i \in Ids /\ Evolves(i) /\ ~Fresh(i)
    BY DEF BatchWell, Evolution
  <2>2. CASE log[i].at = "deleted"
    BY <2>1, <2>2, RowLasts
  <2>3. CASE log[i].at = "legacy" /\ (log[i].stamped \/ batch[i] = "original")
    BY <2>1, <2>3 DEF Evolves, Kept
  <2> QED
    BY <2>2, <2>3 DEF BatchWell
<1> QED
  BY <1>1 DEF BatchWell

LEMMA ChainHeadWell ==
    ASSUME AuditAssumption, Inv
    PROVE  HeadWell(ChainHead(log))
<1>0. \A i \in SealedIn(log) : log[i].seq \in Nat
  BY RowFacts DEF SealedIn, IsRow
<1>1. CASE SealedIn(log) = {}
  <2>1. PICK head : head = ChainHead(log)
    OBVIOUS
  <2>h. head = [seq |-> 0, hash |-> Genesis]
    BY <1>1, <2>1 DEF ChainHead
  <2>2. HeadWell(head)
    BY <1>1, <2>h DEF HeadWell, Anchored, Continues, Numbered
  <2> QED
    BY <2>1, <2>2
<1>2. CASE SealedIn(log) # {}
  <2>1. SealedIn(log) \in SUBSET Ids
    BY DEF SealedIn
  <2>2. PICK i : i = LastOf(log, SealedIn(log))
    OBVIOUS
  <2>3. i \in SealedIn(log) /\ \A j \in SealedIn(log) : log[j].seq <= log[i].seq
    BY <1>0, <1>2, <2>1, <2>2, LastOfIs
  <2>h. PICK head : head = ChainHead(log)
    OBVIOUS
  <2>4. head.seq = log[i].seq /\ head.hash = log[i].hash
    BY <1>2, <2>2, <2>h DEF ChainHead
  <2>5. i \in Ids /\ log[i].at = "sealed" /\ Sealed(i)
    BY <2>3 DEF SealedIn, Inv, ChainWell
  <2>6. Anchored(head.hash)
    <3>1. PICK h : h = head.hash
      OBVIOUS
    <3>2. h # Genesis /\ h[1] = i /\ log[i].hash = h
      BY <2>4, <2>5, <3>1 DEF Sealed
    <3>3. Anchored(h)
      BY <2>5, <3>2 DEF Anchored
    <3> QED
      BY <3>1, <3>3
  <2>7. Continues(head.seq, head.hash)
    BY <2>3, <2>4 DEF Continues
  <2>8. Numbered(head.seq, head.hash)
    BY <2>4, <2>5 DEF Sealed, Numbered
  <2>9. HeadWell(head)
    BY <1>0, <2>3, <2>4, <2>6, <2>7, <2>8 DEF HeadWell
  <2> QED
    BY <2>9, <2>h
<1> QED
  BY <1>1, <1>2

\* What a step may do to the transactions.
TxShape ==
    \/ UNCHANGED <<tx, lock>>
    \/ \E p \in Writers : BeginAppend(p) \/ BeginBackfill(p)
    \/ \E p \in Writers : Open(p) /\ EndTx(p)
    \/ \E p \in Writers : /\ ~Open(p) /\ UNCHANGED lock
                          /\ tx' = [tx EXCEPT ![p].at = "record"]

LEMMA StepTxShape ==
    ASSUME [Next]_vars
    PROVE  TxShape
BY DEF Next, vars, TxShape, CommitAppend, CommitBackfill, Rollback, Purge, Rewrite, StartWalk,
       WalkPage, Open

\* A writer the step is not about.
LEMMA TxStands ==
    ASSUME AuditAssumption, Inv, RowsWell', Evolution, NEW q \in Writers, tx'[q] = tx[q],
           Open(q) => lock' = q /\ \A i \in Ids : ~Fresh(i)
    PROVE  /\ IsTx(tx'[q])
           /\ Open(q)' => HeadWell(tx[q].head)'
           /\ tx'[q].at = "backfill" => BatchWell(tx[q].batch)'
           /\ Open(q)' => lock' = q
           /\ Open(q)' <=> Open(q)
<1>0. PICK t : t = tx[q] /\ t = tx'[q]
  OBVIOUS
<1>1. IsTx(t)
  BY <1>0 DEF Inv, TxWell
<1>2. (Open(q)' <=> Open(q)) /\ (t.at = "backfill" => Open(q))
  BY <1>0 DEF Open
<1>3. PICK head, batch : head = t.head /\ batch = t.batch
  OBVIOUS
<1>4. ASSUME Open(q)
      PROVE  HeadWell(head)' /\ (t.at = "backfill" => BatchWell(batch)')
  <2>1. HeadWell(head) /\ (t.at = "backfill" => BatchWell(batch))
    BY <1>0, <1>3, <1>4, OpenFacts
  <2> QED
    BY <1>4, <2>1, HeadLasts, BatchLasts
<1>5. Open(q) => HeadWell(tx[q].head)'
  BY <1>0, <1>3, <1>4 DEF HeadWell
<1>6. t.at = "backfill" => BatchWell(tx[q].batch)'
  BY <1>0, <1>2, <1>3, <1>4 DEF BatchWell
<1> QED
  BY <1>0, <1>1, <1>2, <1>5, <1>6

LEMMA StepTx ==
    ASSUME AuditAssumption, Inv, LogShape, TxShape, RowsWell', Evolution
    PROVE  TxWell'
<1>0. /\ tx = [p \in Writers |-> tx[p]] /\ lock \in Writers \cup {None} /\ None \notin Writers
      /\ \A p \in Writers : IsTx(tx[p]) /\ (Open(p) <=> lock = p)
  BY DEF Inv, TxWell, AuditAssumption
<1> DEFINE Good(q) == /\ IsTx(tx'[q])
                      /\ Open(q)' <=> lock' = q
                      /\ Open(q)' => HeadWell(tx[q].head)'
                      /\ tx'[q].at = "backfill" => BatchWell(tx[q].batch)'
<1>s. ASSUME tx' = [p \in Writers |-> tx'[p]], lock' \in Writers \cup {None},
             \A q \in Writers : Good(q)
      PROVE  TxWell'
  BY <1>s DEF TxWell
<1>1. CASE UNCHANGED <<tx, lock>>
  <2>1. \A i \in Ids : ~Fresh(i)
    BY <1>1, NothingFresh
  <2>2. \A q \in Writers : Good(q)
    BY <1>0, <1>1, <2>1, TxStands
  <2> QED
    BY <1>0, <1>1, <1>s, <2>2
<1>2. CASE \E p \in Writers : BeginAppend(p) \/ BeginBackfill(p)
  <2>1. PICK p \in Writers : BeginAppend(p) \/ BeginBackfill(p)
    BY <1>2
  <2>2. lock = None /\ lock' = p /\ UNCHANGED <<log, purged>>
    BY <2>1 DEF BeginAppend, BeginBackfill, AdvisoryLock
  <2>3. \A i \in Ids : ~Fresh(i)
    BY <2>2, NothingFresh
  <2>4. PICK head : head = ChainHead(log)
    OBVIOUS
  <2>5. HeadWell(head) /\ HeadWell(head)'
    BY <2>3, <2>4, ChainHeadWell, HeadLasts
  <2>6. \E t : /\ tx' = [tx EXCEPT ![p] = t] /\ IsTx(t) /\ t.at \in {"append", "backfill"}
               /\ t.head = head /\ (t.at = "backfill" => BatchWell(t.batch)')
    <3>1. CASE BeginAppend(p)
      <4>1. PICK t : t = [at |-> "append", head |-> head, batch |-> <<>>]
        OBVIOUS
      <4>2. tx' = [tx EXCEPT ![p] = t]
        BY <2>4, <3>1, <4>1 DEF BeginAppend
      <4>3. IsTx(t) /\ t.at = "append" /\ t.head = head
        BY <4>1 DEF IsTx
      <4> QED
        BY <4>2, <4>3
    <3>2. CASE BeginBackfill(p)
      <4>1. PICK oldest : oldest = {i \in LegacyRows :
                                      Cardinality({j \in LegacyRows : j < i}) < BatchSize}
        OBVIOUS
      <4>2. PICK batch : batch = [i \in oldest |-> log[i].content]
        OBVIOUS
      <4>3. PICK t : t = [at |-> "backfill", head |-> head, batch |-> batch]
        OBVIOUS
      <4>4. tx' = [tx EXCEPT ![p] = t]
        BY <2>4, <3>2, <4>1, <4>2, <4>3 DEF BeginBackfill
      <4>5. IsTx(t) /\ t.at = "backfill" /\ t.head = head /\ t.batch = batch
        BY <4>3 DEF IsTx
      <4>6. ASSUME NEW i \in oldest
            PROVE  /\ i \in Ids /\ log[i].at = "legacy"
                   /\ log[i].stamped \/ batch[i] = "original"
        BY <4>1, <4>2 DEF LegacyRows, Inv, ChainWell
      <4>7. BatchWell(batch)
        BY <4>2, <4>6 DEF BatchWell
      <4>8. BatchWell(batch)'
        BY <2>3, <4>7, BatchLasts
      <4> QED
        BY <4>4, <4>5, <4>8
    <3> QED
      BY <2>1, <3>1, <3>2
  <2>7. PICK t : /\ tx' = [tx EXCEPT ![p] = t] /\ IsTx(t) /\ t.at \in {"append", "backfill"}
                 /\ t.head = head /\ (t.at = "backfill" => BatchWell(t.batch)')
    BY <2>6
  <2>8. tx'[p] = t /\ \A q \in Writers \ {p} : tx'[q] = tx[q]
    BY <1>0, <2>7
  <2>9. ASSUME NEW q \in Writers
        PROVE  Good(q)
    <3>1. CASE q = p
      <4>1. IsTx(tx'[p]) /\ Open(p)'
        BY <2>7, <2>8 DEF Open
      <4>2. HeadWell(tx[p].head)'
        BY <2>5, <2>7, <2>8 DEF HeadWell
      <4>3. t.at = "backfill" => BatchWell(tx[p].batch)'
        BY <2>7, <2>8 DEF BatchWell
      <4> QED
        BY <2>2, <2>8, <3>1, <4>1, <4>2, <4>3
    <3>2. CASE q # p
      <4>1. ~Open(q) /\ tx'[q] = tx[q] /\ lock' # q
        BY <1>0, <2>2, <2>8, <3>2
      <4> QED
        BY <4>1, TxStands
    <3> QED
      BY <3>1, <3>2
  <2>10. tx' = [q \in Writers |-> tx'[q]]
    BY <1>0, <2>7
  <2> QED
    BY <1>s, <2>2, <2>9, <2>10
<1>3. CASE \E p \in Writers : Open(p) /\ EndTx(p)
  <2>1. PICK p \in Writers : Open(p) /\ EndTx(p)
    BY <1>3
  <2>2. lock = p /\ lock' = None /\ tx' = [tx EXCEPT ![p] = NoTx]
    BY <1>0, <2>1 DEF EndTx
  <2>3. NoTx.at = "idle" /\ IsTx(NoTx)
    BY DEF NoTx, IsTx
  <2>4. tx'[p] = NoTx /\ \A q \in Writers \ {p} : tx'[q] = tx[q]
    BY <1>0, <2>2
  <2>5. ASSUME NEW q \in Writers
        PROVE  Good(q)
    <3>1. CASE q = p
      BY <1>0, <2>2, <2>3, <2>4, <3>1 DEF Open
    <3>2. CASE q # p
      <4>1. ~Open(q) /\ tx'[q] = tx[q] /\ lock' # q
        BY <1>0, <2>2, <2>4, <3>2
      <4> QED
        BY <4>1, TxStands
    <3> QED
      BY <3>1, <3>2
  <2>6. tx' = [q \in Writers |-> tx'[q]]
    BY <1>0, <2>2
  <2> QED
    BY <1>s, <2>2, <2>5, <2>6
<1>4. CASE \E p \in Writers : /\ ~Open(p) /\ UNCHANGED lock
                              /\ tx' = [tx EXCEPT ![p].at = "record"]
  <2>1. PICK p \in Writers : /\ ~Open(p) /\ UNCHANGED lock
                             /\ tx' = [tx EXCEPT ![p].at = "record"]
    BY <1>4
  <2>2. \A i \in Ids : ~Fresh(i)
    BY <2>1, NothingFresh
  <2>3. PICK t : t = [tx[p] EXCEPT !.at = "record"]
    OBVIOUS
  <2>4. IsTx(t) /\ t.at = "record"
    BY <1>0, <2>3 DEF IsTx
  <2>5. tx'[p] = t /\ \A q \in Writers \ {p} : tx'[q] = tx[q]
    BY <1>0, <2>1, <2>3
  <2>6. ASSUME NEW q \in Writers
        PROVE  Good(q)
    <3>1. CASE q = p
      BY <1>0, <2>1, <2>4, <2>5, <3>1 DEF Open
    <3>2. CASE q # p
      <4>1. tx'[q] = tx[q] /\ lock' = lock
        BY <2>1, <2>5, <3>2
      <4> QED
        BY <1>0, <2>2, <4>1, TxStands
    <3> QED
      BY <3>1, <3>2
  <2>7. tx' = [q \in Writers |-> tx'[q]]
    BY <1>0, <2>1
  <2> QED
    BY <1>0, <1>s, <2>1, <2>6, <2>7
<1> QED
  BY <1>1, <1>2, <1>3, <1>4 DEF TxShape

-----------------------------------------------------------------------------
(* The walk, while something else happens. *)

LEMMA WalkFacts ==
    ASSUME Inv
    PROVE  /\ IsWalk(walk) /\ walk.broken \subseteq Ids
           /\ \A i \in walk.broken : log[i].at \in {"sealed", "deleted"}
BY DEF Inv, WalkWell, IsWalk

\* What is unmended after a step was before.
LEMMA UnmendedWas ==
    ASSUME Inv, Evolution, NEW i \in Ids, log[i].at \in {"sealed", "deleted"}, Unmended(i)'
    PROVE  Unmended(i) /\ Kept(i)
<1>1. log'[i].at = "sealed" /\ ~log'[i].stamped
  BY DEF Unmended
<1>2. Kept(i)
  BY <1>1, RowLasts DEF Fresh
<1> QED
  BY <1>1, <1>2 DEF Kept, Unmended

LEMMA DetectableLasts ==
    ASSUME Inv, Evolution, walk' = walk, NEW i \in Ids, Kept(i), Unmended(i)', Detectable(i)
    PROVE  Detectable(i)'
<1>1. CASE log[i].content = "rewritten"
  BY <1>1 DEF Kept, Unmended, Detectable
<1>2. CASE log[i].content # "rewritten"
  <2>1. PICK h, j : h = log[i].prev /\ j = h[1]
    OBVIOUS
  <2>2. h # Genesis /\ j \in Ids /\ log[j].at = "deleted" /\ walk.expected # h
    BY <1>2, <2>1 DEF Detectable
  <2>3. log'[j].at = "deleted" /\ log'[i].prev = h
    BY <2>1, <2>2, RowLasts DEF Kept
  <2> QED
    BY <2>1, <2>2, <2>3 DEF Detectable
<1> QED
  BY <1>1, <1>2

LEMMA StillAheadLasts ==
    ASSUME Inv, Evolution, RowsWell', walk' = walk, NEW i \in Ids, Kept(i), StillAhead(i)
    PROVE  StillAhead(i)'
<1>1. PICK start \in SUBSET Ids, seen \in SUBSET Ids :
        /\ Cardinality(start) = walk.total /\ Cardinality(seen) = walk.processed
        /\ seen \subseteq start /\ i \in start \ seen
        /\ \A j \in seen : log[j].at \in {"sealed", "deleted"}
        /\ \A j \in SealedIn(log) : /\ log[j].seq <= log[i].seq => j \in start
                                    /\ j \in seen => log[j].seq <= walk.last
  BY DEF StillAhead
<1>2. /\ log[i].seq > walk.last /\ log'[i].seq = log[i].seq /\ log'[i].seq \in Nat
      /\ i \in SealedIn(log)
  BY DEF StillAhead, Kept, RowsWell, IsRow, SealedIn
<1>3. ASSUME NEW j \in Ids, log'[j].at = "sealed"
      PROVE  /\ log'[j].seq <= log'[i].seq => j \in start
             /\ j \in seen => log'[j].seq <= walk.last
  <2>1. CASE Kept(j)
    BY <1>1, <1>2, <2>1 DEF Kept, SealedIn
  <2>2. CASE Fresh(j)
    <3>1. log[i].seq < log'[j].seq /\ log'[j].seq \in Nat
      BY <1>2, <2>2 DEF Fresh, RowsWell, IsRow
    <3>2. j \notin seen
      BY <1>1, <2>2 DEF Fresh
    <3> QED
      BY <1>2, <3>1, <3>2
  <2> QED
    BY <1>3, <2>1, <2>2, RowLasts
<1>4. \A j \in seen : log'[j].at \in {"sealed", "deleted"}
  BY <1>1, RowLasts DEF Kept
<1>5. \A j \in SealedIn(log)' : /\ log'[j].seq <= log'[i].seq => j \in start
                                /\ j \in seen => log'[j].seq <= walk'.last
  BY <1>3 DEF SealedIn
<1> QED
  BY <1>1, <1>2, <1>4, <1>5 DEF StillAhead

LEMMA WalkStands ==
    ASSUME AuditAssumption, Inv, RowsWell', Evolution, walk' = walk
    PROVE  WalkWell'
<1>0. PICK w : w = walk /\ w = walk'
  OBVIOUS
<1>1. IsWalk(w)
  BY <1>0, WalkFacts
<1>2. \A i \in w.broken : i \in Ids /\ log[i].at \in {"sealed", "deleted"}
  BY <1>0, WalkFacts
<1>3. \A i \in w.broken : log'[i].at \in {"sealed", "deleted"}
  BY <1>2, RowLasts DEF Kept
<1>4. w.issues => purged' \/ rewrites' > 0
  <2>1. rewrites \in Nat /\ rewrites' \in Nat /\ rewrites <= rewrites' /\ (purged => purged')
    BY DEF Inv, RowsWell, Evolution, AuditAssumption
  <2> QED
    BY <1>0, <2>1 DEF Inv, WalkWell
<1>5. ASSUME w.at = "walking", ~purged'
      PROVE  Continues(w.last, w.expected)'
  <2>1. PICK s, h : s = w.last /\ h = w.expected
    OBVIOUS
  <2>2. Continues(s, h)
    BY <1>0, <1>5, <2>1 DEF Inv, WalkWell, Evolution
  <2>3. Continues(s, h)'
    BY <1>5, <2>2, ContinuesLasts
  <2> QED
    BY <2>1, <2>3
<1>6. ASSUME w.at = "walking", ~w.issues, NEW i \in w.broken, Unmended(i)'
      PROVE  Detectable(i)' /\ StillAhead(i)'
  <2>1. i \in Ids /\ Unmended(i) /\ Kept(i)
    BY <1>2, <1>6, UnmendedWas
  <2>2. Detectable(i) /\ StillAhead(i)
    BY <1>0, <1>6, <2>1 DEF Inv, WalkWell
  <2> QED
    BY <1>6, <2>1, <2>2, DetectableLasts, StillAheadLasts
<1>7. ASSUME w.at = "done", ~w.cut, ~w.issues, NEW i \in w.broken
      PROVE  ~Unmended(i)'
  <2>1. ~Unmended(i)
    BY <1>0, <1>7 DEF Inv, WalkWell
  <2> QED
    BY <1>2, <2>1, UnmendedWas
<1>8. w.at = "walking" /\ ~purged' => Continues(walk.last, walk.expected)'
  BY <1>0, <1>5 DEF Continues
<1> QED
  BY <1>0, <1>1, <1>3, <1>4, <1>6, <1>7, <1>8 DEF WalkWell

\* A walk starts: every broken row is detectable, and all is ahead.
LEMMA WalkStarts ==
    ASSUME AuditAssumption, Inv, StartWalk
    PROVE  WalkWell'
<1>1. log' = log /\ rewrites' = rewrites /\ purged' = purged
  BY DEF StartWalk
<1>2. SealedIn(log) \in SUBSET Ids
  BY DEF SealedIn
<1>3. PICK total, broken : total = Cardinality(SealedIn(log)) /\ broken = Broken
  OBVIOUS
<1>4. total \in 0 .. MaxRows /\ Cardinality({}) = 0
  BY <1>2, <1>3, IdsFacts, FS_EmptySet DEF AuditAssumption
<1>5. walk' = [at |-> "walking", total |-> total, processed |-> 0, expected |-> Genesis,
               last |-> 0, issues |-> FALSE, cut |-> FALSE, broken |-> broken]
  <2>1. PICK w : w = NoWalk
    OBVIOUS
  <2>2. w = [at |-> "idle", total |-> 0, processed |-> 0, expected |-> Genesis,
             last |-> 0, issues |-> FALSE, cut |-> FALSE, broken |-> {}]
    BY <2>1 DEF NoWalk
  <2>3. walk' = [w EXCEPT !.at = "walking", !.total = total, !.broken = broken]
    BY <1>3, <2>1 DEF StartWalk
  <2> QED
    BY <2>2, <2>3
<1>6. \A i \in broken : i \in SealedIn(log) /\ ~log[i].stamped
  BY <1>3 DEF Broken
<1>7. IsWalk(walk')
  BY <1>2, <1>4, <1>5, <1>6 DEF IsWalk
<1>8. Continues(walk.last, walk.expected)'
  BY <1>5 DEF Continues
<1>9. ASSUME NEW i \in broken
      PROVE  Detectable(i)' /\ StillAhead(i)'
  <2>1. i \in SealedIn(log) /\ i \in Ids /\ Sealed(i) /\ ~log[i].stamped
    BY <1>2, <1>6 DEF Inv, ChainWell
  <2>2. ASSUME i \in Orphans
        PROVE  Detectable(i)'
    <3>1. PICK h, j : h = log[i].prev /\ j = h[1]
      OBVIOUS
    <3>2. h # Genesis /\ \A k \in SealedIn(log) : log[k].hash # h
      BY <2>2, <3>1 DEF Orphans
    <3>3. j \in Ids /\ (log[j].at = "deleted" \/ (log[j].at = "sealed" /\ log[j].hash = h))
      BY <2>1, <3>1, <3>2 DEF Sealed, Anchored
    <3>4. log[j].at = "deleted"
      BY <3>2, <3>3 DEF SealedIn
    <3>5. /\ log'[i].prev # Genesis /\ log'[i].prev[1] \in Ids
          /\ log'[log'[i].prev[1]].at = "deleted"
      BY <1>1, <3>1, <3>2, <3>3, <3>4
    <3>6. walk'.expected # log'[i].prev
      BY <1>5, <3>5
    <3> QED
      BY <3>5, <3>6 DEF Detectable
  <2>3. ASSUME i \notin Orphans
        PROVE  Detectable(i)'
    <3>1. log[i].hash # EntryHash(i, log[i].seq, log[i].prev, log[i].content)
      BY <1>3, <2>3 DEF Broken
    <3>2. log[i].content = "rewritten"
      BY <2>1, <3>1 DEF Sealed
    <3>3. log'[i].content = "rewritten"
      BY <1>1, <3>2
    <3> QED
      BY <3>3 DEF Detectable
  <2>4. Detectable(i)'
    BY <2>2, <2>3
  <2>5. log[i].seq \in Nat /\ log[i].seq > 0
    <3>1. IsRow(log[i]) /\ log[i].at = "sealed"
      BY <2>1, RowFacts DEF SealedIn
    <3> QED
      BY <3>1 DEF IsRow
  <2>6. StillAhead(i)'
    <3>1. PICK start, seen : start = SealedIn(log) /\ seen = {}
      OBVIOUS
    <3>2. /\ start \in SUBSET Ids /\ seen \in SUBSET Ids
          /\ Cardinality(start) = walk'.total /\ Cardinality(seen) = walk'.processed
          /\ seen \subseteq start /\ i \in start \ seen
          /\ \A j \in seen : log'[j].at \in {"sealed", "deleted"}
      BY <1>2, <1>3, <1>4, <1>5, <2>1, <3>1
    <3>3. \A j \in SealedIn(log)' : /\ log'[j].seq <= log'[i].seq => j \in start
                                    /\ j \in seen => log'[j].seq <= walk'.last
      BY <1>1, <3>1 DEF SealedIn
    <3>4. log'[i].seq > walk'.last
      BY <1>1, <1>5, <2>5
    <3> QED
      BY <3>2, <3>3, <3>4 DEF StillAhead
  <2> QED
    BY <2>4, <2>6
<1>10. \A i \in broken : log'[i].at \in {"sealed", "deleted"}
  BY <1>1, <1>6 DEF SealedIn
<1> QED
  BY <1>5, <1>7, <1>8, <1>9, <1>10 DEF WalkWell

-----------------------------------------------------------------------------
(* The walk takes a page. *)

\* A page holds rows past the cursor, and every row there is before them.
LEMMA PageFacts ==
    ASSUME AuditAssumption, Inv, NEW k \in Page
    PROVE  /\ k \in Ids /\ k \in SealedIn(log) /\ log[k].seq \in Nat /\ log[k].seq > walk.last
           /\ \A j \in SealedIn(log) :
                log[j].seq > walk.last /\ log[j].seq <= log[k].seq => j \in Page
<1>1. PICK later : later = {j \in SealedIn(log) : log[j].seq > walk.last}
  OBVIOUS
<1>2. PICK Below : Below = [j \in later |-> {l \in later : log[l].seq < log[j].seq}]
  OBVIOUS
<1>3. ~(walk.last # 0 /\ SequenceFree(walk.last))
  BY DEF Page
<1>4. Page = {j \in later : Cardinality({l \in later : log[l].seq < log[j].seq}) < PageSize}
  BY <1>1, <1>3 DEF Page
<1>5. \A j \in later : j \in Page <=> Cardinality(Below[j]) < PageSize
  BY <1>2, <1>4
<1>6. k \in later /\ later \subseteq Ids
  BY <1>1, <1>4 DEF SealedIn
<1>7. \A j \in later : log[j].seq \in Nat
  BY <1>6, RowFacts DEF IsRow
<1>8. ASSUME NEW j \in later, log[j].seq <= log[k].seq
      PROVE  j \in Page
  <2>1. Below[j] \subseteq Below[k] /\ Below[k] \in SUBSET Ids /\ Below[j] \in SUBSET Ids
    BY <1>2, <1>6, <1>7, <1>8
  <2>2. Cardinality(Below[j]) <= Cardinality(Below[k])
    BY <2>1, IdsFacts, FS_Subset
  <2>3. Cardinality(Below[k]) < PageSize
    BY <1>5, <1>6
  <2>4. Cardinality(Below[j]) \in Nat /\ Cardinality(Below[k]) \in Nat /\ PageSize \in Nat
    BY <2>1, IdsFacts DEF AuditAssumption
  <2> QED
    BY <1>5, <2>2, <2>3, <2>4
<1> QED
  BY <1>1, <1>6, <1>7, <1>8

\* From the beginning of the chain, a page is not empty.
LEMMA PageExists ==
    ASSUME AuditAssumption, Inv, walk.last = 0, NEW i \in SealedIn(log)
    PROVE  Page # {}
<1>1. PICK later : later = {j \in SealedIn(log) : log[j].seq > walk.last}
  OBVIOUS
<1>2. \A j \in SealedIn(log) : j \in Ids /\ log[j].seq \in Nat /\ log[j].seq > 0
  <2> SUFFICES ASSUME NEW j \in SealedIn(log)
               PROVE  j \in Ids /\ log[j].seq \in Nat /\ log[j].seq > 0
    OBVIOUS
  <2>1. j \in Ids /\ log[j].at = "sealed"
    BY DEF SealedIn
  <2>2. IsRow(log[j])
    BY <2>1, RowFacts
  <2> QED
    BY <2>1, <2>2 DEF IsRow
<1>3. later \in SUBSET Ids /\ i \in later
  BY <1>1, <1>2
<1>4. PICK f : f = [j \in later |-> log[j].seq]
  OBVIOUS
<1>5. \A j \in later : f[j] = log[j].seq /\ f[j] \in Int
  BY <1>1, <1>2, <1>4
<1>6. IsFiniteSet(later)
  BY <1>3, IdsFacts
<1>7. PICK m \in later : \A j \in later : f[m] <= f[j]
  BY <1>3, <1>5, <1>6, LeastExists
<1>8. {l \in later : log[l].seq < log[m].seq} = {}
  <2>1. \A l \in later : log[m].seq <= log[l].seq /\ log[l].seq \in Int /\ log[m].seq \in Int
    BY <1>5, <1>7
  <2>2. \A l \in later : ~(log[l].seq < log[m].seq)
    BY <2>1
  <2> QED
    BY <2>2
<1>9. Cardinality({l \in later : log[l].seq < log[m].seq}) < PageSize
  <2>1. Cardinality({}) = 0 /\ PageSize > 0
    BY FS_EmptySet DEF AuditAssumption
  <2> QED
    BY <1>8, <2>1
<1>10. Page = {j \in later : Cardinality({l \in later : log[l].seq < log[j].seq}) < PageSize}
  BY <1>1 DEF Page
<1> QED
  BY <1>9, <1>10

\* The link expected of a row is the hash of the row before it on the page,
\* and of the first row what the walk expects.
LEMMA ExpectedIs ==
    ASSUME AuditAssumption, Inv, NEW page, page = Page, NEW i \in page
    PROVE  \/ /\ Expected(page, i) = walk.expected
              /\ \A j \in page : log[j].seq >= log[i].seq
           \/ \E k \in page : /\ Expected(page, i) = log[k].hash
                              /\ log[k].seq < log[i].seq
                              /\ \A j \in page : log[j].seq < log[i].seq =>
                                                   log[j].seq <= log[k].seq
<1>0. \A j \in page : j \in Ids /\ log[j].seq \in Nat
  BY PageFacts
<1>1. PICK before : before = {j \in page : log[j].seq < log[i].seq}
  OBVIOUS
<1>2. CASE before = {}
  <2>1. Expected(page, i) = walk.expected
    BY <1>1, <1>2 DEF Expected
  <2>2. \A j \in page : log[j].seq >= log[i].seq
    BY <1>0, <1>1, <1>2
  <2> QED
    BY <2>1, <2>2
<1>3. CASE before # {}
  <2>1. before \in SUBSET Ids /\ \A j \in before : log[j].seq \in Nat
    BY <1>0, <1>1
  <2>2. PICK k : k = LastOf(log, before)
    OBVIOUS
  <2>3. k \in before /\ \A j \in before : log[j].seq <= log[k].seq
    BY <1>3, <2>1, <2>2, LastOfIs
  <2>4. Expected(page, i) = log[k].hash
    BY <1>1, <1>3, <2>2 DEF Expected
  <2>5. k \in page /\ log[k].seq < log[i].seq
    BY <1>1, <2>3
  <2>6. \A j \in page : log[j].seq < log[i].seq => log[j].seq <= log[k].seq
    BY <1>1, <2>3
  <2> QED
    BY <2>4, <2>5, <2>6
<1> QED
  BY <1>2, <1>3

\* A row that nothing has touched passes the checks of the walk.
LEMMA PageIsIntact ==
    ASSUME AuditAssumption, Inv, walk.at = "walking", ~purged, ~(rewrites > 0),
           NEW page, page = Page, NEW i \in page, ~log[i].stamped
    PROVE  Intact(i, log[i], Expected(page, i))
<1>1. /\ i \in Ids /\ i \in SealedIn(log) /\ log[i].seq \in Nat /\ log[i].seq > walk.last
      /\ walk.last \in Nat
  BY PageFacts, WalkFacts DEF IsWalk
<1>2. Sealed(i)
  BY <1>1 DEF Inv, ChainWell
<1>3. log[i].hash = EntryHash(i, log[i].seq, log[i].prev, log[i].content)
  <2>1. log[i].content = "original"
    BY <1>2 DEF Sealed
  <2> QED
    BY <1>2, <2>1 DEF Sealed
<1>4. \A j \in SealedIn(log) : j \in Ids /\ log[j].seq \in Nat /\ log[j].seq > 0
  <2> SUFFICES ASSUME NEW j \in SealedIn(log)
               PROVE  j \in Ids /\ log[j].seq \in Nat /\ log[j].seq > 0
    OBVIOUS
  <2>1. j \in Ids /\ log[j].at = "sealed"
    BY DEF SealedIn
  <2>2. IsRow(log[j])
    BY <2>1, RowFacts
  <2> QED
    BY <2>1, <2>2 DEF IsRow
<1>5. \A j, k \in SealedIn(log) : log[j].seq = log[k].seq => j = k
  BY DEF Inv, ChainWell
<1>6. \A k \in page : k \in SealedIn(log) /\ log[k].seq > walk.last
  BY PageFacts
<1>7. \A j \in SealedIn(log), k \in page :
        log[j].seq > walk.last /\ log[j].seq <= log[k].seq => j \in page
  BY PageFacts
<1>8. PICK e, p, s, last : e = Expected(page, i) /\ p = log[i].prev /\ s = log[i].seq
                           /\ last = walk.last
  OBVIOUS
<1>9. Continues(s - 1, p)
  BY <1>2, <1>8 DEF Sealed
<1>10. s \in Nat /\ last \in Nat /\ s > last
  BY <1>1, <1>8
<1>11. (s = 1 /\ p = Genesis) \/ \E j \in SealedIn(log) : log[j].seq = s - 1 /\ log[j].hash = p
  BY <1>9, <1>10 DEF Continues
<1>12. e = p
  <2>1. CASE e = walk.expected /\ \A j \in page : log[j].seq >= s
    <3>1. Continues(last, e)
      BY <1>8, <2>1 DEF Inv, WalkWell
    <3>2. (last = 0 /\ e = Genesis) \/ \E j \in SealedIn(log) : log[j].seq = last /\ log[j].hash = e
      BY <3>1 DEF Continues
    <3>3. CASE s = 1 /\ p = Genesis
      BY <1>4, <1>10, <3>2, <3>3
    <3>4. CASE \E j \in SealedIn(log) : log[j].seq = s - 1 /\ log[j].hash = p
      <4>1. PICK j \in SealedIn(log) : log[j].seq = s - 1 /\ log[j].hash = p
        BY <3>4
      <4>2. j \notin page
        BY <1>10, <2>1, <4>1
      <4>3. ~(log[j].seq > last)
        BY <1>7, <1>8, <1>10, <4>1, <4>2
      <4>4. log[j].seq = last /\ last # 0
        BY <1>4, <1>10, <4>1, <4>3
      <4>5. PICK k \in SealedIn(log) : log[k].seq = last /\ log[k].hash = e
        BY <3>2, <4>4
      <4> QED
        BY <1>5, <4>1, <4>4, <4>5
    <3> QED
      BY <1>11, <3>3, <3>4
  <2>2. CASE \E k \in page : /\ e = log[k].hash /\ log[k].seq < s
                             /\ \A j \in page : log[j].seq < s => log[j].seq <= log[k].seq
    <3>1. PICK k \in page : /\ e = log[k].hash /\ log[k].seq < s
                            /\ \A j \in page : log[j].seq < s => log[j].seq <= log[k].seq
      BY <2>2
    <3>2. k \in SealedIn(log) /\ log[k].seq \in Nat /\ log[k].seq > last /\ log[k].seq > 0
      BY <1>4, <1>6, <1>8, <3>1
    <3>3. PICK j \in SealedIn(log) : log[j].seq = s - 1 /\ log[j].hash = p
      BY <1>10, <1>11, <3>1, <3>2
    <3>4. log[j].seq > last /\ log[j].seq <= log[i].seq
      BY <1>8, <1>10, <3>1, <3>2, <3>3
    <3>5. j \in page
      BY <1>7, <1>8, <3>4
    <3>6. log[j].seq <= log[k].seq
      BY <1>10, <3>1, <3>3, <3>5
    <3>7. log[j].seq = log[k].seq
      BY <1>10, <3>1, <3>2, <3>3, <3>6
    <3> QED
      BY <1>5, <3>1, <3>2, <3>3, <3>7
  <2>3. \/ e = walk.expected /\ \A j \in page : log[j].seq >= s
        \/ \E k \in page : /\ e = log[k].hash /\ log[k].seq < s
                           /\ \A j \in page : log[j].seq < s => log[j].seq <= log[k].seq
    BY <1>8, ExpectedIs
  <2> QED
    BY <2>1, <2>2, <2>3
<1> QED
  BY <1>3, <1>8, <1>12 DEF Intact

\* The hash of a sealed row is no link to a row that was deleted.
LEMMA SealedLinks ==
    ASSUME Inv, NEW k \in SealedIn(log), NEW h, log[h[1]].at = "deleted"
    PROVE  log[k].hash # h
<1>1. log[k].at = "sealed" /\ log[k].hash[1] = k
  BY DEF SealedIn, Inv, ChainWell, Sealed
<1> QED
  BY <1>1

\* A damaged row does not pass them.
LEMMA PageReports ==
    ASSUME AuditAssumption, Inv, NEW page, page = Page, NEW i \in page, Unmended(i), Detectable(i)
    PROVE  ~Intact(i, log[i], Expected(page, i))
<1>1. i \in Ids /\ i \in SealedIn(log)
  BY PageFacts
<1>2. Sealed(i) /\ ~log[i].stamped
  BY <1>1 DEF Inv, ChainWell, Unmended
<1>3. CASE log[i].content = "rewritten"
  <2>1. log[i].hash = EntryHash(i, log[i].seq, log[i].prev, "original")
    BY <1>2 DEF Sealed
  <2>2. log[i].hash # EntryHash(i, log[i].seq, log[i].prev, "rewritten")
    BY <2>1, HashFacts
  <2> QED
    BY <1>3, <2>2 DEF Intact
<1>4. CASE log[i].content # "rewritten"
  <2>1. PICK h, e : h = log[i].prev /\ e = Expected(page, i)
    OBVIOUS
  <2>2. log[h[1]].at = "deleted" /\ walk.expected # h
    BY <1>4, <2>1 DEF Detectable
  <2>3. \A k \in page : k \in SealedIn(log)
    BY PageFacts
  <2>4. \A k \in page : log[k].hash # h
    BY <2>2, <2>3, SealedLinks
  <2>5. e = walk.expected \/ \E k \in page : e = log[k].hash
    BY <2>1, ExpectedIs
  <2>6. e # h
    BY <2>2, <2>4, <2>5
  <2> QED
    BY <2>1, <2>6 DEF Intact
<1> QED
  BY <1>3, <1>4

\* The rows of a page before a damaged one bring the walk nearer to it.
LEMMA PageComesNearer ==
    ASSUME AuditAssumption, Inv, NEW page, page = Page, NEW i \in Ids, i \notin page,
           log[i].at = "sealed", StillAhead(i),
           NEW top \in page, \A j \in page : log[j].seq <= log[top].seq,
           log' = log, walk'.total = walk.total,
           walk'.processed = walk.processed + Cardinality(page), walk'.last = log[top].seq
    PROVE  /\ walk.processed + Cardinality(page) < walk.total
           /\ StillAhead(i)'
<1>1. PICK start \in SUBSET Ids, seen \in SUBSET Ids :
        /\ Cardinality(start) = walk.total /\ Cardinality(seen) = walk.processed
        /\ seen \subseteq start /\ i \in start \ seen
        /\ \A j \in seen : log[j].at \in {"sealed", "deleted"}
        /\ \A j \in SealedIn(log) : /\ log[j].seq <= log[i].seq => j \in start
                                    /\ j \in seen => log[j].seq <= walk.last
  BY DEF StillAhead
<1>2. /\ page \in SUBSET Ids
      /\ \A j \in page : /\ j \in SealedIn(log) /\ log[j].at = "sealed"
                         /\ log[j].seq \in Nat /\ log[j].seq > walk.last
  BY PageFacts DEF SealedIn
<1>3. i \in SealedIn(log) /\ log[i].seq > walk.last /\ log[i].seq \in Nat /\ walk.last \in Nat
  BY RowFacts, WalkFacts DEF SealedIn, StillAhead, IsRow, IsWalk
<1>4. \A j \in page : log[j].seq < log[i].seq
  <2> SUFFICES ASSUME NEW j \in page, ~(log[j].seq < log[i].seq)
               PROVE  FALSE
    OBVIOUS
  <2>1. log[i].seq <= log[j].seq
    BY <1>2, <1>3
  <2> QED
    BY <1>3, <2>1, PageFacts
<1>5. PICK now : now = seen \cup page
  OBVIOUS
<1>6. seen \cap page = {}
  <2> SUFFICES ASSUME NEW j \in page, j \in seen
               PROVE  FALSE
    OBVIOUS
  <2> QED
    BY <1>1, <1>2, <1>3
<1>7. Cardinality(now) = walk.processed + Cardinality(page)
  <2>1. IsFiniteSet(seen) /\ IsFiniteSet(page)
    BY <1>2, IdsFacts
  <2>2. Cardinality(now) = Cardinality(seen) + Cardinality(page) - Cardinality(seen \cap page)
    BY <1>5, <2>1, FS_Union
  <2>3. Cardinality(seen \cap page) = 0
    BY <1>6, FS_EmptySet
  <2>4. Cardinality(seen) \in Nat /\ Cardinality(page) \in Nat
    BY <2>1, FS_CardinalityType
  <2> QED
    BY <1>1, <2>2, <2>3, <2>4
<1>8. now \in SUBSET Ids /\ now \subseteq start /\ i \in start \ now
  <2>1. page \subseteq start
    BY <1>1, <1>2, <1>3, <1>4
  <2> QED
    BY <1>1, <1>2, <1>5, <2>1
<1>9. walk.processed + Cardinality(page) < walk.total
  <2>1. now \subseteq start \ {i} /\ start \ {i} \in SUBSET Ids
    BY <1>1, <1>8
  <2>2. Cardinality(now) <= Cardinality(start \ {i})
    BY <2>1, IdsFacts, FS_Subset
  <2>3. Cardinality(start \ {i}) = Cardinality(start) - 1
    BY <1>1, <1>8, IdsFacts, FS_RemoveElement
  <2>4. Cardinality(start) \in Nat /\ Cardinality(now) \in Nat
    BY <1>8, IdsFacts
  <2> QED
    BY <1>1, <1>7, <2>2, <2>3, <2>4
<1>10. \A j \in now : log[j].at \in {"sealed", "deleted"}
  BY <1>1, <1>2, <1>5
<1>11. \A j \in SealedIn(log) : /\ log[j].seq <= log[i].seq => j \in start
                                /\ j \in now => log[j].seq <= log[top].seq
  <2> SUFFICES ASSUME NEW j \in SealedIn(log), j \in now
               PROVE  log[j].seq <= log[top].seq
    BY <1>1
  <2>1. CASE j \in page
    BY <2>1
  <2>2. CASE j \in seen
    <3>1. log[j].seq <= walk.last /\ log[top].seq > walk.last /\ log[top].seq \in Nat
      BY <1>1, <1>2, <2>2
    <3>2. log[j].seq \in Nat
      BY RowFacts DEF IsRow, SealedIn
    <3> QED
      BY <1>3, <3>1, <3>2
  <2> QED
    BY <1>5, <2>1, <2>2
<1>12. /\ Cardinality(start) = walk'.total /\ Cardinality(now) = walk'.processed
       /\ now \subseteq start /\ i \in start \ now
       /\ \A j \in now : log'[j].at \in {"sealed", "deleted"}
       /\ log'[i].seq > walk'.last
  BY <1>1, <1>4, <1>7, <1>8, <1>10
<1>13. \A j \in SealedIn(log)' : /\ log'[j].seq <= log'[i].seq => j \in start
                                 /\ j \in now => log'[j].seq <= walk'.last
  BY <1>11 DEF SealedIn
<1>14. StillAhead(i)'
  BY <1>1, <1>8, <1>12, <1>13 DEF StillAhead
<1> QED
  BY <1>9, <1>14

LEMMA WalkGoesOn ==
    ASSUME AuditAssumption, Inv, WalkPage
    PROVE  WalkWell'
<1>1. /\ log' = log /\ rewrites' = rewrites /\ purged' = purged /\ walk.at = "walking"
  BY DEF WalkPage
<1>2. PICK page, w : page = Page /\ w = walk
  OBVIOUS
<1>3. /\ IsWalk(w) /\ \A i \in w.broken : i \in Ids /\ log[i].at \in {"sealed", "deleted"}
  BY <1>2, WalkFacts
<1>4. ASSUME ~w.issues, NEW i \in w.broken, Unmended(i)
      PROVE  i \in Ids /\ i \in SealedIn(log) /\ log[i].at = "sealed" /\ Detectable(i) /\ StillAhead(i)
  <2>1. Detectable(i) /\ StillAhead(i)
    BY <1>1, <1>2, <1>4 DEF Inv, WalkWell
  <2>2. i \in Ids /\ log[i].at = "sealed"
    BY <1>3, <1>4 DEF Unmended
  <2> QED
    BY <2>1, <2>2 DEF SealedIn
<1>5. w.issues => purged \/ rewrites > 0
  BY <1>2 DEF Inv, WalkWell
<1>6. CASE page = {}
  <2>1. PICK cut \in BOOLEAN : cut = (w.last # 0)
    OBVIOUS
  <2>2. walk' = [w EXCEPT !.at = "done", !.cut = cut]
    BY <1>2, <1>6, <2>1 DEF WalkPage
  <2>3. /\ IsWalk(walk') /\ walk'.at = "done" /\ walk'.cut = cut /\ walk'.issues = w.issues
        /\ walk'.broken = w.broken
    BY <1>3, <2>2 DEF IsWalk
  <2>4. ASSUME ~cut, ~w.issues, NEW i \in w.broken
        PROVE  ~Unmended(i)
    BY <1>2, <1>4, <1>6, <2>1, <2>4, PageExists
  <2>5. \A i \in w.broken : Unmended(i)' <=> Unmended(i)
    BY <1>1 DEF Unmended
  <2>6. \A i \in walk'.broken : log'[i].at \in {"sealed", "deleted"}
    BY <1>1, <1>3, <2>3
  <2>7. walk'.issues => purged' \/ rewrites' > 0
    BY <1>1, <1>5, <2>3
  <2>8. ~walk'.cut /\ ~walk'.issues => \A i \in walk'.broken : ~Unmended(i)'
    BY <2>3, <2>4, <2>5
  <2> QED
    BY <2>3, <2>6, <2>7, <2>8 DEF WalkWell
<1>7. CASE page # {}
  <2>1. PICK n, top : n = Cardinality(page) /\ top = LastOf(log, page)
    OBVIOUS
  <2>2. \A j \in page : j \in Ids /\ j \in SealedIn(log) /\ log[j].seq \in Nat
    BY <1>2, PageFacts
  <2>3. page \in SUBSET Ids /\ n \in Nat
    BY <2>1, <2>2, IdsFacts
  <2>4. top \in page /\ \A j \in page : log[j].seq <= log[top].seq
    BY <1>7, <2>1, <2>2, <2>3, LastOfIs
  <2>5. PICK found \in BOOLEAN : found <=> \E i \in page : /\ ~log[i].stamped
                                                           /\ ~Intact(i, log[i], Expected(page, i))
    OBVIOUS
  <2>6. PICK at : at = IF w.processed + n < w.total THEN "walking" ELSE "done"
    OBVIOUS
  <2>7. PICK last, expected : last = log[top].seq /\ expected = log[top].hash
    OBVIOUS
  <2>8. /\ IsWalk(walk') /\ walk'.at = at /\ walk'.total = w.total /\ walk'.processed = w.processed + n
        /\ walk'.last = last /\ walk'.expected = expected /\ walk'.broken = w.broken
        /\ walk'.issues = (w.issues \/ found)
    <3>1. PICK issues \in BOOLEAN : issues = (w.issues \/ found)
      OBVIOUS
    <3>2. issues = (w.issues \/ \E i \in page : /\ ~log[i].stamped
                                                /\ ~Intact(i, log[i], Expected(page, i)))
      BY <2>5, <3>1
    <3>3. walk' = [w EXCEPT !.at = at, !.processed = w.processed + n, !.last = last,
                            !.expected = expected, !.issues = issues]
      BY <1>2, <1>7, <2>1, <2>6, <2>7, <3>2 DEF WalkPage
    <3>4. last \in Nat /\ at \in {"walking", "done"} /\ w.processed + n \in Nat
      BY <1>3, <2>2, <2>3, <2>4, <2>6, <2>7 DEF IsWalk
    <3> QED
      BY <1>3, <3>1, <3>3, <3>4 DEF IsWalk
  <2>9. walk'.issues => purged' \/ rewrites' > 0
    BY <1>1, <1>2, <1>5, <2>5, <2>8, PageIsIntact
  <2>10. Continues(walk.last, walk.expected)'
    BY <1>1, <2>2, <2>4, <2>7, <2>8 DEF Continues, SealedIn
  <2>11. ASSUME ~w.issues, ~found, NEW i \in w.broken, Unmended(i)
         PROVE  Detectable(i)' /\ StillAhead(i)' /\ walk'.at = "walking"
    <3>1. i \in Ids /\ log[i].at = "sealed" /\ Detectable(i) /\ StillAhead(i) /\ ~log[i].stamped
      BY <1>4, <2>11 DEF Unmended
    <3>2. i \notin page
      BY <1>2, <2>5, <2>11, <3>1, PageReports
    <3>3. walk.processed + Cardinality(page) < walk.total /\ StillAhead(i)'
      BY <1>1, <1>2, <2>1, <2>4, <2>7, <2>8, <3>1, <3>2, PageComesNearer
    <3>4. Detectable(i)'
      <4>1. CASE log[i].content = "rewritten"
        BY <1>1, <4>1 DEF Detectable
      <4>2. CASE log[i].content # "rewritten"
        <5>1. PICK h : h = log[i].prev
          OBVIOUS
        <5>2. h # Genesis /\ h[1] \in Ids /\ log[h[1]].at = "deleted"
          BY <3>1, <4>2, <5>1 DEF Detectable
        <5>3. expected # h
          BY <2>2, <2>4, <2>7, <5>2, SealedLinks
        <5> QED
          BY <1>1, <2>8, <5>1, <5>2, <5>3 DEF Detectable
      <4> QED
        BY <4>1, <4>2
    <3>5. walk'.at = "walking"
      BY <1>2, <2>1, <2>6, <2>8, <3>3
    <3> QED
      BY <3>3, <3>4, <3>5
  <2>12. \A i \in w.broken : Unmended(i)' <=> Unmended(i)
    BY <1>1 DEF Unmended
  <2>13. \A i \in walk'.broken : log'[i].at \in {"sealed", "deleted"}
    BY <1>1, <1>3, <2>8
  <2>14. ~walk'.issues => \A i \in walk'.broken : Unmended(i)' =>
                            Detectable(i)' /\ StillAhead(i)' /\ walk'.at = "walking"
    BY <2>8, <2>11, <2>12
  <2>15. walk'.at = "done" /\ ~walk'.issues => \A i \in walk'.broken : ~Unmended(i)'
    BY <2>14
  <2> QED
    BY <2>8, <2>9, <2>10, <2>13, <2>14, <2>15 DEF WalkWell
<1> QED
  BY <1>6, <1>7

-----------------------------------------------------------------------------
(* The invariant. *)

LEMMA StepWalk ==
    ASSUME AuditAssumption, Inv, [Next]_vars, RowsWell', Evolution
    PROVE  WalkWell'
<1>1. walk' = walk \/ StartWalk \/ WalkPage
  BY DEF Next, vars, BeginAppend, CommitAppend, BeginBackfill, CommitBackfill, Rollback, Purge,
         Rewrite
<1> QED
  BY <1>1, WalkStands, WalkStarts, WalkGoesOn

LEMMA InitInv ==
    ASSUME AuditAssumption, Init
    PROVE  Inv
<1>1. PICK a : a = Absent
  OBVIOUS
<1>2. a = [at |-> "absent", seq |-> 0, prev |-> Genesis, hash |-> Genesis,
           content |-> "none", stamped |-> FALSE]
  BY <1>1 DEF Absent
<1>3. PICK old : old = [a EXCEPT !.at = "legacy", !.content = "original"]
  OBVIOUS
<1>4. old = [at |-> "legacy", seq |-> 0, prev |-> Genesis, hash |-> Genesis,
             content |-> "original", stamped |-> FALSE]
  BY <1>2, <1>3
<1>5. log = [i \in Ids |-> IF i <= Legacy THEN old ELSE a]
  BY <1>1, <1>3 DEF Init
<1>6. IsRow(a) /\ IsRow(old)
  BY <1>2, <1>4 DEF IsRow
<1>7. \A i \in Ids : log[i] = old \/ log[i] = a
  BY <1>5
<1>8. RowsWell
  <2>1. \A i \in Ids : IsRow(log[i])
    BY <1>6, <1>7
  <2>2. log = [i \in Ids |-> log[i]]
    BY <1>5
  <2>3. rewrites \in 0 .. MaxRewrites
    <3>1. rewrites = 0 /\ MaxRewrites \in Nat
      BY DEF Init, AuditAssumption
    <3> QED
      BY <3>1
  <2>4. purged \in BOOLEAN
    BY DEF Init
  <2> QED
    BY <2>1, <2>2, <2>3, <2>4 DEF RowsWell
<1>9. /\ \A i \in Ids : log[i].at \in {"absent", "legacy"}
      /\ \A i \in Ids : log[i].at = "legacy" => log[i].content = "original"
  BY <1>2, <1>4, <1>7
<1>10. SealedIn(log) = {}
  BY <1>9 DEF SealedIn
<1>11. ChainWell
  BY <1>9, <1>10 DEF ChainWell, LegacyRows
<1>12. TxWell
  <2>1. PICK t : t = NoTx
    OBVIOUS
  <2>2. IsTx(t) /\ t.at = "idle"
    BY <2>1 DEF NoTx, IsTx
  <2>3. tx = [p \in Writers |-> t] /\ lock = None /\ None \notin Writers
    BY <2>1 DEF Init, AuditAssumption
  <2>4. \A p \in Writers : IsTx(tx[p]) /\ tx[p].at = "idle" /\ ~Open(p)
    BY <2>2, <2>3 DEF Open
  <2> QED
    BY <2>3, <2>4 DEF TxWell
<1>13. WalkWell
  <2>1. PICK w : w = NoWalk
    OBVIOUS
  <2>2. w = [at |-> "idle", total |-> 0, processed |-> 0, expected |-> Genesis,
             last |-> 0, issues |-> FALSE, cut |-> FALSE, broken |-> {}]
    BY <2>1 DEF NoWalk
  <2>3. walk = w
    BY <2>1 DEF Init
  <2>4. IsWalk(w) /\ w.at = "idle" /\ w.issues = FALSE /\ w.broken = {}
    BY <2>2 DEF IsWalk, AuditAssumption
  <2> QED
    BY <2>3, <2>4 DEF WalkWell
<1> QED
  BY <1>8, <1>11, <1>12, <1>13 DEF Inv

LEMMA StepInv ==
    ASSUME AuditAssumption, Inv, [Next]_vars
    PROVE  Inv'
<1>1. LogShape /\ TxShape
  BY StepLogShape, StepTxShape
<1>2. RowsWell' /\ Evolution
  BY <1>1, StepRows
<1>3. ChainWell'
  BY <1>1, <1>2, StepChain
<1>4. TxWell'
  BY <1>1, <1>2, StepTx
<1>5. WalkWell'
  BY <1>2, StepWalk
<1> QED
  BY <1>2, <1>3, <1>4, <1>5 DEF Inv

-----------------------------------------------------------------------------
(* The chain as a log: see SealedLog. *)

\* What is no change to the log: stamps and contents.
LEMMA LogStands ==
    ASSUME \A i \in Ids : /\ log'[i].seq = log[i].seq /\ log'[i].prev = log[i].prev
                          /\ log'[i].at = "deleted" <=> log[i].at = "deleted"
    PROVE  UNCHANGED Log!logVars
<1>1. \A i \in Ids : LinkOf(i)' = LinkOf(i)
  BY DEF LinkOf
<1> QED
  BY <1>1 DEF Log!logVars

\* Row i is the first, or it stands directly after the row it links to, or
\* that one has gone.
Joined(i) ==
    \/ log'[i].prev = Genesis /\ log'[i].seq = 1
    \/ /\ log'[i].prev # Genesis /\ log'[i].prev[1] \in Ids
       /\ \/ log[log'[i].prev[1]].at = "deleted"
          \/ /\ log'[log'[i].prev[1]].at = "sealed"
             /\ log'[i].seq = log'[log'[i].prev[1]].seq + 1

\* A row that links to the head.
LEMMA HeadJoins ==
    ASSUME NEW head, HeadWell(head), \A j \in SealedIn(log) : log'[j] = log[j],
           NEW i \in Ids, log'[i].prev = head.hash, log'[i].seq = head.seq + 1
    PROVE  Joined(i)
<1>1. PICK h, s : h = head.hash /\ s = head.seq
  OBVIOUS
<1>2. Anchored(h) /\ Numbered(s, h) /\ log'[i].prev = h /\ log'[i].seq = s + 1
  BY <1>1 DEF HeadWell
<1>3. CASE h = Genesis
  BY <1>2, <1>3 DEF Numbered, Joined
<1>4. CASE h # Genesis
  <2>1. PICK m : m = h[1]
    OBVIOUS
  <2>2. m \in Ids /\ (log[m].at = "deleted" \/ log[m].at = "sealed")
    BY <1>2, <1>4, <2>1 DEF Anchored
  <2>3. CASE log[m].at = "deleted"
    BY <1>2, <1>4, <2>1, <2>2, <2>3 DEF Joined
  <2>4. CASE log[m].at = "sealed"
    <3>1. log[m].seq = s
      BY <1>2, <1>4, <2>1, <2>4 DEF Numbered
    <3>2. log'[m] = log[m]
      BY <2>2, <2>4 DEF SealedIn
    <3> QED
      BY <1>2, <1>4, <2>1, <2>2, <2>4, <3>1, <3>2 DEF Joined
  <2> QED
    BY <2>2, <2>3, <2>4
<1> QED
  BY <1>3, <1>4

\* The link of a joined row is where the log wants it.
LEMMA JoinedFollows ==
    ASSUME RowsWell', NEW i \in Ids, Joined(i)
    PROVE  Log!Follows(i)
<1>1. LinkOf(i)' = IF log'[i].prev = Genesis THEN 0 ELSE log'[i].prev[1]
  BY DEF LinkOf
<1>2. CASE log'[i].prev = Genesis /\ log'[i].seq = 1
  BY <1>1, <1>2 DEF Log!Follows
<1>3. CASE log'[i].prev # Genesis
  <2>1. PICK m : m = log'[i].prev[1]
    OBVIOUS
  <2>2. LinkOf(i)' = m /\ m \in Ids
    BY <1>1, <1>3, <2>1 DEF Joined
  <2>3. CASE log[m].at = "deleted"
    BY <2>2, <2>3 DEF Log!Follows
  <2>4. CASE log[m].at # "deleted"
    <3>1. log'[m].at = "sealed" /\ log'[i].seq = log'[m].seq + 1
      BY <1>3, <2>1, <2>4 DEF Joined
    <3>2. log'[m].seq # 0
      BY <2>2, <3>1 DEF RowsWell, IsRow
    <3> QED
      BY <2>2, <3>1, <3>2 DEF Log!Follows
  <2> QED
    BY <2>3, <2>4
<1> QED
  BY <1>2, <1>3 DEF Joined

\* A commit that leaves all other rows alone seals its own at the end.
LEMMA CommitSeals ==
    ASSUME AuditAssumption, Inv, RowsWell', Evolution, NEW new \in SUBSET Ids,
           \A i \in Ids \ new : log'[i] = log[i],
           \A i \in new : Fresh(i) /\ Joined(i),
           \A i, j \in new : log'[i].seq = log'[j].seq => i = j
    PROVE  Log!Seal(new)
<1>1. ASSUME NEW i \in new
      PROVE  /\ log[i].at # "deleted" /\ log[i].seq = 0 /\ log'[i].at # "deleted"
             /\ \A j \in Ids : log[j].seq < log'[i].seq
  <2>1. Fresh(i) /\ IsRow(log[i]) /\ IsRow(log'[i]) /\ \A j \in Ids : IsRow(log[j])
    BY DEF Inv, RowsWell
  <2>2. log[i].at \in {"absent", "legacy"} /\ log'[i].at = "sealed" /\ log[i].seq = 0
    BY <2>1 DEF Fresh, IsRow
  <2>3. ASSUME NEW j \in Ids
        PROVE  log[j].seq < log'[i].seq
    <3>1. CASE log[j].at = "sealed"
      BY <2>1, <3>1 DEF Fresh, SealedIn
    <3>2. CASE log[j].at # "sealed"
      <4>1. log[j].seq = 0 /\ log'[i].seq \in Nat /\ log'[i].seq # 0
        BY <2>1, <2>2, <3>2 DEF IsRow
      <4> QED
        BY <4>1
    <3> QED
      BY <3>1, <3>2
  <2> QED
    BY <2>2, <2>3
<1>2. \A i \in new : Log!Follows(i)
  BY JoinedFollows
<1>3. \A i \in new : Log!Sealable(i)
  BY <1>1 DEF Log!Sealable
<1>4. \A i \in Ids : log'[i].seq = IF i \in new THEN log'[i].seq ELSE log[i].seq
  OBVIOUS
<1>5. \A i \in Ids : LinkOf(i)' = IF i \in new THEN LinkOf(i)' ELSE LinkOf(i)
  BY DEF LinkOf
<1>6. \A i \in Ids : log'[i].at = "deleted" <=> log[i].at = "deleted"
  BY <1>1
<1> HIDE DEF Fresh, Joined
<1> QED
  BY <1>1, <1>2, <1>3, <1>4, <1>5, <1>6 DEF Log!Seal

LEMMA AppendImplements ==
    ASSUME AuditAssumption, Inv, RowsWell', Evolution, NEW p \in Writers, NEW k \in Ids,
           CommitAppend(p, k)
    PROVE  Log!Seal({k})
<1>1. /\ Open(p) /\ log[k].at = "absent" /\ log'[k].at = "sealed"
      /\ log'[k].seq = tx[p].head.seq + 1 /\ log'[k].prev = tx[p].head.hash
      /\ \A i \in Ids \ {k} : log'[i] = log[i]
  BY AppendRow
<1>2. HeadWell(tx[p].head)
  BY <1>1, OpenFacts
<1>3. PICK head : head = tx[p].head
  OBVIOUS
<1>4. \A j \in SealedIn(log) : log'[j] = log[j]
  BY <1>1 DEF SealedIn
<1>5. Joined(k)
  BY <1>1, <1>2, <1>3, <1>4, HeadJoins
<1>6. Fresh(k)
  BY <1>1, RowLasts DEF Kept
<1> QED
  BY <1>1, <1>5, <1>6, CommitSeals

LEMMA BackfillImplements ==
    ASSUME AuditAssumption, Inv, LogShape, RowsWell', Evolution, NEW p \in Writers,
           CommitBackfill(p)
    PROVE  \E new \in SUBSET Ids : Log!Seal(new)
<1>1. PICK head, batch, prev :
        /\ HeadWell(head) /\ DOMAIN batch \subseteq Ids
        /\ Links(prev, DOMAIN batch, head.hash, head, batch)
        /\ \A i \in Ids \ DOMAIN batch : log'[i] = log[i]
        /\ \A i \in DOMAIN batch :
             /\ log[i].at = "legacy" /\ log'[i].at = "sealed"
             /\ log'[i].seq = BatchSeq(head, batch, i) /\ log'[i].prev = prev[i]
  BY BackfillRow
<1>2. head.seq \in Nat
  BY <1>1 DEF HeadWell
<1>3. \A j \in SealedIn(log) : log'[j] = log[j]
  BY <1>1 DEF SealedIn
<1>4. ASSUME NEW i \in DOMAIN batch
      PROVE  Fresh(i) /\ Joined(i)
  <2>1. /\ i \in Ids /\ log[i].at = "legacy" /\ log'[i].at = "sealed"
        /\ log'[i].seq = BatchSeq(head, batch, i) /\ log'[i].prev = prev[i]
    BY <1>1
  <2>2. Fresh(i)
    BY <2>1, RowLasts DEF Kept
  <2>3. PICK b : b = Before(DOMAIN batch, i)
    OBVIOUS
  <2>4. prev[i] = IF b = {} THEN head.hash
                  ELSE EntryHash(Max(b), BatchSeq(head, batch, Max(b)), prev[Max(b)],
                                 batch[Max(b)])
    BY <1>1, <2>3 DEF Links
  <2>5. CASE b = {}
    <3>1. log'[i].prev = head.hash /\ log'[i].seq = head.seq + 1
      BY <1>1, <1>2, <2>1, <2>3, <2>4, <2>5, BatchSeqFacts
    <3>2. Joined(i)
      BY <1>1, <1>3, <2>1, <3>1, HeadJoins
    <3> QED
      BY <2>2, <3>2
  <2>6. CASE b # {}
    <3>1. PICK m : m = Max(b)
      OBVIOUS
    <3>2. /\ m \in DOMAIN batch
          /\ BatchSeq(head, batch, i) = BatchSeq(head, batch, m) + 1
      BY <1>1, <1>2, <2>3, <2>6, <3>1, BatchSeqFacts
    <3>3. m \in Ids /\ log'[m].at = "sealed" /\ log'[m].seq = BatchSeq(head, batch, m)
      BY <1>1, <3>2
    <3>4. PICK h : h = prev[i]
      OBVIOUS
    <3>5. h # Genesis /\ h[1] = m
      BY <2>4, <2>6, <3>1, <3>4, HashFacts
    <3>6. Joined(i)
      BY <2>1, <3>2, <3>3, <3>4, <3>5 DEF Joined
    <3> QED
      BY <2>2, <3>6
  <2> QED
    BY <2>5, <2>6
<1>5. ASSUME NEW i \in DOMAIN batch, NEW j \in DOMAIN batch, log'[i].seq = log'[j].seq
      PROVE  i = j
  <2>1. BatchSeq(head, batch, i) = BatchSeq(head, batch, j)
    BY <1>1, <1>5
  <2> QED
    BY <1>1, <1>2, <2>1, BatchSeqFacts
<1>6. Log!Seal(DOMAIN batch)
  BY <1>1, <1>4, <1>5, CommitSeals
<1> QED
  BY <1>1, <1>6

\* A purge removes its rows or leaves all of them in their places.
LEMMA PurgeImplements ==
    ASSUME Inv, NEW p \in Writers, NEW strategy \in Strategies, NEW rows \in SUBSET Ids,
           Purge(p, strategy, rows)
    PROVE  Log!Remove(rows) \/ UNCHANGED Log!logVars
<1>1. /\ \A i \in rows : log[i].at \in {"legacy", "sealed"}
      /\ \A i \in Ids : log'[i] = IF i \notin rows THEN log[i]
                                  ELSE IF strategy = "hard_delete" THEN Deleted
                                  ELSE Stamped(log[i], strategy)
  BY DEF Purge, Present
<1>2. CASE strategy = "hard_delete"
  <2>1. Deleted.at = "deleted" /\ Deleted.seq = 0 /\ Deleted.prev = Genesis
    BY DEF Deleted, Absent
  <2>2. ASSUME NEW i \in Ids
        PROVE  /\ log'[i].seq = IF i \in rows THEN 0 ELSE log[i].seq
               /\ LinkOf(i)' = IF i \in rows THEN 0 ELSE LinkOf(i)
               /\ log'[i].at = "deleted" <=> i \in rows \/ log[i].at = "deleted"
    BY <1>1, <1>2, <2>1 DEF LinkOf
  <2>3. rows \cap {i \in Ids : log[i].at = "deleted"} = {}
    BY <1>1
  <2> QED
    BY <2>2, <2>3 DEF Log!Remove
<1>3. CASE strategy # "hard_delete"
  <2>1. ASSUME NEW i \in Ids
        PROVE  /\ log'[i].seq = log[i].seq /\ log'[i].prev = log[i].prev
               /\ log'[i].at = "deleted" <=> log[i].at = "deleted"
    <3>1. CASE i \in rows
      BY <1>1, <1>3, <3>1, RowFacts, StampMakesRow
    <3>2. CASE i \notin rows
      BY <1>1, <3>2
    <3> QED
      BY <3>1, <3>2
  <2> QED
    BY <2>1, LogStands
<1> QED
  BY <1>2, <1>3

LEMMA RewriteImplements ==
    ASSUME Inv, NEW k \in Ids, Rewrite(k)
    PROVE  UNCHANGED Log!logVars
<1>1. log = [j \in Ids |-> log[j]] /\ log' = [log EXCEPT ![k].content = "rewritten"]
  BY DEF Rewrite, Inv, RowsWell
<1>2. IsRow(log[k]) /\ log[k].at = "sealed"
  BY RowFacts DEF Rewrite
<1>3. log'[k] = [log[k] EXCEPT !.content = "rewritten"] /\ \A i \in Ids \ {k} : log'[i] = log[i]
  BY <1>1
<1>4. /\ log'[k].at = log[k].at /\ log'[k].seq = log[k].seq /\ log'[k].prev = log[k].prev
  BY <1>2, <1>3, RewriteMakesRow
<1> QED
  BY <1>3, <1>4, LogStands

LEMMA StepImplements ==
    ASSUME AuditAssumption, Inv, [Next]_vars
    PROVE  [Log!LogNext]_(Log!logVars)
<1>1. LogShape
  BY StepLogShape
<1>2. RowsWell' /\ Evolution
  BY <1>1, StepRows
<1>3. CASE UNCHANGED <<log, rewrites, purged>>
  <2>1. UNCHANGED Log!logVars
    BY <1>3, LogStands
  <2> QED
    BY <2>1
<1>4. ASSUME NEW p \in Writers, NEW strategy \in Strategies, NEW rows \in SUBSET Ids,
             Purge(p, strategy, rows)
      PROVE  [Log!LogNext]_(Log!logVars)
  BY <1>4, PurgeImplements DEF Log!LogNext
<1>5. ASSUME NEW k \in Ids, Rewrite(k)
      PROVE  [Log!LogNext]_(Log!logVars)
  BY <1>5, RewriteImplements
<1>6. ASSUME NEW p \in Writers, NEW k \in Ids, CommitAppend(p, k)
      PROVE  [Log!LogNext]_(Log!logVars)
  <2>1. Log!Seal({k})
    BY <1>2, <1>6, AppendImplements
  <2>2. {k} \in SUBSET Ids
    OBVIOUS
  <2> QED
    BY <2>1, <2>2 DEF Log!LogNext
<1>7. ASSUME NEW p \in Writers, CommitBackfill(p)
      PROVE  [Log!LogNext]_(Log!logVars)
  BY <1>1, <1>2, <1>7, BackfillImplements DEF Log!LogNext
<1> QED
  BY <1>1, <1>3, <1>4, <1>5, <1>6, <1>7 DEF LogShape

LEMMA InitImplements ==
    ASSUME Init
    PROVE  Log!LogInit
<1>1. PICK a : a = Absent
  OBVIOUS
<1>2. PICK old : old = [a EXCEPT !.at = "legacy", !.content = "original"]
  OBVIOUS
<1>3. log = [i \in Ids |-> IF i <= Legacy THEN old ELSE a]
  BY <1>1, <1>2 DEF Init
<1>4. a = [at |-> "absent", seq |-> 0, prev |-> Genesis, hash |-> Genesis,
           content |-> "none", stamped |-> FALSE]
  BY <1>1 DEF Absent
<1>5. old = [at |-> "legacy", seq |-> 0, prev |-> Genesis, hash |-> Genesis,
             content |-> "original", stamped |-> FALSE]
  BY <1>2, <1>4
<1>6. \A i \in Ids : log[i] = old \/ log[i] = a
  BY <1>3
<1>7. \A i \in Ids : log[i].seq = 0 /\ log[i].prev = Genesis /\ log[i].at # "deleted"
  BY <1>4, <1>5, <1>6
<1>8. \A i \in Ids : LinkOf(i) = 0
  BY <1>7 DEF LinkOf
<1> QED
  BY <1>7, <1>8 DEF Log!LogInit

-----------------------------------------------------------------------------
(* The theorems. *)

\* In every reachable state the rows, the chain of their hashes, the open
\* transaction and the walk are as the module's header says.
THEOREM InvHolds == Spec => []Inv
<1>1. Init => Inv
  BY AuditAssumption, InitInv
<1>2. Inv /\ [Next]_vars => Inv'
  BY AuditAssumption, StepInv
<1> QED
  BY <1>1, <1>2, PTL DEF Spec

\* Rows are sealed in full or not at all, and a transaction is open exactly
\* for the holder of the advisory lock (pg_advisory_xact_lock).
THEOREM TypesHold == Spec => []TypeOK
<1>1. ASSUME Inv
      PROVE  TypeOK
  <2>1. \A i \in Ids : /\ log[i].at \in {"absent", "legacy", "sealed", "deleted"}
                       /\ (log[i].seq # 0) = (log[i].at = "sealed")
                       /\ (log[i].content # "none") = Present(i)
    <3> SUFFICES ASSUME NEW i \in Ids
                 PROVE  /\ log[i].at \in {"absent", "legacy", "sealed", "deleted"}
                        /\ (log[i].seq # 0) = (log[i].at = "sealed")
                        /\ (log[i].content # "none") = Present(i)
      OBVIOUS
    <3>1. IsRow(log[i])
      BY <1>1, RowFacts
    <3> QED
      BY <3>1 DEF IsRow, Present
  <2>2. \A p \in Writers : tx[p].at \in {"append", "backfill"} <=> lock = p
    BY <1>1 DEF Inv, TxWell, Open
  <2>3. /\ walk.at \in {"idle", "walking", "done"}
        /\ walk.total \in 0 .. MaxRows /\ walk.broken \subseteq Ids
    BY <1>1, WalkFacts DEF IsWalk
  <2>4. rewrites \in 0 .. MaxRewrites
    BY <1>1 DEF Inv, RowsWell
  <2> QED
    BY <2>1, <2>2, <2>3, <2>4 DEF TypeOK
<1> QED
  BY <1>1, InvHolds, PTL

\* The head that appendWithChain or backfillChain has read is still the last
\* row of the chain when the transaction seals its own: no other append and no
\* other batch gets between, and the unique index on sequence never stops one.
THEOREM HeadStaysCurrent == Spec => []HeadIsCurrent
<1>1. ASSUME Inv
      PROVE  HeadIsCurrent
  <2>1. ASSUME NEW p \in Writers, tx[p].at \in {"append", "backfill"}
        PROVE  \A i \in SealedIn(log) : log[i].seq <= tx[p].head.seq
    <3>1. HeadWell(tx[p].head)
      BY <1>1, <2>1, OpenFacts DEF Open
    <3> QED
      BY <3>1 DEF HeadWell
  <2> QED
    BY <2>1 DEF HeadIsCurrent
<1> QED
  BY <1>1, InvHolds, PTL

\* verifyChain, which reads page by page while rows are appended, backfilled
\* and stamped, reports nothing of a chain that nothing has damaged.
THEOREM NoFalseAlarms == Spec => []NoFalseAlarm
<1>1. Inv => NoFalseAlarm
  BY DEF Inv, WalkWell, NoFalseAlarm
<1> QED
  BY <1>1, InvHolds, PTL

\* A walk of verifyChain that comes to its end and reports nothing has passed
\* over no row that was damaged when it began and still is.
THEOREM DamageGetsReported == Spec => []DamageIsReported
<1>1. ASSUME Inv
      PROVE  DamageIsReported
  <2>1. ASSUME walk.at = "done", ~walk.cut, ~walk.issues, NEW i \in walk.broken
        PROVE  log[i].at # "sealed" \/ log[i].stamped
    BY <1>1, <2>1 DEF Inv, WalkWell, Unmended
  <2> QED
    BY <2>1 DEF DamageIsReported
<1> QED
  BY <1>1, InvHolds, PTL

\* The audit chain implements the log: whatever appendWithChain, backfillChain
\* and the retention purge do at the same time, rows are sealed once, at the
\* end, directly after the row they link to, and only deletion moves them.
THEOREM RefinesLog == Spec => ImplementsLog
<1>1. Init => Log!LogInit
  BY InitImplements
<1>2. Inv /\ [Next]_vars => [Log!LogNext]_(Log!logVars)
  BY AuditAssumption, StepImplements
<1> QED
  BY <1>1, <1>2, InvHolds, PTL DEF Spec, ImplementsLog, Log!LogSpec

=============================================================================
