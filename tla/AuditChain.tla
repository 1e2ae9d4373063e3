----------------------------- MODULE AuditChain -----------------------------
(***************************************************************************)
(* The hash chain over the audit log: appends and the backfill of legacy   *)
(* rows, transactions under one advisory lock; the retention purge, which  *)
(* rewrites or deletes rows without that lock; and the verification walk,  *)
(* which reads page by page while all of them go on.                       *)
(*                                                                         *)
(* A hash is the tuple it is computed from, so two hashes are equal only   *)
(* when what they cover is.  Rows are numbered by age.                     *)
(***************************************************************************)
EXTENDS Integers, FiniteSets, FiniteSetsExt

CONSTANTS
    Writers,     \* requests and jobs that write audit records
    MaxRows,     \* rows the log can ever hold
    Legacy,      \* rows that predate the chain
    BatchSize,   \* BACKFILL_BATCH_SIZE
    PageSize,    \* VERIFY_PAGE_SIZE
    Strategies,  \* purge strategies the retention policy may be set to
    MaxRewrites, \* rows rewritten behind the services' back
    None

ASSUME AuditAssumption ==
    /\ MaxRows \in Nat /\ Legacy \in 0 .. MaxRows
    /\ BatchSize \in Nat \ {0} /\ PageSize \in Nat \ {0}
    /\ Strategies \subseteq {"soft_delete", "hard_delete", "anonymize"}
    /\ MaxRewrites \in Nat /\ None \notin Writers

VARIABLES
    log,      \* the rows of AuditLog
    lock,     \* who holds the advisory lock
    tx,       \* the open transaction of each writer
    walk,     \* the verification in progress
    rewrites, \* rows rewritten so far
    purged    \* whether a purge has deleted rows

vars == <<log, lock, tx, walk, rewrites, purged>>

Ids == 1 .. MaxRows

\* GENESIS_PREV_HASH
Genesis == <<>>

\* computeEntryHash
EntryHash(i, seq, prev, content) == <<i, seq, prev, content>>

Absent == [at |-> "absent", seq |-> 0, prev |-> Genesis, hash |-> Genesis,
           content |-> "none", stamped |-> FALSE]

\* Ids are never used again.
Deleted == [Absent EXCEPT !.at = "deleted"]

Present(i) == log[i].at \in {"legacy", "sealed"}

\* A row as its transaction commits it.  stamped: deletedAt is set.
SealedRow(row, i, seq, prev, content) ==
    [row EXCEPT !.at = "sealed", !.seq = seq, !.prev = prev,
                !.hash = EntryHash(i, seq, prev, content)]

SealedIn(rows) == {i \in Ids : rows[i].at = "sealed"}

\* The row of rs with the highest sequence.
LastOf(rows, rs) == CHOOSE i \in rs : \A j \in rs : rows[j].seq <= rows[i].seq

BrokenChainHead(rows) ==
    IF SealedIn(rows) = {} THEN [seq |-> 0, hash |-> Genesis]
    ELSE LET i == Max(SealedIn(rows))
         IN  [seq |-> rows[i].seq, hash |-> rows[i].hash]

\* findFirst({ where: { entryHash: { not: null } }, orderBy: { sequence: 'desc' } })
ChainHead(rows) ==
    IF SealedIn(rows) = {} THEN [seq |-> 0, hash |-> Genesis]
    ELSE LET i == LastOf(rows, SealedIn(rows))
         IN  [seq |-> rows[i].seq, hash |-> rows[i].hash]

NoTx == [at |-> "idle", head |-> [seq |-> 0, hash |-> Genesis], batch |-> <<>>]

NoWalk == [at |-> "idle", total |-> 0, processed |-> 0, expected |-> Genesis,
           last |-> 0, issues |-> FALSE, cut |-> FALSE, broken |-> {}]

Init ==
    /\ log = [i \in Ids |-> IF i <= Legacy
                            THEN [Absent EXCEPT !.at = "legacy", !.content = "original"]
                            ELSE Absent]
    /\ lock = None
    /\ tx = [p \in Writers |-> NoTx]
    /\ walk = NoWalk
    /\ rewrites = 0
    /\ purged = FALSE

-----------------------------------------------------------------------------
\* pg_advisory_xact_lock, held until the transaction ends.
BrokenAdvisoryLock(p) == lock' = None

AdvisoryLock(p) == lock = None /\ lock' = p

EndTx(p) == lock' = None /\ tx' = [tx EXCEPT ![p] = NoTx]

\* The unique index on sequence.
SequenceFree(seq) == \A i \in SealedIn(log) : log[i].seq # seq

BeginAppend(p) ==
    /\ tx[p].at \in {"idle", "record"}
    /\ AdvisoryLock(p)
    /\ tx' = [tx EXCEPT ![p] = [at |-> "append", head |-> ChainHead(log), batch |-> <<>>]]
    /\ UNCHANGED <<log, walk, rewrites, purged>>

\* The row is inserted and its hash added; other sessions see both at once.
CommitAppend(p, i) ==
    LET seq == tx[p].head.seq + 1
    IN  /\ tx[p].at = "append" /\ log[i].at = "absent" /\ SequenceFree(seq)
        /\ log' = [log EXCEPT ![i] =
                      SealedRow([@ EXCEPT !.content = "original"],
                                i, seq, tx[p].head.hash, "original")]
        /\ EndTx(p)
        /\ UNCHANGED <<walk, rewrites, purged>>

LegacyRows == {i \in Ids : log[i].at = "legacy"}

\* The oldest unsealed rows, with the contents they have when they are read.
BeginBackfill(p) ==
    LET oldest == {i \in LegacyRows : Cardinality({j \in LegacyRows : j < i}) < BatchSize}
    IN  /\ tx[p].at = "idle" /\ LegacyRows # {}
        /\ AdvisoryLock(p)
        /\ tx' = [tx EXCEPT ![p] = [at |-> "backfill", head |-> ChainHead(log),
                                    batch |-> [i \in oldest |-> log[i].content]]]
        /\ UNCHANGED <<log, walk, rewrites, purged>>

\* The sequence of a row of a batch: they are numbered by age, from the head on.
BatchSeq(head, batch, i) == head.seq + Cardinality({j \in DOMAIN batch : j <= i})

\* The hash that a row of a batch links to: the row's before it.
BrokenPrevHash(head, batch) == [i \in DOMAIN batch |-> head.hash]

PrevHash(head, batch) ==
    LET Before(i) == {j \in DOMAIN batch : j < i}
        prev[i \in DOMAIN batch] ==
            IF Before(i) = {} THEN head.hash
            ELSE LET j == Max(Before(i))
                 IN  EntryHash(j, BatchSeq(head, batch, j), prev[j], batch[j])
    IN  prev

\* A batch seals all its rows; updating one that was deleted since fails.
CommitBackfill(p) ==
    LET batch == tx[p].batch
        head == tx[p].head
    IN  /\ tx[p].at = "backfill"
        /\ \A i \in DOMAIN batch : Present(i) /\ SequenceFree(BatchSeq(head, batch, i))
        /\ log' = [i \in Ids |->
                      IF i \in DOMAIN batch
                      THEN SealedRow(log[i], i, BatchSeq(head, batch, i),
                                     PrevHash(head, batch)[i], batch[i])
                      ELSE log[i]]
        /\ EndTx(p)
        /\ UNCHANGED <<walk, rewrites, purged>>

\* An error, a unique violation or a crash: nothing of the transaction stays.
Rollback(p) ==
    /\ tx[p].at \in {"append", "backfill"}
    /\ EndTx(p)
    /\ UNCHANGED <<log, walk, rewrites, purged>>

-----------------------------------------------------------------------------
\* purgeEntity for AuditLog: a statement on the rows older than the cutoff, or
\* one on each batch of them, which are in no particular order; then an audit
\* record of the purge.
Stamped(row, strategy) ==
    IF row.stamped THEN row
    ELSE [row EXCEPT !.stamped = TRUE,
                     !.content = IF strategy = "anonymize" THEN "redacted" ELSE @]

Purge(p, strategy, rows) ==
    /\ tx[p].at \in {"idle", "record"}
    /\ rows # {} /\ \A i \in rows : Present(i)
    /\ log' = [i \in Ids |->
                  IF i \notin rows THEN log[i]
                  ELSE IF strategy = "hard_delete" THEN Deleted
                  ELSE Stamped(log[i], strategy)]
    /\ purged' = (purged \/ strategy = "hard_delete")
    /\ tx' = [tx EXCEPT ![p].at = "record"]
    /\ UNCHANGED <<lock, walk, rewrites>>

\* A row's content is changed by something else than these services.
Rewrite(i) ==
    /\ rewrites < MaxRewrites
    /\ log[i].at = "sealed" /\ ~log[i].stamped
    /\ log' = [log EXCEPT ![i].content = "rewritten"]
    /\ rewrites' = rewrites + 1
    /\ UNCHANGED <<lock, tx, walk, purged>>

-----------------------------------------------------------------------------
\* foldSealedRow: what the walk checks of a row that is not stamped.
BrokenIntact(i, row, expected) == row.prev = expected

Intact(i, row, expected) ==
    /\ row.hash = EntryHash(i, row.seq, row.prev, row.content)
    /\ row.prev = expected

\* Rows that lost the row they link to.
Orphans ==
    {i \in SealedIn(log) :
        log[i].prev # Genesis /\ \A j \in SealedIn(log) : log[j].hash # log[i].prev}

\* Rows that a walk starting now has to report: not stamped, and orphaned or
\* with a content that is not the one hashed.
Broken ==
    {i \in SealedIn(log) :
        /\ ~log[i].stamped
        /\ \/ i \in Orphans
           \/ log[i].hash # EntryHash(i, log[i].seq, log[i].prev, log[i].content)}

StartWalk ==
    /\ walk.at # "walking"
    /\ SealedIn(log) # {}
    /\ walk' = [NoWalk EXCEPT !.at = "walking", !.total = Cardinality(SealedIn(log)),
                              !.broken = Broken]
    /\ UNCHANGED <<log, lock, tx, rewrites, purged>>

\* The next rows by sequence; none when the row of the cursor is gone.
Page ==
    LET later == {i \in SealedIn(log) : log[i].seq > walk.last}
    IN  IF walk.last # 0 /\ SequenceFree(walk.last) THEN {}
        ELSE {i \in later : Cardinality({j \in later : log[j].seq < log[i].seq}) < PageSize}

\* The link expected of a row of a page: the stored hash of the row before,
\* stamped or not.
Expected(page, i) ==
    LET before == {j \in page : log[j].seq < log[i].seq}
    IN  IF before = {} THEN walk.expected ELSE log[LastOf(log, before)].hash

WalkPage ==
    LET page == Page
        n == Cardinality(page)
        last == LastOf(log, page)
    IN  /\ walk.at = "walking"
        /\ walk' =
             IF page = {} THEN [walk EXCEPT !.at = "done", !.cut = walk.last # 0]
             ELSE [walk EXCEPT
                     !.at = IF walk.processed + n < walk.total THEN "walking" ELSE "done",
                     !.processed = @ + n,
                     !.last = log[last].seq,
                     !.expected = log[last].hash,
                     !.issues = @ \/ \E i \in page : /\ ~log[i].stamped
                                                    /\ ~Intact(i, log[i], Expected(page, i))]
        /\ UNCHANGED <<log, lock, tx, rewrites, purged>>

-----------------------------------------------------------------------------
Next ==
    \/ \E p \in Writers :
        \/ BeginAppend(p)
        \/ \E i \in Ids : CommitAppend(p, i)
        \/ BeginBackfill(p)
        \/ CommitBackfill(p)
        \/ Rollback(p)
        \/ \E strategy \in Strategies, rows \in SUBSET {i \in Ids : Present(i)} : Purge(p, strategy, rows)
    \/ \E i \in Ids : Rewrite(i)
    \/ StartWalk
    \/ WalkPage

Spec == Init /\ [][Next]_vars

-----------------------------------------------------------------------------
\* The types; a row is sealed in full or not at all, and only the holder of
\* the advisory lock has a transaction open.
TypeOK ==
    /\ \A i \in Ids :
        /\ log[i].at \in {"absent", "legacy", "sealed", "deleted"}
        /\ (log[i].seq # 0) = (log[i].at = "sealed")
        /\ (log[i].content # "none") = Present(i)
    /\ \A p \in Writers : tx[p].at \in {"append", "backfill"} <=> lock = p
    /\ walk.at \in {"idle", "walking", "done"}
    /\ walk.total \in 0 .. MaxRows /\ walk.broken \subseteq Ids
    /\ rewrites \in 0 .. MaxRewrites

\* docs/audit-log-integrity.md, 2: "Two concurrent appends can never observe
\* the same head".  No append and no backfill batch, however they interleave,
\* is ever stopped by the unique index: the head it read is still the last.
HeadIsCurrent ==
    \A p \in Writers :
        tx[p].at \in {"append", "backfill"} =>
            \A i \in SealedIn(log) : log[i].seq <= tx[p].head.seq

\* verifyChain raises no false alarm: as long as no row was deleted and none
\* rewritten, a walk finds the chain intact, with appends, backfill batches,
\* anonymisation and soft deletion going on around it and inside it.
NoFalseAlarm == walk.issues => purged \/ rewrites > 0

\* verifyChain misses nothing it checks: a walk that was not cut short and
\* reports no issue has met none of the rows that were broken when it began;
\* those have been stamped or deleted since.
DamageIsReported ==
    walk.at = "done" /\ ~walk.cut /\ ~walk.issues =>
        \A i \in walk.broken : log[i].at # "sealed" \/ log[i].stamped

\* The row that row i was chained to.
LinkOf(i) == IF log[i].prev = Genesis THEN 0 ELSE log[i].prev[1]

Log == INSTANCE SealedLog WITH
    Entry <- Ids,
    NoEntry <- 0,
    place <- [i \in Ids |-> log[i].seq],
    link <- [i \in Ids |-> LinkOf(i)],
    gone <- {i \in Ids : log[i].at = "deleted"}

\* docs/audit-log-integrity.md, 1: each entry covers the one before, in strictly
\* increasing chain positions.  Appends, batches and every kind of purge, in any
\* order, extend one chain at its end or take rows out of it; none moves a row,
\* links it anew or seals it twice.
ImplementsLog == Log!LogSpec

=============================================================================
