----------------------------- MODULE BlobLedger -----------------------------
(***************************************************************************)
(* The blob ledger of db-api (src/packages/db/src/index.ts): who owns which *)
(* blob and what each account is billed for it.  POST /blobs and            *)
(* DELETE /blobs/:hash run as PostgreSQL transactions at READ COMMITTED, so *)
(* the model has one step per statement that another transaction can fall   *)
(* between.  The variables hold COMMITTED state; what a transaction has     *)
(* written but not committed stays in its own local variables, protected    *)
(* by the row locks it holds.                                               *)
(*                                                                         *)
(* A blob's size is a function of its hash: content is addressed by SHA-256 *)
(* and "size [...] identical across owners" (index.ts, lines 44-46).        *)
(***************************************************************************)
EXTENDS Integers, FiniteSets

CONSTANTS Npub,       \* accounts
          Hash,       \* blob hashes
          SizeOf,     \* bytes of a blob
          Allowance,  \* the storage allowances that are sold
          Tx,         \* connections, each running one transaction at a time
          NoTx,       \* nobody holds the lock
          NULL        \* SQL null

ASSUME ConstantsAssumption ==
    /\ IsFiniteSet(Hash)
    /\ IsFiniteSet(Npub)
    /\ SizeOf \in [Hash -> Nat]
    /\ Allowance \subseteq Nat
    /\ NULL \notin Nat \cup Npub \cup Hash
    /\ NoTx \notin Tx

VARIABLES
    user,          \* the npubs that have a row in "user"
    usedStorage,   \* user.used_storage
    storageBytes,  \* user.storage_bytes
    blob,          \* the (npub, hash) rows of "blob"
    userLock,      \* which transaction holds the lock of a user row
    rowLock,       \* which transaction holds the lock of a blob row
    pc,            \* the next statement of a transaction
    who,           \* the account a transaction works on
    what,          \* the hash a transaction works on
    seen,          \* what SELECT ... FOR UPDATE returned
    todo,          \* DELETE: the owners whose row is still to be deleted
    gone,          \* DELETE: the owners whose row has been deleted
    left,          \* DELETE: remainingOwners
    res            \* the answer of a finished transaction

dbVars == <<user, usedStorage, storageBytes, blob>>
lockVars == <<userLock, rowLock>>
txVars == <<pc, who, what, seen, todo, gone, left, res>>
ledgerVars == <<dbVars, lockVars, txVars>>

Row == Npub \X Hash
Label == {"idle", "lock", "check", "insert", "row", "user", "count", "commit", "done"}
Answer == {"none", "ok", "user_not_found", "already_exists", "quota_exceeded",
           "not_found", "failed"}

Owners(h) == {u \in Npub : <<u, h>> \in blob}

\* The bytes an account is billed for, one element per byte, so that their
\* number is the sum of the sizes of the blobs it owns.
Bytes(S) == UNION {{h} \X (1 .. SizeOf[h]) : h \in S}
Blobs(u) == {h \in Hash : <<u, h>> \in blob}
OwnedBytes(u) == Bytes(Blobs(u))

Init ==
    /\ user = {}
    /\ usedStorage = [u \in Npub |-> 0]
    /\ storageBytes = [u \in Npub |-> NULL]
    /\ blob = {}
    /\ userLock = [u \in Npub |-> NoTx]
    /\ rowLock = [r \in Row |-> NoTx]
    /\ pc = [t \in Tx |-> "idle"]
    /\ who = [t \in Tx |-> NULL]
    /\ what = [t \in Tx |-> NULL]
    /\ seen = [t \in Tx |-> NULL]
    /\ todo = [t \in Tx |-> {}]
    /\ gone = [t \in Tx |-> {}]
    /\ left = [t \in Tx |-> 0]
    /\ res = [t \in Tx |-> "none"]

-----------------------------------------------------------------------------
Unlocked(f, t) == [x \in DOMAIN f |-> IF f[x] = t THEN NoTx ELSE f[x]]

\* The transaction ends: its locks are released and its locals are gone, only
\* the answer and remainingOwners go back to the caller.
Finish(t, answer) ==
    /\ pc' = [pc EXCEPT ![t] = "done"]
    /\ res' = [res EXCEPT ![t] = answer]
    /\ userLock' = Unlocked(userLock, t)
    /\ rowLock' = Unlocked(rowLock, t)
    /\ seen' = [seen EXCEPT ![t] = NULL]
    /\ todo' = [todo EXCEPT ![t] = {}]
    /\ gone' = [gone EXCEPT ![t] = {}]
    /\ who' = [who EXCEPT ![t] = NULL]
    /\ what' = [what EXCEPT ![t] = NULL]
    /\ UNCHANGED left

\* Mutation: a failed transaction is left open and keeps its locks.
RollbackKeepsLocks(t, answer) ==
    /\ pc' = [pc EXCEPT ![t] = "done"]
    /\ res' = [res EXCEPT ![t] = answer]
    /\ UNCHANGED <<dbVars, lockVars, who, what, seen, todo, gone, left>>

\* An exception inside $transaction: nothing it wrote becomes visible.
Rollback(t, answer) == Finish(t, answer) /\ UNCHANGED dbVars

\* POST /users/:npub/entitlement as the ledger sees it: the row is created if
\* missing and storage_bytes is set; the UPDATE waits for the row's lock.
Entitle(u, q) ==
    /\ userLock[u] = NoTx
    /\ user' = user \cup {u}
    /\ storageBytes' = [storageBytes EXCEPT ![u] = q]
    /\ UNCHANGED <<usedStorage, blob, lockVars, txVars>>

-----------------------------------------------------------------------------
(* POST /blobs *)

PostBegin(t, u, h) ==
    /\ pc[t] = "idle"
    /\ pc' = [pc EXCEPT ![t] = "lock"]
    /\ who' = [who EXCEPT ![t] = u]
    /\ what' = [what EXCEPT ![t] = h]
    /\ UNCHANGED <<dbVars, lockVars, seen, todo, gone, left, res>>

PostNoUser(t) ==
    /\ pc[t] = "lock"
    /\ who[t] \notin user
    /\ Rollback(t, "user_not_found")

\* SELECT used_storage, storage_bytes ... FOR UPDATE
PostLock(t) ==
    /\ pc[t] = "lock"
    /\ who[t] \in user
    /\ userLock[who[t]] = NoTx
    /\ userLock' = [userLock EXCEPT ![who[t]] = t]
    /\ seen' = [seen EXCEPT ![t] = [used |-> usedStorage[who[t]],
                                    quota |-> storageBytes[who[t]]]]
    /\ pc' = [pc EXCEPT ![t] = "check"]
    /\ UNCHANGED <<dbVars, rowLock, who, what, todo, gone, left, res>>

\* Mutation: the new blob is left out of the comparison.
OverQuotaBeforeBlob(t) ==
    /\ seen[t].quota # NULL
    /\ seen[t].used > seen[t].quota

OverQuota(t) ==
    /\ seen[t].quota # NULL
    /\ seen[t].used + SizeOf[what[t]] > seen[t].quota

PostDuplicate(t) ==
    /\ pc[t] = "check"
    /\ <<who[t], what[t]>> \in blob
    /\ Rollback(t, "already_exists")

PostOverQuota(t) ==
    /\ pc[t] = "check"
    /\ <<who[t], what[t]>> \notin blob
    /\ OverQuota(t)
    /\ Rollback(t, "quota_exceeded")

\* Mutation: a second upload of the same blob is billed again.
PostCheckNoDup(t) ==
    /\ pc[t] = "check"
    /\ ~OverQuota(t)
    /\ pc' = [pc EXCEPT ![t] = "insert"]
    /\ UNCHANGED <<dbVars, lockVars, who, what, seen, todo, gone, left, res>>

PostCheck(t) ==
    /\ pc[t] = "check"
    /\ <<who[t], what[t]>> \notin blob
    /\ ~OverQuota(t)
    /\ pc' = [pc EXCEPT ![t] = "insert"]
    /\ UNCHANGED <<dbVars, lockVars, who, what, seen, todo, gone, left, res>>

\* blob.create, user.update with increment, and the commit.  Nothing can fall
\* between them: the user row has been locked since PostLock, and no other
\* transaction sees the new row before the commit.
PostCommit(t) ==
    /\ pc[t] = "insert"
    /\ blob' = blob \cup {<<who[t], what[t]>>}
    /\ usedStorage' = [usedStorage EXCEPT ![who[t]] = @ + SizeOf[what[t]]]
    /\ Finish(t, "ok")
    /\ UNCHANGED <<user, storageBytes>>

-----------------------------------------------------------------------------
(* DELETE /blobs/:hash, for one owner or for all of them *)

\* findMany; the rows come in no particular order.
DelFind(t, h, rows) ==
    /\ pc[t] = "idle"
    /\ IF rows = {}
       THEN Rollback(t, "not_found")
       ELSE \E u \in rows :
            /\ pc' = [pc EXCEPT ![t] = "row"]
            /\ who' = [who EXCEPT ![t] = u]
            /\ what' = [what EXCEPT ![t] = h]
            /\ todo' = [todo EXCEPT ![t] = rows \ {u}]
            /\ UNCHANGED <<dbVars, lockVars, seen, gone, left, res>>

DelFindOne(t, u, h) == DelFind(t, h, Owners(h) \cap {u})
DelFindAll(t, h) == DelFind(t, h, Owners(h))

\* blob.delete waits for a concurrent deleter of the same row; when that one
\* has committed the row is gone and Prisma throws P2025.
DelRow(t) ==
    /\ pc[t] = "row"
    /\ rowLock[<<who[t], what[t]>>] = NoTx
    /\ <<who[t], what[t]>> \in blob
    /\ rowLock' = [rowLock EXCEPT ![<<who[t], what[t]>>] = t]
    /\ gone' = [gone EXCEPT ![t] = @ \cup {who[t]}]
    /\ pc' = [pc EXCEPT ![t] = "user"]
    /\ UNCHANGED <<dbVars, userLock, who, what, seen, todo, left, res>>

DelRowGone(t) ==
    /\ pc[t] = "row"
    /\ rowLock[<<who[t], what[t]>>] = NoTx
    /\ <<who[t], what[t]>> \notin blob
    /\ Rollback(t, "not_found")

\* user.update with decrement: takes the lock of the user row; the new value
\* is visible at the commit.
DelUser(t) ==
    /\ pc[t] = "user"
    /\ userLock[who[t]] = NoTx
    /\ userLock' = [userLock EXCEPT ![who[t]] = t]
    /\ IF todo[t] = {}
       THEN /\ pc' = [pc EXCEPT ![t] = "count"]
            /\ UNCHANGED <<who, todo>>
       ELSE \E u \in todo[t] :
            /\ pc' = [pc EXCEPT ![t] = "row"]
            /\ who' = [who EXCEPT ![t] = u]
            /\ todo' = [todo EXCEPT ![t] = @ \ {u}]
    /\ UNCHANGED <<dbVars, rowLock, what, seen, gone, left, res>>

\* blob.count: the committed rows of the hash, less its own deletions.
DelCount(t) ==
    /\ pc[t] = "count"
    /\ left' = [left EXCEPT ![t] = Cardinality(Owners(what[t]) \ gone[t])]
    /\ pc' = [pc EXCEPT ![t] = "commit"]
    /\ UNCHANGED <<dbVars, lockVars, who, what, seen, todo, gone, res>>

DelCommit(t) ==
    /\ pc[t] = "commit"
    /\ blob' = blob \ (gone[t] \X {what[t]})
    /\ usedStorage' = [u \in Npub |-> IF u \in gone[t] THEN usedStorage[u] - SizeOf[what[t]]
                                                       ELSE usedStorage[u]]
    /\ Finish(t, "ok")
    /\ UNCHANGED <<user, storageBytes>>

\* The caller has its answer and the connection goes back to the pool.
Return(t) ==
    /\ pc[t] = "done"
    /\ pc' = [pc EXCEPT ![t] = "idle"]
    /\ res' = [res EXCEPT ![t] = "none"]
    /\ left' = [left EXCEPT ![t] = 0]
    /\ UNCHANGED <<dbVars, lockVars, who, what, seen, todo, gone>>

-----------------------------------------------------------------------------
(* Waiting, deadlock, and transactions that never commit *)

WaitsFor(t, s) ==
    \/ pc[t] = "lock" /\ who[t] \in user /\ userLock[who[t]] = s
    \/ pc[t] = "user" /\ userLock[who[t]] = s
    \/ pc[t] = "row" /\ rowLock[<<who[t], what[t]>>] = s

\* t is on a cycle of the waits-for graph.  A transaction waits for at most one
\* lock, so a set in which each waits for one and is waited for is made of cycles.
Deadlocked(t) ==
    \E C \in SUBSET Tx :
        /\ t \in C
        /\ \A s \in C : (\E r \in C : WaitsFor(s, r)) /\ (\E r \in C : WaitsFor(r, s))

\* PostgreSQL's deadlock detector rolls one of them back.
DeadlockVictim(t) == Deadlocked(t) /\ Rollback(t, "failed")

\* The connection or the process dies, or Prisma's transaction timeout fires.
Abort(t) == pc[t] \notin {"idle", "done"} /\ Rollback(t, "failed")

Post(t) ==
    \/ PostNoUser(t) \/ PostLock(t)
    \/ PostDuplicate(t) \/ PostOverQuota(t) \/ PostCheck(t) \/ PostCommit(t)

Delete(t) == DelRow(t) \/ DelRowGone(t) \/ DelUser(t) \/ DelCount(t) \/ DelCommit(t)

Begin(t) ==
    \/ \E u \in Npub, h \in Hash : PostBegin(t, u, h) \/ DelFindOne(t, u, h)
    \/ \E h \in Hash : DelFindAll(t, h)

\* What the database and db-api do for a transaction once it has begun.
Step(t) == Post(t) \/ Delete(t) \/ DeadlockVictim(t)

Next ==
    \/ \E u \in Npub, q \in Allowance : Entitle(u, q)
    \/ \E t \in Tx : Begin(t) \/ Step(t) \/ Abort(t) \/ Return(t)

Spec == Init /\ [][Next]_ledgerVars

\* A started transaction is executed by the event loop and the database, which
\* grants a lock in the order of arrival (so a waiter is not overtaken for
\* ever: strong fairness) and breaks deadlocks.  Nothing obliges a client to
\* start a transaction, or one to abort.
LiveSpec == Spec /\ \A t \in Tx : SF_ledgerVars(Step(t))

-----------------------------------------------------------------------------
(* Properties *)

TypeOK ==
    /\ user \subseteq Npub
    /\ usedStorage \in [Npub -> Nat]
    /\ storageBytes \in [Npub -> Allowance \cup {NULL}]
    /\ blob \subseteq Row
    /\ userLock \in [Npub -> Tx \cup {NoTx}]
    /\ rowLock \in [Row -> Tx \cup {NoTx}]
    /\ pc \in [Tx -> Label]
    /\ who \in [Tx -> Npub \cup {NULL}]
    /\ what \in [Tx -> Hash \cup {NULL}]
    /\ seen \in [Tx -> [used : Nat, quota : Allowance \cup {NULL}] \cup {NULL}]
    /\ todo \in [Tx -> SUBSET Npub]
    /\ gone \in [Tx -> SUBSET Npub]
    /\ left \in [Tx -> Nat]
    /\ res \in [Tx -> Answer]

\* An account is billed for exactly the blobs it owns: used_storage, which is
\* only ever incremented and decremented, is the sum of the sizes of its rows
\* in every committed state, whatever transactions overlap, die or deadlock.
Accounting == \A u \in Npub : usedStorage[u] = Cardinality(OwnedBytes(u))

\* What a transaction has read or written stays true until it ends: an upload
\* that holds the lock of its user row still sees the usage and the allowance it
\* was checked against, one that is about to insert has no row yet and fits, and
\* every row a delete has taken is still there and locked by it, together with
\* its user row once that has been updated.
Isolated(t) ==
    /\ pc[t] \notin {"idle", "done"} => who[t] \in Npub /\ what[t] \in Hash
    /\ pc[t] \in {"check", "insert"} =>
         /\ userLock[who[t]] = t
         /\ seen[t] = [used |-> usedStorage[who[t]], quota |-> storageBytes[who[t]]]
    /\ pc[t] = "insert" => <<who[t], what[t]>> \notin blob /\ ~OverQuota(t)
    /\ \A u \in gone[t] :
         /\ pc[t] \in {"row", "user", "count", "commit"}
         /\ <<u, what[t]>> \in blob
         /\ rowLock[<<u, what[t]>>] = t
         /\ userLock[u] = t \/ (pc[t] = "user" /\ u = who[t])

Isolation == \A t \in Tx : Isolated(t)

\* Every step of the transactions is a step of the promised ledger: a row is
\* added only within the allowance in force at the commit, computed from what
\* the account really owns, and rows are released only if they were there.
Promise == INSTANCE Ledger WITH owned <- blob, allowance <- storageBytes
ImplementsLedger == Promise!Spec

\* A transaction that has begun ends: whatever it waits for is either released
\* by a transaction that makes progress or is part of a cycle of waits that
\* the deadlock detector breaks.
TxTerminates == \A t \in Tx : (pc[t] # "idle") ~> (pc[t] = "done")

=============================================================================
