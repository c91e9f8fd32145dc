----------------------------- MODULE BlobStore ------------------------------
(***************************************************************************)
(* The blossom proxy (src/proxy/blossom/src/index.ts and servers.ts) over   *)
(* the ledger of db-api and the storage nodes: PUT /upload, DELETE /<hash>, *)
(* the moderation delete and the purge of a closed account.  A request is a *)
(* sequence of awaited calls; other requests run between any two of them.   *)
(* Each request uses the ledger connection of the same name.                *)
(*                                                                         *)
(* A node is what the proxy sees of it: it holds the bytes of a hash or it  *)
(* does not.  A call to a node or to db-api may fail where Faults says so.  *)
(***************************************************************************)
EXTENDS BlobLedger

CONSTANTS Node,          \* storage providers
          ReplicaCount,  \* BLOSSOM_REPLICAS
          Faults         \* which calls may fail in this instance

ASSUME StoreAssumption ==
    /\ ReplicaCount \in Nat \ {0}
    /\ IsFiniteSet(Node)
    /\ Faults \subseteq {"put", "delete", "abort", "answer", "lookup", "crash"}
    /\ NULL \notin {"upload", "delete", "moderate", "purge"}

VARIABLES
    stored,    \* the (node, hash) pairs whose bytes are on disk
    replicas,  \* the replicas column of a blob row
    closed,    \* accounts whose lifecycle status is CLOSED
    rpc,       \* what a request does next
    job,       \* the route of a request
    by,        \* its account
    on,        \* its hash
    reps,      \* the replicas it read, or stored itself
    cand,      \* the nodes it still has to call
    fresh,     \* storedNow
    batch,     \* purge: (hash, replicas) pairs of the page it listed
    owed,      \* moderation: the owners it still has to record
    unaudited,   \* history: rows a moderation removed and has not recorded
    overlapped,  \* history: hashes on which two requests overlapped
    raced,       \* history: hashes on which an upload overlapped a request that
                 \* erases, or bytes were erased after a failed lookup
    faulted      \* history: hashes for which a call or an answer failed

reqVars == <<rpc, job, by, on, reps, cand, fresh, batch, owed>>
storeVars == <<stored, replicas, closed, unaudited, reqVars>>
history == <<overlapped, raced, faulted>>
vars == <<ledgerVars, storeVars, history>>

StoreInit ==
    /\ Init
    /\ stored = {}
    /\ replicas = [r \in Row |-> {}]
    /\ closed = {}
    /\ rpc = [t \in Tx |-> "idle"]
    /\ job = [t \in Tx |-> NULL]
    /\ by = [t \in Tx |-> NULL]
    /\ on = [t \in Tx |-> NULL]
    /\ reps = [t \in Tx |-> {}]
    /\ cand = [t \in Tx |-> {}]
    /\ fresh = [t \in Tx |-> FALSE]
    /\ batch = [t \in Tx |-> {}]
    /\ owed = [t \in Tx |-> {}]
    /\ unaudited = {}
    /\ overlapped = {}
    /\ raced = {}
    /\ faulted = {}

-----------------------------------------------------------------------------
Goto(t, label) == rpc' = [rpc EXCEPT ![t] = label]
Set(f, t, x) == [f EXCEPT ![t] = x]

\* The response is sent and the request's locals are gone.
Respond(t) ==
    /\ Goto(t, "idle")
    /\ job' = Set(job, t, NULL)
    /\ by' = Set(by, t, NULL)
    /\ on' = Set(on, t, NULL)
    /\ reps' = Set(reps, t, {})
    /\ cand' = Set(cand, t, {})
    /\ fresh' = Set(fresh, t, FALSE)
    /\ batch' = Set(batch, t, {})
    /\ owed' = Set(owed, t, {})

\* The hashes a request in progress is concerned with, those two requests have
\* in common, and those that one request uploads while another may erase them.
Working(t) == {on[t]} \cup {b[1] : b \in batch[t]}
Erasing(t) == job[t] \in {"delete", "moderate", "purge"} \/ rpc[t] \in {"undo", "erase"}
Contended == {h \in Hash : \E s, t \in Tx : s # t /\ h \in Working(s) \cap Working(t)}
Racing == {h \in Hash : \E s, t \in Tx :
             s # t /\ h \in Working(s) \cap Working(t) /\ job[s] = "upload" /\ Erasing(t)}

\* A fault the environment may choose to cause, and its trace in the history.
Fault(f, h) == f \in Faults /\ faulted' = faulted \cup {h}
NoFault == UNCHANGED faulted

-----------------------------------------------------------------------------
(* Accounts *)

\* A purchase reopens the account; see Entitle for the allowance.
Purchase(u, q) ==
    /\ Entitle(u, q)
    /\ closed' = closed \ {u}
    /\ UNCHANGED <<stored, replicas, unaudited, reqVars>>
    /\ NoFault

\* Time passes and the plan ends for good (deriveAccess: CLOSED).
Close(u) ==
    /\ u \in user
    /\ closed' = closed \cup {u}
    /\ UNCHANGED <<ledgerVars, stored, replicas, unaudited, reqVars>>
    /\ NoFault

\* A request passes authentication and the gates and makes its first lookup.
Receive(t, j, u, h) ==
    /\ rpc[t] = "idle"
    /\ job' = Set(job, t, j)
    /\ by' = Set(by, t, u)
    /\ on' = Set(on, t, h)

-----------------------------------------------------------------------------
(* PUT /upload *)

\* The account's plan allows uploads and it has no row for the hash yet
\* (otherwise the answer is 200 and nothing changes).
UploadStarts(t, u, h) ==
    /\ u \in user \ closed
    /\ u \notin Owners(h)
    /\ Receive(t, "upload", u, h)

\* getBlob answers with the row that was created first.  Rows of one hash can
\* only differ when they were created by overlapping requests, and then any of
\* them can carry the earliest timestamp.
UploadReuse(t, u, h) ==
    /\ UploadStarts(t, u, h)
    /\ \E v \in Owners(h) : reps' = Set(reps, t, replicas[<<v, h>>])
    /\ PostBegin(t, u, h)
    /\ Goto(t, "call")
    /\ UNCHANGED <<stored, replicas, closed, unaudited, cand, fresh, batch, owed>>
    /\ NoFault

\* freshCandidates: whatever part of the nodes the registry knows as active
\* (with none of them the upload fails and nothing changes).
UploadStore(t, u, h) ==
    /\ UploadStarts(t, u, h)
    /\ Owners(h) = {}
    /\ \E C \in (SUBSET Node) \ {{}} : cand' = Set(cand, t, C)
    /\ fresh' = Set(fresh, t, TRUE)
    /\ Goto(t, "put")
    /\ UNCHANGED <<ledgerVars, stored, replicas, closed, unaudited, reps, batch, owed>>
    /\ NoFault

\* One turn of uploadBlob's loop for node n; R are the copies it has afterwards.
\* The last turn is followed by createBlob, or by an error if there is no copy.
PutNext(t, n, R) ==
    IF cand[t] # {n} /\ Cardinality(R) < ReplicaCount
    THEN /\ reps' = Set(reps, t, R)
         /\ cand' = Set(cand, t, cand[t] \ {n})
         /\ UNCHANGED <<ledgerVars, rpc, job, by, on, fresh, batch, owed>>
    ELSE IF R = {} THEN Respond(t) /\ UNCHANGED ledgerVars
    ELSE /\ reps' = Set(reps, t, R)
         /\ cand' = Set(cand, t, {})
         /\ PostBegin(t, by[t], on[t])
         /\ Goto(t, "call")
         /\ UNCHANGED <<job, by, on, fresh, batch, owed>>

Put(t) ==
    /\ rpc[t] = "put"
    /\ \E n \in cand[t] :
         /\ stored' = stored \cup {<<n, on[t]>>}
         /\ PutNext(t, n, reps[t] \cup {n})
    /\ UNCHANGED <<replicas, closed, unaudited>>
    /\ NoFault

\* The PUT fails; the node may have kept the bytes (the answer timed out).
PutFails(t) ==
    /\ rpc[t] = "put"
    /\ Fault("put", on[t])
    /\ \E n \in cand[t] :
         /\ stored' \in {stored, stored \cup {<<n, on[t]>>}}
         /\ PutNext(t, n, reps[t])
    /\ UNCHANGED <<replicas, closed, unaudited>>

\* Mutation: no compensation.
UploadHearsNoUndo(t, a) ==
    /\ job[t] = "upload"
    /\ Respond(t)

\* createBlob has answered a.  Success and already_exists end with 201; after
\* any other answer the bytes this request stored have to go again.
UploadHears(t, a) ==
    /\ job[t] = "upload"
    /\ IF fresh[t] /\ a \notin {"ok", "already_exists"}
       THEN Goto(t, "undo") /\ UNCHANGED <<job, by, on, reps, cand, fresh, batch, owed>>
       ELSE Respond(t)

\* db.getBlob(hash).catch(() => null): remove the bytes unless somebody has
\* claimed the hash, and also when the lookup fails.
Undo(t) ==
    /\ rpc[t] = "undo"
    /\ IF Owners(on[t]) # {} THEN Respond(t)
       ELSE /\ cand' = Set(cand, t, reps[t])
            /\ Goto(t, "erase")
            /\ UNCHANGED <<job, by, on, reps, fresh, batch, owed>>
    /\ UNCHANGED <<ledgerVars, stored, replicas, closed, unaudited>>
    /\ NoFault

UndoBlind(t) ==
    /\ rpc[t] = "undo"
    /\ Fault("lookup", on[t])
    /\ cand' = Set(cand, t, reps[t])
    /\ Goto(t, "erase")
    /\ UNCHANGED <<ledgerVars, stored, replicas, closed, unaudited, job, by, on, reps, fresh, batch, owed>>

-----------------------------------------------------------------------------
(* DELETE /<hash> and the moderation delete *)

\* The caller must be an owner (otherwise 404 or 403 and nothing changes).
DeleteStarts(t, u, h) ==
    /\ u \in Owners(h)
    /\ Receive(t, "delete", u, h)

ModerateStarts(t, h) == Receive(t, "moderate", NULL, h)

\* getBlob: the replicas, and the owners a moderation will record, are read
\* before the rows are deleted.
DeleteLookup(t, h, record) ==
    /\ \E v \in Owners(h) : reps' = Set(reps, t, replicas[<<v, h>>])
    /\ owed' = Set(owed, t, record)
    /\ Goto(t, "remove")
    /\ UNCHANGED <<ledgerVars, stored, replicas, closed, unaudited, cand, fresh, batch>>
    /\ NoFault

\* Row first: deleteBlob at db-api for this owner, or for all of them.
Remove(t) ==
    /\ rpc[t] = "remove"
    /\ IF job[t] = "moderate" THEN DelFindAll(t, on[t]) ELSE DelFindOne(t, by[t], on[t])
    /\ Goto(t, "call")
    /\ UNCHANGED <<stored, replicas, closed, unaudited, job, by, on, reps, cand, fresh, batch, owed>>
    /\ NoFault

EraseNow(t) ==
    /\ cand' = Set(cand, t, reps[t])
    /\ Goto(t, "erase")
    /\ UNCHANGED <<job, by, on, reps, fresh, batch, owed>>

\* Mutation: remainingOwners is not looked at.
DeleteHearsErases(t, a) ==
    /\ job[t] = "delete"
    /\ IF a = "ok" THEN EraseNow(t) ELSE Respond(t)

\* The bytes go when no owner remains.
DeleteHears(t, a) ==
    /\ job[t] = "delete"
    /\ IF a = "ok" /\ left[t] = 0 THEN EraseNow(t) ELSE Respond(t)

\* Every owner lost the blob, so the bytes go whatever remainingOwners says.
ModerateHears(t, a) ==
    /\ job[t] = "moderate"
    /\ IF a = "ok" THEN EraseNow(t) ELSE Respond(t)

-----------------------------------------------------------------------------
(* POST /internal/purge/:npub *)

Page(u) == {<<h, replicas[<<u, h>>]>> : h \in Blobs(u)}

\* The notifier asks for a purge when it finds an account CLOSED.
PurgeStarts(t, u) ==
    /\ u \in closed
    /\ Receive(t, "purge", u, NULL)
    /\ Page(u) # {}
    /\ batch' = Set(batch, t, Page(u))
    /\ Goto(t, "next")
    /\ UNCHANGED <<ledgerVars, stored, replicas, closed, unaudited, reps, cand, fresh, owed>>
    /\ NoFault

\* "Always read the first page": until it is empty.
PurgeList(t) ==
    /\ rpc[t] = "list"
    /\ IF Page(by[t]) = {} THEN Respond(t)
       ELSE /\ batch' = Set(batch, t, Page(by[t]))
            /\ Goto(t, "next")
            /\ UNCHANGED <<job, by, on, reps, cand, fresh, owed>>
    /\ UNCHANGED <<ledgerVars, stored, replicas, closed, unaudited>>
    /\ NoFault

PurgeNext(t) ==
    /\ rpc[t] = "next"
    /\ \E b \in batch[t] :
         /\ on' = Set(on, t, b[1])
         /\ reps' = Set(reps, t, b[2])
         /\ batch' = Set(batch, t, batch[t] \ {b})
    /\ Goto(t, "remove")
    /\ UNCHANGED <<ledgerVars, stored, replicas, closed, unaudited, job, by, cand, fresh, owed>>
    /\ NoFault

\* The next blob of the page, or the first page again.
PurgeOn(t) ==
    /\ Goto(t, IF batch[t] = {} THEN "list" ELSE "next")
    /\ on' = Set(on, t, NULL)
    /\ reps' = Set(reps, t, {})
    /\ cand' = Set(cand, t, {})
    /\ UNCHANGED <<job, by, fresh, batch, owed>>

\* Mutation: a failed deleteBlob is tried again with the next page.
PurgeHearsRetries(t, a) ==
    /\ job[t] = "purge"
    /\ IF a = "ok" /\ left[t] = 0 THEN EraseNow(t) ELSE PurgeOn(t)

\* A failed deleteBlob, also for a row that is already gone, ends the purge.
PurgeHears(t, a) ==
    /\ job[t] = "purge"
    /\ IF a # "ok" THEN Respond(t)
       ELSE IF left[t] = 0 THEN EraseNow(t)
       ELSE PurgeOn(t)

-----------------------------------------------------------------------------
(* Calls *)

\* deleteBlob of servers.ts: one DELETE per replica, failures are ignored.
EraseNext(t, n) ==
    IF cand[t] # {n}
    THEN /\ cand' = Set(cand, t, cand[t] \ {n})
         /\ UNCHANGED <<rpc, job, by, on, reps, fresh, batch, owed>>
    ELSE IF job[t] = "purge" THEN PurgeOn(t)
    ELSE IF job[t] = "moderate"
    THEN /\ cand' = Set(cand, t, {})
         /\ Goto(t, "audit")
         /\ UNCHANGED <<job, by, on, reps, fresh, batch, owed>>
    ELSE Respond(t)

Erase(t) ==
    /\ rpc[t] = "erase"
    /\ \E n \in cand[t] : stored' = stored \ {<<n, on[t]>>} /\ EraseNext(t, n)
    /\ UNCHANGED <<ledgerVars, replicas, closed, unaudited>>
    /\ NoFault

EraseFails(t) ==
    /\ rpc[t] = "erase"
    /\ Fault("delete", on[t])
    /\ \E n \in cand[t] : EraseNext(t, n)
    /\ UNCHANGED <<ledgerVars, stored, replicas, closed, unaudited>>

\* Mutation: only the first owner is recorded.
AuditFirst(t) ==
    /\ rpc[t] = "audit"
    /\ \E u \in owed[t] : unaudited' = unaudited \ {<<u, on[t]>>} /\ Respond(t)
    /\ UNCHANGED <<ledgerVars, stored, replicas, closed>>
    /\ NoFault

\* recordModeration for one owner after another.
Audit(t) ==
    /\ rpc[t] = "audit"
    /\ \E u \in owed[t] :
         /\ unaudited' = unaudited \ {<<u, on[t]>>}
         /\ IF owed[t] = {u} THEN Respond(t)
            ELSE /\ owed' = Set(owed, t, owed[t] \ {u})
                 /\ UNCHANGED <<rpc, job, by, on, reps, cand, fresh, batch>>
    /\ UNCHANGED <<ledgerVars, stored, replicas, closed>>
    /\ NoFault

\* The ledger runs the transaction of this request; a row it creates records
\* the replicas the request passed to createBlob.
RowsWritten(t) ==
    /\ replicas' = [r \in Row |-> IF r \in blob' \ blob THEN reps[t]
                                  ELSE IF r \in blob' THEN replicas[r] ELSE {}]
    /\ unaudited' = IF job[t] = "moderate" THEN unaudited \cup (blob \ blob') ELSE unaudited
    /\ UNCHANGED <<stored, closed, reqVars>>
    /\ NoFault

LedgerStep(t) == Step(t) /\ RowsWritten(t)
LedgerAbort(t) == "abort" \in Faults /\ Abort(t) /\ RowsWritten(t)

Hears(t, a) ==
    /\ rpc[t] = "call"
    /\ Return(t)
    /\ UploadHears(t, a) \/ DeleteHears(t, a) \/ ModerateHears(t, a) \/ PurgeHears(t, a)
    /\ UNCHANGED <<stored, replicas, closed, unaudited>>

Answered(t) == Hears(t, res[t]) /\ NoFault

\* The transaction committed but its answer does not reach the proxy.
AnswerLost(t) == res[t] = "ok" /\ Hears(t, "failed") /\ Fault("answer", on[t])

\* The proxy process dies between two calls of this request, or the call that
\* is due throws (getBlob, listUserBlobs, recordModeration) and it ends there.
Crash(t) ==
    /\ rpc[t] \notin {"idle", "call"}
    /\ Fault("crash", on[t])
    /\ Respond(t)
    /\ UNCHANGED <<ledgerVars, stored, replicas, closed, unaudited>>

-----------------------------------------------------------------------------
Starts(t) ==
    \/ \E u \in Npub, h \in Hash :
         \/ UploadReuse(t, u, h)
         \/ UploadStore(t, u, h)
         \/ DeleteStarts(t, u, h) /\ DeleteLookup(t, h, {})
    \/ \E h \in Hash : ModerateStarts(t, h) /\ DeleteLookup(t, h, Owners(h))
    \/ \E u \in Npub : PurgeStarts(t, u)

\* What the proxy, the nodes and the database do for a request.
Progress(t) ==
    \/ Put(t) \/ Undo(t) \/ Remove(t) \/ PurgeList(t) \/ PurgeNext(t)
    \/ Erase(t) \/ Audit(t) \/ Answered(t) \/ LedgerStep(t)

Disturb(t) ==
    \/ PutFails(t) \/ EraseFails(t) \/ AnswerLost(t) \/ Crash(t) \/ LedgerAbort(t)

\* The history: blind are the hashes whose bytes are given up unseen.
Record(blind) ==
    /\ overlapped' = overlapped \cup Contended'
    /\ raced' = raced \cup Racing' \cup blind

Act(t) == Progress(t) /\ Record({})

StoreNext ==
    \/ \E u \in Npub, q \in Allowance : Purchase(u, q) /\ Record({})
    \/ \E u \in Npub : Close(u) /\ Record({})
    \/ \E t \in Tx : (Starts(t) \/ Disturb(t)) /\ Record({})
    \/ \E t \in Tx : Act(t)
    \/ \E t \in Tx : UndoBlind(t) /\ Record({on[t]})

StoreSpec == StoreInit /\ [][StoreNext]_vars

\* A request in progress is carried on by the event loop; the calls it awaits
\* return, and the locks of the database are granted in turn, hence strong
\* fairness.  Faults are never needed for progress.
LiveStoreSpec == StoreSpec /\ \A t \in Tx : SF_vars(Act(t))

-----------------------------------------------------------------------------
(* Properties *)

\* A blob somebody owns and pays for is on every replica its row names, through
\* overlapping uploads, overlapping deletes, failed calls, lost answers and
\* crashes - as long as no upload of the hash overlapped a request that erases
\* it and no compensation ran on a failed lookup.
OwnedBytesSurvive ==
    \A u \in Npub, h \in Hash : <<u, h>> \in blob /\ h \notin raced =>
        /\ replicas[<<u, h>>] # {}
        /\ replicas[<<u, h>>] \X {h} \subseteq stored

\* Once no request for a hash is running and nobody owns it, no node still
\* holds its bytes, unless requests for it overlapped or a call failed.
NoOrphans ==
    \A h \in Hash :
        /\ Owners(h) = {}
        /\ h \notin overlapped \cup raced \cup faulted
        /\ \A t \in Tx : h \notin Working(t)
        => \A n \in Node : <<n, h>> \notin stored

\* A moderation leaves a trace: once no request for a hash is running, every row
\* that a moderation removed has been recorded with its owner, unless the
\* owners changed under it (an upload raced it) or a call failed.
ModerationAudited ==
    \A h \in Hash :
        /\ h \notin raced \cup faulted
        /\ \A t \in Tx : h \notin Working(t)
        => \A u \in Npub : <<u, h>> \notin unaudited

\* Every upload and delete is answered; a purge ends unless the account is
\* opened again under it.
RequestsAnswered ==
    \A t \in Tx : (rpc[t] # "idle") ~> (rpc[t] = "idle" \/ (job[t] = "purge" /\ by[t] \notin closed))

\* "The bytes are removed from the nodes only when the last owner row goes away"
\* (packages/db/prisma/schema.prisma, lines 42-43): a node never drops the bytes of
\* a blob that has an owner.
BytesGoWithLastOwner ==
    [][\A n \in Node, h \in Hash :
         <<n, h>> \in stored /\ <<n, h>> \notin stored' => Owners(h) = {}]_vars

=============================================================================
