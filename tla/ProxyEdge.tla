----------------------------- MODULE ProxyEdge -----------------------------
(***************************************************************************)
(* The edge of the blossom proxy: the cache of account rows, the gate in   *)
(* front of PUT /upload with its budget of bytes in memory, the pre-flight *)
(* HEAD /upload, GET /storage and the read check of GET /:sha256.  A       *)
(* request takes one step per await; db-api answers in one step.  How      *)
(* bytes and rows are kept behind the gate is module BlobStore.            *)
(***************************************************************************)
EXTENDS Lifecycle

CONSTANTS
    Request,        \* request slots
    TTL,            \* how long a cached row serves, in units of time
    MaxInflight     \* MAX_INFLIGHT_UPLOAD_BYTES

ASSUME EdgeAssumption ==
    /\ TTL \in Nat /\ MaxInflight \in Nat
    /\ IsFiniteSet(Request)
    /\ NULL # "body"    \* a slot without a call has no kind

VARIABLES
    cache,      \* account rows with the time their read began, or NULL
    inflight,   \* inflightUploadBytes
    call,       \* the request in each slot
    always      \* history: has the account's row permitted uploads since the call began?

edgeVars == <<cache, inflight, call, always>>

NoCall == [at |-> "idle", kind |-> NULL, npub |-> NULL, hash |-> NULL,
           seen |-> NULL, from |-> NULL]

EdgeInit ==
    /\ cache = [n \in Npub |-> NULL]
    /\ inflight = 0
    /\ call = [r \in Request |-> NoCall]
    /\ always = [r \in Request |-> FALSE]

\* db.getUser(n), and what the edge reads out of the answer.
GetUser(n) == [plan |-> user[n], used |-> Used(n)]
Permits(s) == CanUpload(s.plan, s.used, now)
Fits(s) == s.plan.bytes = NULL \/ s.used + 1 <= s.plan.bytes

\* A cached row serves while it is younger than the TTL.
CacheHit(n) == cache[n] # NULL /\ now - cache[n].at < TTL

Start(r, c) == call[r].at = "idle" /\ call' = [call EXCEPT ![r] = c]
Goto(r, at) == call' = [call EXCEPT ![r].at = at]
Saw(r, at, s) == call' = [call EXCEPT ![r].at = at, ![r].seen = s]
Done(r) == call' = [call EXCEPT ![r] = NoCall]
Invalidate(n) == cache' = [cache EXCEPT ![n] = NULL]

-----------------------------------------------------------------------------
(* loadAccess and loadAccessForDenialCheck, shared by PUT (before and      *)
(* after the body), HEAD /upload and GET /storage.  What the code does     *)
(* between two awaits is one step.                                         *)

\* A row that permits: GET /storage shows it, the rest check the quota for
\* their length, and the gate its budget of bytes in memory (503).
Verdict(kind, s) ==
    CASE kind = "storage" -> "shown"
      [] kind # "storage" /\ ~Fits(s) -> "overquota"
      [] kind = "head" /\ Fits(s) -> "shown"
      [] kind = "put" /\ Fits(s) -> IF inflight + 1 > MaxInflight THEN "busy" ELSE "receive"
      [] OTHER -> "store"

\* Mutant: the cached row's denial is final.
EnterCached(r, c, s, cached) ==
    LET v == IF Permits(s) THEN Verdict(c.kind, s) ELSE "denied" IN
      /\ call' = [call EXCEPT ![r] = [c EXCEPT !.at = v, !.seen = NULL, !.from = NULL]]
      /\ cache' = cached
      /\ inflight' = IF v = "receive" THEN inflight + 1 ELSE inflight

\* The call c goes on with the row s, the cache being as given; a row that
\* would deny is dropped and read again.
Enter(r, c, s, cached) ==
    LET v == IF Permits(s) THEN Verdict(c.kind, s) ELSE "reread" IN
      /\ call' = [call EXCEPT ![r] = [c EXCEPT !.at = v, !.seen = NULL, !.from = NULL]]
      /\ cache' = IF v = "reread" THEN [cached EXCEPT ![c.npub] = NULL] ELSE cached
      /\ inflight' = IF v = "receive" THEN inflight + 1 ELSE inflight

\* accessCache.get: a hit is used at once, a miss reads db-api.
Lookup(r, c) ==
    IF CacheHit(c.npub) THEN Enter(r, c, cache[c.npub].user, cache)
    ELSE /\ call' = [call EXCEPT ![r] = [c EXCEPT !.at = "read", !.from = now]]
         /\ UNCHANGED <<cache, inflight>>

Submit(r, kind, n, h) ==
    /\ call[r].at = "idle"
    /\ Lookup(r, [NoCall EXCEPT !.kind = kind, !.npub = n, !.hash = h])
    /\ UNCHANGED accountVars

\* db-api reads the row.
ReadRow(r) ==
    /\ call[r].at = "read"
    /\ Saw(r, "arrived", GetUser(call[r].npub))
    /\ UNCHANGED <<accountVars, cache, inflight>>

\* Its answer is cached when it arrives, under the time the lookup began,
\* whatever was invalidated in between.
Arrived(r) ==
    /\ call[r].at = "arrived"
    /\ LET c == call[r] IN
         Enter(r, c, c.seen, [cache EXCEPT ![c.npub] = [user |-> c.seen, at |-> c.from]])
    /\ UNCHANGED accountVars

\* The second read goes past the cache and is final.
Reread(r) ==
    /\ call[r].at = "reread"
    /\ LET s == GetUser(call[r].npub) IN
         IF Permits(s) THEN Enter(r, call[r], s, cache)
         ELSE Goto(r, "denied") /\ UNCHANGED <<cache, inflight>>
    /\ UNCHANGED accountVars

-----------------------------------------------------------------------------
(* The upload behind the gate.                                             *)

\* The body is in; plan and quota are asked again.
Receive(r) ==
    /\ call[r].at = "receive"
    /\ Lookup(r, [call[r] EXCEPT !.kind = "body"])
    /\ UNCHANGED accountVars

\* The bytes are stored and db-api creates the row, under its own quota check;
\* a blob the account already has changes nothing.
CreateRow(r) ==
    /\ call[r].at = "store"
    /\ LET n == call[r].npub
           mine == <<call[r].hash, n>> \in rows IN
         /\ Goto(r, IF mine THEN "answered" ELSE "created")
         /\ IF mine \/ ~Fits(GetUser(n)) THEN UNCHANGED rows
            ELSE rows' = rows \cup {<<call[r].hash, n>>}
    /\ UNCHANGED <<now, user, cache, inflight>>

\* createBlob's answer drops the cached row, for a new row and for 409 alike.
Created(r) ==
    /\ call[r].at = "created"
    /\ Invalidate(call[r].npub)
    /\ Goto(r, "answered")
    /\ UNCHANGED <<accountVars, inflight>>

\* The response ends, or the client goes away while the body is read: "close"
\* and "finish" both release the bytes, once.
Counted(r) == call[r].kind = "body" \/ call[r].at = "receive"

\* Mutant: only a success or a broken connection releases.
EndLeaks(r) ==
    /\ call[r].at \in {"answered", "denied", "overquota", "busy", "shown", "receive"}
    /\ inflight' = IF call[r].at \in {"answered", "receive"} THEN inflight - 1 ELSE inflight
    /\ Done(r)
    /\ UNCHANGED <<accountVars, cache>>

End(r) ==
    /\ call[r].at \in {"answered", "denied", "overquota", "busy", "shown", "receive"}
    /\ inflight' = IF Counted(r) THEN inflight - 1 ELSE inflight
    /\ Done(r)
    /\ UNCHANGED <<accountVars, cache>>

-----------------------------------------------------------------------------
(* The writers that change an account's row, then drop it from the cache.  *)

DeleteRow(r, n, h) ==
    /\ <<h, n>> \in rows
    /\ rows' = rows \ {<<h, n>>}
    /\ Start(r, [NoCall EXCEPT !.at = "wrote", !.kind = "write", !.npub = n])
    /\ UNCHANGED <<now, user, cache, inflight>>

Assign(r, n, bytes) ==
    /\ Purchase(n, bytes)
    /\ Start(r, [NoCall EXCEPT !.at = "wrote", !.kind = "write", !.npub = n])
    /\ UNCHANGED <<cache, inflight>>

Wrote(r) ==
    /\ call[r].at = "wrote"
    /\ Invalidate(call[r].npub)
    /\ Done(r)
    /\ UNCHANGED <<accountVars, inflight>>

-----------------------------------------------------------------------------
(* GET /:sha256: the owners, then each owner's row, never from the cache.  *)

Get(r, h) ==
    /\ Owners(h) # {}
    /\ Start(r, [NoCall EXCEPT !.at = "owners", !.kind = "get", !.hash = h,
                               !.seen = Owners(h)])
    /\ UNCHANGED <<accountVars, cache, inflight>>

Readable(r) ==
    /\ call[r].at = "owners"
    /\ Saw(r, IF \E n \in call[r].seen : CanRead(user[n], Used(n), now)
              THEN "serve" ELSE "refuse", NULL)
    /\ UNCHANGED <<accountVars, cache, inflight>>

Served(r) ==
    /\ call[r].at \in {"serve", "refuse"}
    /\ Done(r)
    /\ UNCHANGED <<accountVars, cache, inflight>>

-----------------------------------------------------------------------------
Proxy(r) ==
    \/ ReadRow(r) \/ Arrived(r) \/ Reread(r) \/ Receive(r) \/ CreateRow(r)
    \/ Created(r) \/ End(r) \/ Wrote(r) \/ Readable(r) \/ Served(r)

Arrive(r) ==
    \/ \E n \in Npub, h \in Hash : Submit(r, "put", n, h) \/ DeleteRow(r, n, h)
    \/ \E n \in Npub, kind \in {"head", "storage"} : Submit(r, kind, n, NULL)
    \/ \E n \in Npub, bytes \in Allowance : Assign(r, n, bytes)
    \/ \E h \in Hash : Get(r, h)

\* Does db-api's row permit the call now?
PermitsCall(r) == call[r].npub # NULL /\ Permits(GetUser(call[r].npub))

EdgeHistory ==
    always' = [r \in Request |-> (call[r].at = "idle" \/ always[r]) /\ PermitsCall(r)']

EdgeNext ==
    /\ \/ \E r \in Request : Proxy(r) \/ Arrive(r)
       \/ Tick /\ UNCHANGED <<cache, inflight, call>>
    /\ EdgeHistory

EdgeSpec == AccountInit /\ EdgeInit /\ [][EdgeNext]_<<accountVars, edgeVars>>

-----------------------------------------------------------------------------
(* Properties.                                                             *)

\* The gate's counter is exactly the bytes of the uploads past it that have
\* not ended, and stays within the limit, however requests overlap or break
\* off (uploadGate's release).
BudgetExact ==
    /\ inflight = Cardinality({r \in Request : Counted(r)})
    /\ inflight <= MaxInflight

\* A request refused for the state of its plan was not entitled all along,
\* whatever the cache holds, so a purchase that is in db-api before it begins
\* is honoured (loadAccessForDenialCheck).
DecidedInTime ==
    \A r \in Request : call[r].at = "denied" => ~always[r]
=============================================================================
