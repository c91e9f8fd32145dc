---------------------------- MODULE Entitlement -----------------------------
(***************************************************************************)
(* POST /users/:npub/entitlement of db-api (src/packages/db/src/routes/     *)
(* users.ts) and computeEntitlement (entitlement.ts): how a purchase or an  *)
(* admin's grant becomes plan days and an allowance.  The handler is one    *)
(* PostgreSQL transaction at READ COMMITTED followed, on a unique-key       *)
(* violation, by two lookups outside of it; the model has a step per        *)
(* statement.  Times are in days.                                           *)
(*                                                                         *)
(* The upsert has an empty update part, which Prisma runs as a SELECT and,  *)
(* when that finds nothing, an INSERT: it reads the row without locking it, *)
(* and an INSERT that meets an uncommitted row with the same key waits.     *)
(***************************************************************************)
EXTENDS Integers, FiniteSets

CONSTANTS Npub,     \* accounts
          Payment,  \* payment hashes
          Request,  \* the request bodies that are sent
          Tx,       \* connections, each serving one request at a time
          NoTx,     \* nobody holds the key
          NULL,     \* absent
          MaxNow    \* the clock stops here

Plan == [expires : Nat, bytes : Nat]

MaxDurationDays == 36500

\* A body that parseEntitlementRequest lets through.
Body == [days : 1 .. MaxDurationDays, bytes : Nat \ {0}, source : {"payment", "admin"},
         mode : {"extend", "upgrade", NULL}, force : BOOLEAN,
         hash : Payment \cup {NULL}, override : Nat \cup {NULL}]
Valid(r) ==
    /\ r \in Body
    /\ r.force => r.source = "admin"
    /\ r.source = "payment" => r.hash # NULL
    /\ r.override # NULL => r.source = "admin"

ASSUME EntitlementAssumption ==
    /\ IsFiniteSet(Request)
    /\ \A r \in Request : Valid(r)
    /\ MaxNow \in Nat
    /\ NULL \notin Nat \cup Npub \cup Payment \cup Plan
    /\ NoTx \notin Tx

VARIABLES
    now,         \* the clock of db-api
    plan,        \* plan_expires_at and storage_bytes of the "user" rows
    grants,      \* the "entitlement_grant" rows: who a payment was granted to
    inserting,   \* which transaction has inserted a user row, uncommitted
    claiming,    \* which transaction has inserted a grant row, uncommitted
    pc, who, req,  \* what a request does next, its account and its body
    cur,         \* the user row as the upsert returned it
    res,         \* the answer of a finished request
    sent,        \* admin bodies without a payment hash that have been sent
    applied,     \* history: the (account, request) pairs that were committed
    due,         \* history: the plans if grants were applied one at a time
    overlapped   \* history: accounts two requests of which overlapped

dbVars == <<now, plan, grants>>
lockVars == <<inserting, claiming>>
txVars == <<pc, who, req, cur, res>>
history == <<applied, due>>
vars == <<dbVars, lockVars, txVars, sent, history, overlapped>>

\* A row without a plan: nothing computeEntitlement does tells it from one that
\* expired at the epoch.
Blank == [expires |-> 0, bytes |-> 0]

Init ==
    /\ now = 1
    /\ plan = [u \in Npub |-> NULL]
    /\ grants = [p \in Payment |-> NULL]
    /\ inserting = [u \in Npub |-> NoTx]
    /\ claiming = [p \in Payment |-> NoTx]
    /\ pc = [t \in Tx |-> "idle"]
    /\ who = [t \in Tx |-> NULL]
    /\ req = [t \in Tx |-> NULL]
    /\ cur = [t \in Tx |-> Blank]
    /\ res = [t \in Tx |-> "none"]
    /\ sent = {}
    /\ applied = {}
    /\ due = [u \in Npub |-> Blank]
    /\ overlapped = {}

-----------------------------------------------------------------------------
(* computeEntitlement *)

Live(p) == p.expires > now

ModeRequired(p, r) == Live(p) /\ ~r.force /\ r.mode = NULL

Later(a, b) == IF a > b THEN a ELSE b

\* Mutation: a renewal sets the allowance of the plan that was bought.
EffectSetsBytes(p, r) ==
    [expires |-> IF r.override # NULL THEN r.override ELSE Later(now, p.expires) + r.days,
     bytes |-> r.bytes]

\* The renewal of a live plan keeps its allowance; everything else sets it.
Effect(p, r) ==
    [expires |-> IF r.override # NULL THEN r.override ELSE Later(now, p.expires) + r.days,
     bytes |-> IF r.mode # "upgrade" /\ Live(p) /\ ~r.force THEN p.bytes ELSE r.bytes]

-----------------------------------------------------------------------------
Unlocked(f, t) == [x \in DOMAIN f |-> IF f[x] = t THEN NoTx ELSE f[x]]

\* The transaction is over and its uncommitted keys are free.
Release(t) ==
    /\ inserting' = Unlocked(inserting, t)
    /\ claiming' = Unlocked(claiming, t)

Goto(t, label) == pc' = [pc EXCEPT ![t] = label]

Answer(t, a) ==
    /\ Goto(t, "done")
    /\ res' = [res EXCEPT ![t] = a]

\* A request passes parseEntitlementRequest.  A payment may be pushed any number
\* of times (a retry after a lost response).  A body without a hash stands for
\* one request: an admin who wants the same again sends another one.
Begin(t, u, r) ==
    /\ pc[t] = "idle"
    /\ r \notin sent
    /\ sent' = IF r.hash = NULL THEN sent \cup {r} ELSE sent
    /\ Goto(t, "upsert")
    /\ who' = [who EXCEPT ![t] = u]
    /\ req' = [req EXCEPT ![t] = r]
    /\ overlapped' = IF \E s \in Tx : pc[s] \notin {"idle", "done"} /\ who[s] = u
                     THEN overlapped \cup {u} ELSE overlapped
    /\ UNCHANGED <<dbVars, lockVars, cur, res, history>>

\* Mutation: what the upsert returned is not used.
UpsertUnread(t) ==
    /\ pc[t] = "upsert"
    /\ Goto(t, IF plan[who[t]] = NULL THEN "insert" ELSE "claim")
    /\ UNCHANGED <<dbVars, lockVars, who, req, cur, res, sent, history, overlapped>>

\* user.upsert, first half: the row is read as it is committed.
Upsert(t) ==
    /\ pc[t] = "upsert"
    /\ IF plan[who[t]] = NULL
       THEN Goto(t, "insert") /\ UNCHANGED cur
       ELSE Goto(t, "claim") /\ cur' = [cur EXCEPT ![t] = plan[who[t]]]
    /\ UNCHANGED <<dbVars, lockVars, who, req, res, sent, history, overlapped>>

\* Second half: the row that was not found is created.
Insert(t) ==
    /\ pc[t] = "insert"
    /\ inserting[who[t]] = NoTx
    /\ plan[who[t]] = NULL
    /\ inserting' = [inserting EXCEPT ![who[t]] = t]
    /\ cur' = [cur EXCEPT ![t] = Blank]
    /\ Goto(t, "claim")
    /\ UNCHANGED <<dbVars, claiming, who, req, res, sent, history, overlapped>>

\* Mutation: the grant row is upserted as well.
ClaimAgain(t) ==
    /\ pc[t] = "claim"
    /\ LET p == req[t].hash IN
         IF p = NULL THEN UNCHANGED claiming
         ELSE claiming[p] = NoTx /\ claiming' = [claiming EXCEPT ![p] = t]
    /\ Goto(t, "apply")
    /\ UNCHANGED <<dbVars, inserting, who, req, cur, res, sent, history, overlapped>>

\* entitlementGrant.create, when there is a hash to claim.
Claim(t) ==
    /\ pc[t] = "claim"
    /\ LET p == req[t].hash IN
         IF p = NULL THEN UNCHANGED claiming
         ELSE /\ claiming[p] = NoTx
              /\ grants[p] = NULL
              /\ claiming' = [claiming EXCEPT ![p] = t]
    /\ Goto(t, "apply")
    /\ UNCHANGED <<dbVars, inserting, who, req, cur, res, sent, history, overlapped>>

\* P2002: the key of the user row or of the grant row exists by now.  With a
\* payment hash the handler goes on to report, otherwise it answers 500.
Duplicate(t) ==
    /\ \/ pc[t] = "insert" /\ inserting[who[t]] = NoTx /\ plan[who[t]] # NULL
       \/ pc[t] = "claim" /\ req[t].hash # NULL
            /\ claiming[req[t].hash] = NoTx /\ grants[req[t].hash] # NULL
    /\ Release(t)
    /\ IF req[t].hash # NULL THEN Goto(t, "lookup") /\ UNCHANGED res ELSE Answer(t, "failed")
    /\ UNCHANGED <<dbVars, who, req, cur, sent, history, overlapped>>

\* computeEntitlement refuses: everything is rolled back.
Refuse(t) ==
    /\ pc[t] = "apply"
    /\ ModeRequired(cur[t], req[t])
    /\ Release(t)
    /\ Answer(t, "mode_required")
    /\ UNCHANGED <<dbVars, who, req, cur, sent, history, overlapped>>

\* Mutation: the grant row is not part of the transaction.
ApplyNoGrant(t) ==
    /\ pc[t] = "apply"
    /\ ~ModeRequired(cur[t], req[t])
    /\ plan' = [plan EXCEPT ![who[t]] = Effect(cur[t], req[t])]
    /\ Release(t)
    /\ Answer(t, "ok")
    /\ applied' = applied \cup {<<who[t], req[t]>>}
    /\ due' = [due EXCEPT ![who[t]] = Effect(@, req[t])]
    /\ UNCHANGED <<now, grants, who, req, cur, sent, overlapped>>

\* computeEntitlement, user.update and the commit.
Apply(t) ==
    /\ pc[t] = "apply"
    /\ ~ModeRequired(cur[t], req[t])
    /\ plan' = [plan EXCEPT ![who[t]] = Effect(cur[t], req[t])]
    /\ grants' = IF req[t].hash = NULL THEN grants
                 ELSE [grants EXCEPT ![req[t].hash] = who[t]]
    /\ Release(t)
    /\ Answer(t, "ok")
    /\ applied' = applied \cup {<<who[t], req[t]>>}
    /\ due' = [due EXCEPT ![who[t]] = Effect(@, req[t])]
    /\ UNCHANGED <<now, who, req, cur, sent, overlapped>>

\* The two lookups after a P2002.
Lookup(t) ==
    /\ pc[t] = "lookup"
    /\ IF grants[req[t].hash] \notin {NULL, who[t]}
       THEN Answer(t, "used_by_other")
       ELSE Goto(t, "report") /\ UNCHANGED res
    /\ UNCHANGED <<dbVars, lockVars, who, req, cur, sent, history, overlapped>>

Report(t) ==
    /\ pc[t] = "report"
    /\ Answer(t, IF plan[who[t]] # NULL THEN "ok" ELSE "failed")
    /\ UNCHANGED <<dbVars, lockVars, who, req, cur, sent, history, overlapped>>

\* The connection or the process dies before the commit.
Abort(t) ==
    /\ pc[t] \in {"upsert", "insert", "claim", "apply"}
    /\ Release(t)
    /\ Answer(t, "failed")
    /\ UNCHANGED <<dbVars, who, req, cur, sent, history, overlapped>>

\* The caller has the answer, or has lost it.
Return(t) ==
    /\ pc[t] = "done"
    /\ Goto(t, "idle")
    /\ who' = [who EXCEPT ![t] = NULL]
    /\ req' = [req EXCEPT ![t] = NULL]
    /\ cur' = [cur EXCEPT ![t] = Blank]
    /\ res' = [res EXCEPT ![t] = "none"]
    /\ UNCHANGED <<dbVars, lockVars, sent, history, overlapped>>

Tick ==
    /\ now < MaxNow
    /\ now' = now + 1
    /\ UNCHANGED <<plan, grants, lockVars, txVars, sent, history, overlapped>>

Step(t) ==
    \/ Upsert(t) \/ Insert(t) \/ Claim(t) \/ Duplicate(t) \/ Refuse(t) \/ Apply(t)
    \/ Lookup(t) \/ Report(t)

Next ==
    \/ Tick
    \/ \E t \in Tx, u \in Npub, r \in Request : Begin(t, u, r)
    \/ \E t \in Tx : Step(t) \/ Abort(t) \/ Return(t)

Spec == Init /\ [][Next]_vars

-----------------------------------------------------------------------------
(* Properties *)

\* "A hash that has already been applied is acknowledged without granting
\* again" (entitlement.ts): however often and by whomever a payment hash is
\* pushed, concurrently or after a lost answer, it is granted at most once, to
\* the account the grant row names; and the answer 200 means that it has been
\* granted to the account, also when it comes from the report after a
\* duplicate key.
Acknowledged(t) == pc[t] = "done" /\ res[t] = "ok" /\ req[t].hash # NULL
GrantedOnce ==
    /\ \A a, b \in applied : a[2].hash # NULL =>
         /\ grants[a[2].hash] = a[1]
         /\ a[2].hash = b[2].hash => a = b
    /\ \A t \in Tx : who[t] \notin overlapped /\ Acknowledged(t)
         => grants[req[t].hash] = who[t]

\* The days an account has been granted, one element per day.
Days(S) == UNION {{r} \X (1 .. r.days) : r \in S}
Granted(u) == {r \in Request : <<u, r>> \in applied}
Overridden(u) == \E r \in Granted(u) : r.override # NULL

\* Retries and races never create plan time: what is left of a plan is at most
\* the days of the distinct grants that were applied to the account, unless an
\* admin set the expiry by hand.
NoFreeDays ==
    \A u \in Npub : plan[u] # NULL /\ ~Overridden(u) =>
        plan[u].expires - now <= Cardinality(Days(Granted(u)))

\* Requests for an account that do not overlap add up: its plan is what applying
\* the committed grants one at a time, in the order of their commits, gives.
Serial ==
    \A u \in Npub \ overlapped : plan[u] # NULL => plan[u] = due[u]

\* "extending a live plan without knowing the ranks could silently downgrade the
\* allowance, so that combination is rejected" (entitlement.ts): the allowance
\* of a live plan changes only by an upgrade or an admin's force.
NoSilentDowngrade ==
    [][\A t \in Tx : Apply(t) /\ who[t] \notin overlapped =>
         LET u == who[t] IN
         plan[u] # NULL /\ Live(plan[u]) /\ plan'[u].bytes # plan[u].bytes =>
             req[t].mode = "upgrade" \/ req[t].force]_vars

\* "Atomic entitlement assign/extend/upgrade" (users.ts, line 71): no grant is
\* lost to another that is applied at the same time.
NoLostGrant == \A u \in Npub : plan[u] # NULL => plan[u].expires >= due[u].expires

=============================================================================
