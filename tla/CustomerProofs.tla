---------------------------- MODULE CustomerProofs --------------------------
(***************************************************************************)
(* Entitlements for every set of accounts, payments, request bodies and    *)
(* connections.  The argument is about what a request still knows when it  *)
(* commits: a payment hash it has claimed nobody else has been granted, a  *)
(* body without a hash nobody else is sending, and as long as no other     *)
(* request for the account was under way, the row its upsert returned is   *)
(* the row that is stored.                                                 *)
(*                                                                         *)
(* And the landing page's upload and mirror forms for every number of      *)
(* rows, of runs and of blobs to an event: no row is worked on by two      *)
(* runs.                                                                   *)
(***************************************************************************)
EXTENDS Entitlement, UploadQueue, FiniteSetTheorems, TLAPS, WellFoundedInduction

\* Leaves that name no prover are for Zenon.
USE Zenon

Label == {"idle", "upsert", "insert", "claim", "apply", "lookup", "report", "done"}
InTx == {"upsert", "insert", "claim", "apply"}
Outcome == {"none", "ok", "failed", "mode_required", "used_by_other"}

TypeOK ==
    /\ now \in Nat
    /\ plan \in [Npub -> Plan \cup {NULL}]
    /\ grants \in [Payment -> Npub \cup {NULL}]
    /\ inserting \in [Npub -> Tx \cup {NoTx}]
    /\ claiming \in [Payment -> Tx \cup {NoTx}]
    /\ pc \in [Tx -> Label]
    /\ who \in [Tx -> Npub \cup {NULL}]
    /\ req \in [Tx -> Request \cup {NULL}]
    /\ cur \in [Tx -> Plan]
    /\ res \in [Tx -> Outcome]
    /\ sent \in SUBSET Request
    /\ applied \in SUBSET (Npub \X Request)
    /\ due \in [Npub -> Plan]
    /\ overlapped \in SUBSET Npub

InProgress(t) == pc[t] \notin {"idle", "done"}

\* A request in progress has an account and a body, and the body of a report
\* names a payment.
RequestsKnown ==
    \A t \in Tx : pc[t] # "idle" =>
        /\ who[t] \in Npub
        /\ req[t] \in Request
        /\ pc[t] \in {"lookup", "report"} => req[t].hash # NULL

\* A hash is claimed by the one transaction that is about to apply it, and only
\* while nobody has been granted it.
ClaimsHeld ==
    /\ \A p \in Payment : claiming[p] # NoTx =>
         /\ grants[p] = NULL
         /\ pc[claiming[p]] = "apply"
         /\ req[claiming[p]].hash = p
    /\ \A t \in Tx : pc[t] = "apply" /\ req[t].hash # NULL => claiming[req[t].hash] = t

\* Every grant that was committed has its row, and no hash was granted twice.
GrantRows ==
    \A a, b \in applied : a[2].hash # NULL =>
        /\ grants[a[2].hash] = a[1]
        /\ a[2].hash = b[2].hash => a = b

\* A body without a hash is one request: while it is on its way nobody else
\* sends it and it has not been applied.
BodiesOnce ==
    \A t \in Tx : pc[t] \in InTx /\ req[t].hash = NULL =>
        /\ req[t] \in sent
        /\ \A u \in Npub : <<u, req[t]>> \notin applied
        /\ \A s \in Tx : s # t /\ pc[s] \in InTx => req[s] # req[t]

AppliedSent ==
    \A a \in applied : a[2].hash = NULL => a[2] \in sent

\* Requests for an account whose requests never overlapped: there is one at a
\* time, and what it has read is what is stored.
Alone ==
    /\ \A s, t \in Tx : s # t /\ InProgress(s) /\ InProgress(t) /\ who[s] = who[t]
         => who[t] \in overlapped
    /\ \A u \in Npub \ overlapped :
         due[u] = IF plan[u] = NULL THEN Blank ELSE plan[u]
    /\ \A t \in Tx : who[t] \in Npub \ overlapped =>
         /\ pc[t] = "insert" => plan[who[t]] = NULL
         /\ pc[t] \in {"claim", "apply"} => cur[t] = due[who[t]]
         /\ pc[t] = "lookup" => grants[req[t].hash] # NULL
         /\ pc[t] = "report" \/ Acknowledged(t) => grants[req[t].hash] = who[t]

SafeInv ==
    TypeOK /\ RequestsKnown /\ ClaimsHeld /\ GrantRows /\ BodiesOnce /\ AppliedSent /\ Alone

\* The plan stored, and the plan a request has read, hold no more than the days
\* that were granted.
Bounded(u, p) == ~Overridden(u) => p.expires - now <= Cardinality(Days(Granted(u)))
DaysInv ==
    /\ \A u \in Npub : plan[u] # NULL => Bounded(u, plan[u])
    /\ \A t \in Tx : pc[t] \in {"claim", "apply"} => Bounded(who[t], cur[t])

-----------------------------------------------------------------------------
\* What the parser guarantees of a body, as far as the proofs use it.
LEMMA BodyFacts ==
    ASSUME NEW r \in Request
    PROVE  /\ r.hash \in Payment \cup {NULL}
           /\ r.days \in Nat
           /\ r.bytes \in Nat
           /\ r.override \in Nat \cup {NULL}
<1>1. r \in Body
  BY EntitlementAssumption DEF Valid
<1> QED  BY <1>1, SMT DEF Body

LEMMA NullFacts ==
    NULL \notin Nat /\ NULL \notin Npub /\ NULL \notin Payment /\ NULL \notin Plan /\ NoTx \notin Tx
BY EntitlementAssumption

LEMMA BlankIsPlan == Blank \in Plan
BY DEF Blank, Plan

LEMMA EffectIsPlan ==
    ASSUME now \in Nat, NEW p \in Plan, NEW r \in Request
    PROVE  Effect(p, r) \in Plan
BY BodyFacts, SMT DEF Effect, Later, Plan, Live

\* A transaction that ends gives back the keys it holds, and no others.
LEMMA ReleaseFrees ==
    ASSUME TypeOK, NEW t \in Tx, Release(t)
    PROVE  /\ inserting' \in [Npub -> Tx \cup {NoTx}]
           /\ claiming' \in [Payment -> Tx \cup {NoTx}]
           /\ \A p \in Payment : claiming'[p] = IF claiming[p] = t THEN NoTx ELSE claiming[p]
BY DEF TypeOK, Release, Unlocked

LEMMA UpsertKeeps ==
    ASSUME SafeInv, NEW t \in Tx, Upsert(t)
    PROVE  SafeInv'
<1> USE NullFacts, BodyFacts, BlankIsPlan DEF SafeInv, Upsert, Goto, dbVars, lockVars, history
<1>1. TypeOK'
  <2>1. CASE plan[who[t]] = NULL
    BY <2>1 DEF TypeOK, Label
  <2>2. CASE plan[who[t]] # NULL
    <3>1. who[t] \in Npub
      BY DEF RequestsKnown
    <3>2. plan[who[t]] \in Plan
      BY <2>2, <3>1 DEF TypeOK
    <3> QED  BY <2>2, <3>2 DEF TypeOK, Label
  <2> QED  BY <2>1, <2>2
<1>2. RequestsKnown'
  BY SMT DEF TypeOK, RequestsKnown
<1>3. ClaimsHeld'
  BY SMT DEF TypeOK, RequestsKnown, ClaimsHeld
<1>4. GrantRows'
  BY DEF TypeOK, GrantRows
<1>5. BodiesOnce'
  BY SMT DEF TypeOK, RequestsKnown, BodiesOnce, InTx
<1>6. AppliedSent'
  BY DEF TypeOK, AppliedSent
<1>7. Alone'
  BY SMT DEF TypeOK, RequestsKnown, Alone, InProgress, Acknowledged
<1> QED  BY <1>1, <1>2, <1>3, <1>4, <1>5, <1>6, <1>7

LEMMA InsertKeeps ==
    ASSUME SafeInv, NEW t \in Tx, Insert(t)
    PROVE  SafeInv'
<1> USE NullFacts, BodyFacts, BlankIsPlan DEF SafeInv, Insert, Goto, dbVars, history
<1>1. TypeOK'
  BY DEF TypeOK, Label, Outcome
<1>2. RequestsKnown'
  BY DEF TypeOK, RequestsKnown
<1>3. ClaimsHeld'
  BY SMT DEF TypeOK, RequestsKnown, ClaimsHeld
<1>4. GrantRows'
  BY DEF TypeOK, GrantRows
<1>5. BodiesOnce'
  BY SMT DEF TypeOK, RequestsKnown, BodiesOnce, InTx
<1>6. AppliedSent'
  BY DEF TypeOK, AppliedSent
<1>7. Alone'
  BY SMT DEF TypeOK, RequestsKnown, Alone, InProgress, Acknowledged
<1> QED  BY <1>1, <1>2, <1>3, <1>4, <1>5, <1>6, <1>7

LEMMA ClaimKeeps ==
    ASSUME SafeInv, NEW t \in Tx, Claim(t)
    PROVE  SafeInv'
<1> USE NullFacts, BodyFacts, BlankIsPlan DEF SafeInv, Claim, Goto, dbVars, history
<1>1. TypeOK'
  BY SMT DEF TypeOK, Label, Outcome
<1>2. RequestsKnown'
  BY DEF TypeOK, RequestsKnown
<1>3. ClaimsHeld'
  BY SMT DEF TypeOK, RequestsKnown, ClaimsHeld
<1>4. GrantRows'
  BY DEF TypeOK, GrantRows
<1>5. BodiesOnce'
  BY SMT DEF TypeOK, RequestsKnown, BodiesOnce, InTx
<1>6. AppliedSent'
  BY DEF TypeOK, AppliedSent
<1>7. Alone'
  BY SMT DEF TypeOK, RequestsKnown, Alone, InProgress, Acknowledged
<1> QED  BY <1>1, <1>2, <1>3, <1>4, <1>5, <1>6, <1>7

LEMMA DuplicateKeeps ==
    ASSUME SafeInv, NEW t \in Tx, Duplicate(t)
    PROVE  SafeInv'
<1> USE NullFacts, BodyFacts, BlankIsPlan DEF SafeInv, Duplicate, Goto, Answer, dbVars, history
<1>0. Release(t)
  BY DEF Duplicate
<1>1. TypeOK'
  BY <1>0, ReleaseFrees, SMT DEF TypeOK, Label, Outcome
<1>2. RequestsKnown'
  BY <1>0, ReleaseFrees, SMT DEF TypeOK, RequestsKnown
<1>3. ClaimsHeld'
  BY <1>0, ReleaseFrees, SMT DEF TypeOK, RequestsKnown, ClaimsHeld
<1>4. GrantRows'
  BY <1>0, ReleaseFrees DEF TypeOK, GrantRows
<1>5. BodiesOnce'
  BY <1>0, ReleaseFrees, SMT DEF TypeOK, RequestsKnown, BodiesOnce, InTx
<1>6. AppliedSent'
  BY <1>0, ReleaseFrees DEF TypeOK, AppliedSent
<1>7. Alone'
  BY <1>0, ReleaseFrees, SMTT(30) DEF TypeOK, RequestsKnown, Alone, InProgress, Acknowledged
<1> QED  BY <1>1, <1>2, <1>3, <1>4, <1>5, <1>6, <1>7

LEMMA RefuseKeeps ==
    ASSUME SafeInv, NEW t \in Tx, Refuse(t)
    PROVE  SafeInv'
<1> USE NullFacts, BodyFacts, BlankIsPlan DEF SafeInv, Refuse, Goto, Answer, dbVars, history
<1>0. Release(t)
  BY DEF Refuse
<1>1. TypeOK'
  BY <1>0, ReleaseFrees DEF TypeOK, Label, Outcome
<1>2. RequestsKnown'
  BY <1>0, ReleaseFrees DEF TypeOK, RequestsKnown
<1>3. ClaimsHeld'
  BY <1>0, ReleaseFrees, SMT DEF TypeOK, RequestsKnown, ClaimsHeld
<1>4. GrantRows'
  BY <1>0, ReleaseFrees DEF TypeOK, GrantRows
<1>5. BodiesOnce'
  BY <1>0, ReleaseFrees, SMT DEF TypeOK, RequestsKnown, BodiesOnce, InTx
<1>6. AppliedSent'
  BY <1>0, ReleaseFrees DEF TypeOK, AppliedSent
<1>7. Alone'
  BY <1>0, ReleaseFrees, SMT DEF TypeOK, RequestsKnown, Alone, InProgress, Acknowledged
<1> QED  BY <1>1, <1>2, <1>3, <1>4, <1>5, <1>6, <1>7

LEMMA ApplyKeeps ==
    ASSUME SafeInv, NEW t \in Tx, Apply(t)
    PROVE  SafeInv'
<1> USE NullFacts, BodyFacts, BlankIsPlan DEF SafeInv
<1>0. Release(t)
  BY DEF Apply
<1> DEFINE u == who[t]
           r == req[t]
           e == Effect(cur[t], r)
<1>1. /\ u \in Npub /\ r \in Request /\ cur[t] \in Plan
      /\ pc' = [pc EXCEPT ![t] = "done"]
      /\ res' = [res EXCEPT ![t] = "ok"]
      /\ plan' = [plan EXCEPT ![u] = e]
      /\ grants' = IF r.hash = NULL THEN grants ELSE [grants EXCEPT ![r.hash] = u]
      /\ applied' = applied \cup {<<u, r>>}
      /\ due' = [due EXCEPT ![u] = Effect(due[u], r)]
      /\ UNCHANGED <<now, who, req, cur, sent, overlapped>>
  BY DEF TypeOK, RequestsKnown, Apply, Answer, Goto
<1>2. pc[t] = "apply"
  BY DEF Apply
<1>3. e \in Plan /\ due[u] \in Plan /\ Effect(due[u], r) \in Plan
  BY <1>1, EffectIsPlan DEF TypeOK
<1>4. r.hash # NULL => r.hash \in Payment /\ claiming[r.hash] = t /\ grants[r.hash] = NULL
  BY <1>1, <1>2, SMTT(30) DEF ClaimsHeld
<1> HIDE DEF u, r, e
<1>5. TypeOK'
  BY <1>0, <1>1, <1>3, <1>4, ReleaseFrees, SMT DEF TypeOK, Label, Outcome
<1>6. RequestsKnown'
  BY <1>1, <1>2 DEF TypeOK, RequestsKnown
<1>7. ClaimsHeld'
  BY <1>0, <1>1, <1>2, <1>4, ReleaseFrees, SMT DEF TypeOK, RequestsKnown, ClaimsHeld, r
<1>8. GrantRows'
  <2>1. ASSUME NEW a \in applied, a[2].hash # NULL
        PROVE  a[2].hash # r.hash /\ grants'[a[2].hash] = a[1] /\ a # <<u, r>>
    <3>1. a[1] \in Npub /\ a[2] \in Request /\ grants[a[2].hash] = a[1]
      BY <2>1 DEF TypeOK, GrantRows
    <3>2. a[2].hash # r.hash
      BY <3>1, <2>1, <1>4
    <3> QED  BY <3>1, <3>2, <2>1, <1>1, SMT DEF TypeOK
  <2>2. r.hash # NULL => grants'[r.hash] = u
    BY <1>1, <1>4 DEF TypeOK
  <2> SUFFICES ASSUME NEW a \in applied', NEW b \in applied', a[2].hash # NULL
               PROVE  /\ grants'[a[2].hash] = a[1]
                      /\ a[2].hash = b[2].hash => a = b
    BY DEF GrantRows
  <2>3. a \in applied \/ a = <<u, r>>
    BY <1>1
  <2>4. b \in applied \/ b = <<u, r>>
    BY <1>1
  <2> QED  BY <2>1, <2>2, <2>3, <2>4, SMT DEF GrantRows
<1>9. BodiesOnce'
  BY <1>1, <1>2 DEF TypeOK, RequestsKnown, BodiesOnce, InTx, r
<1>10. AppliedSent'
  BY <1>1, <1>2, SMT DEF TypeOK, AppliedSent, BodiesOnce, InTx, r
<1>11. Alone'
  <2>1. \A s, x \in Tx : s # x /\ InProgress(s)' /\ InProgress(x)' /\ who'[s] = who'[x]
           => who'[x] \in overlapped'
    BY <1>1, SMT DEF TypeOK, Alone, InProgress
  <2>2. u \notin overlapped => cur[t] = due[u]
    BY <1>1, <1>2 DEF Alone, u
  <2>3. \A v \in Npub \ overlapped' : due'[v] = IF plan'[v] = NULL THEN Blank ELSE plan'[v]
    BY <1>1, <1>3, <2>2, SMT DEF TypeOK, Alone, e
  <2>4. ASSUME NEW s \in Tx, who[s] \in Npub \ overlapped
        PROVE  /\ pc'[s] = "insert" => plan'[who[s]] = NULL
               /\ pc'[s] \in {"claim", "apply"} => cur[s] = due'[who[s]]
               /\ pc'[s] = "lookup" => grants'[req[s].hash] # NULL
               /\ pc'[s] = "report" \/ Acknowledged(s)' => grants'[req[s].hash] = who[s]
    <3>1. CASE s = t
      BY <3>1, <1>1, <1>4 DEF TypeOK, Acknowledged, u, r
    <3>2. CASE s # t
      <4>1. pc'[s] = pc[s] /\ res'[s] = res[s]
        BY <3>2, <1>1 DEF TypeOK
      <4>2. pc[s] \in {"insert", "claim", "apply"} => who[s] # u
        BY <3>2, <2>4, <1>2 DEF Alone, InProgress, u
      <4>3. pc[s] \in {"insert", "claim", "apply"} => plan'[who[s]] = plan[who[s]] /\ due'[who[s]] = due[who[s]]
        BY <4>2, <1>1, <2>4 DEF TypeOK
      <4>4. pc[s] # "idle" /\ req[s].hash # NULL => req[s].hash \in Payment
        BY DEF RequestsKnown
      <4>5. pc[s] # "idle" /\ req[s].hash # NULL /\ grants[req[s].hash] # NULL
               => grants'[req[s].hash] = grants[req[s].hash]
        BY <4>4, <1>1, <1>4 DEF TypeOK
      <4>6. pc[s] = "lookup" => grants'[req[s].hash] # NULL
        BY <4>5, <2>4 DEF RequestsKnown, Alone
      <4>7. pc[s] = "report" \/ Acknowledged(s)' => grants'[req[s].hash] = who[s]
        BY <4>1, <4>5, <2>4, <1>1, SMT DEF RequestsKnown, Alone, Acknowledged
      <4> QED  BY <4>1, <4>3, <4>6, <4>7, <2>4 DEF Alone
    <3> QED  BY <3>1, <3>2
  <2>5. UNCHANGED <<who, overlapped, cur, req>>
    BY <1>1
  <2> QED  BY <2>1, <2>3, <2>4, <2>5 DEF Alone
<1> QED  BY <1>5, <1>6, <1>7, <1>8, <1>9, <1>10, <1>11

LEMMA LookupKeeps ==
    ASSUME SafeInv, NEW t \in Tx, Lookup(t)
    PROVE  SafeInv'
<1> USE NullFacts, BodyFacts, BlankIsPlan DEF SafeInv, Lookup, Goto, Answer, dbVars, lockVars, history
<1>1. TypeOK'
  BY DEF TypeOK, Label, Outcome
<1>2. RequestsKnown'
  BY SMT DEF TypeOK, RequestsKnown
<1>3. ClaimsHeld'
  BY SMT DEF TypeOK, RequestsKnown, ClaimsHeld
<1>4. GrantRows'
  BY DEF TypeOK, GrantRows
<1>5. BodiesOnce'
  BY SMT DEF TypeOK, RequestsKnown, BodiesOnce, InTx
<1>6. AppliedSent'
  BY DEF TypeOK, AppliedSent
<1>7. Alone'
  BY SMT DEF TypeOK, RequestsKnown, Alone, InProgress, Acknowledged
<1> QED  BY <1>1, <1>2, <1>3, <1>4, <1>5, <1>6, <1>7

LEMMA ReportKeeps ==
    ASSUME SafeInv, NEW t \in Tx, Report(t)
    PROVE  SafeInv'
<1> USE NullFacts, BodyFacts, BlankIsPlan DEF SafeInv, Report, Goto, Answer, dbVars, lockVars, history
<1>1. TypeOK'
  BY DEF TypeOK, Label, Outcome
<1>2. RequestsKnown'
  BY DEF TypeOK, RequestsKnown
<1>3. ClaimsHeld'
  BY SMT DEF TypeOK, RequestsKnown, ClaimsHeld
<1>4. GrantRows'
  BY DEF TypeOK, GrantRows
<1>5. BodiesOnce'
  BY SMT DEF TypeOK, RequestsKnown, BodiesOnce, InTx
<1>6. AppliedSent'
  BY DEF TypeOK, AppliedSent
<1>7. Alone'
  BY SMT DEF TypeOK, RequestsKnown, Alone, InProgress, Acknowledged
<1> QED  BY <1>1, <1>2, <1>3, <1>4, <1>5, <1>6, <1>7

LEMMA AbortKeeps ==
    ASSUME SafeInv, NEW t \in Tx, Abort(t)
    PROVE  SafeInv'
<1> USE NullFacts, BodyFacts, BlankIsPlan DEF SafeInv, Abort, Goto, Answer, dbVars, history
<1>0. Release(t)
  BY DEF Abort
<1>1. TypeOK'
  BY <1>0, ReleaseFrees DEF TypeOK, Label, Outcome
<1>2. RequestsKnown'
  BY <1>0, ReleaseFrees DEF TypeOK, RequestsKnown
<1>3. ClaimsHeld'
  BY <1>0, ReleaseFrees, SMT DEF TypeOK, RequestsKnown, ClaimsHeld
<1>4. GrantRows'
  BY <1>0, ReleaseFrees DEF TypeOK, GrantRows
<1>5. BodiesOnce'
  BY <1>0, ReleaseFrees, SMT DEF TypeOK, RequestsKnown, BodiesOnce, InTx
<1>6. AppliedSent'
  BY <1>0, ReleaseFrees DEF TypeOK, AppliedSent
<1>7. Alone'
  BY <1>0, ReleaseFrees, SMT DEF TypeOK, RequestsKnown, Alone, InProgress, Acknowledged
<1> QED  BY <1>1, <1>2, <1>3, <1>4, <1>5, <1>6, <1>7

LEMMA ReturnKeeps ==
    ASSUME SafeInv, NEW t \in Tx, Return(t)
    PROVE  SafeInv'
<1> USE NullFacts, BodyFacts, BlankIsPlan DEF SafeInv, Return, Goto, dbVars, lockVars, history
<1>1. TypeOK'
  BY DEF TypeOK, Label, Outcome
<1>2. RequestsKnown'
  BY DEF TypeOK, RequestsKnown
<1>3. ClaimsHeld'
  BY SMT DEF TypeOK, RequestsKnown, ClaimsHeld
<1>4. GrantRows'
  BY DEF TypeOK, GrantRows
<1>5. BodiesOnce'
  BY SMT DEF TypeOK, RequestsKnown, BodiesOnce, InTx
<1>6. AppliedSent'
  BY DEF TypeOK, AppliedSent
<1>7. Alone'
  BY SMT DEF TypeOK, RequestsKnown, Alone, InProgress, Acknowledged
<1> QED  BY <1>1, <1>2, <1>3, <1>4, <1>5, <1>6, <1>7

LEMMA BeginKeeps ==
    ASSUME SafeInv, NEW t \in Tx, NEW u \in Npub, NEW r \in Request, Begin(t, u, r)
    PROVE  SafeInv'
<1> USE NullFacts, BodyFacts, BlankIsPlan DEF SafeInv, Begin, Goto, dbVars, lockVars, history
<1>1. TypeOK'
  BY DEF TypeOK, Label, Outcome
<1>2. RequestsKnown'
  BY DEF TypeOK, RequestsKnown
<1>3. ClaimsHeld'
  BY SMT DEF TypeOK, RequestsKnown, ClaimsHeld
<1>4. GrantRows'
  BY DEF TypeOK, GrantRows
<1>5. BodiesOnce'
  <2> SUFFICES ASSUME NEW s \in Tx, pc'[s] \in InTx, req'[s].hash = NULL
               PROVE  /\ req'[s] \in sent'
                      /\ \A v \in Npub : <<v, req'[s]>> \notin applied'
                      /\ \A x \in Tx : x # s /\ pc'[x] \in InTx => req'[x] # req'[s]
    BY DEF BodiesOnce
  <2>1. applied' = applied /\ r \notin sent
    BY DEF Begin, history
  <2>2. CASE s = t
    <3>1. req'[s] = r /\ r \in sent'
      BY <2>2 DEF TypeOK, Begin
    <3>2. \A v \in Npub : <<v, r>> \notin applied
      BY <2>1, <3>1 DEF AppliedSent
    <3>3. ASSUME NEW x \in Tx, x # s, pc'[x] \in InTx
          PROVE  req'[x] # r
      <4>1. pc[x] \in InTx /\ req'[x] = req[x]
        BY <2>2, <3>3 DEF TypeOK, Begin, Goto
      <4> QED  BY <4>1, <3>1, <2>1 DEF BodiesOnce
    <3> QED  BY <3>1, <3>2, <3>3, <2>1
  <2>3. CASE s # t
    <3>1. pc[s] \in InTx /\ req'[s] = req[s] /\ sent \subseteq sent'
      BY <2>3 DEF TypeOK, Begin, Goto
    <3>2. req[s] \in sent
      BY <3>1 DEF BodiesOnce
    <3> QED  BY <2>1, <2>3, <3>1, <3>2, SMT DEF TypeOK, BodiesOnce, Begin, Goto
  <2> QED  BY <2>2, <2>3
<1>6. AppliedSent'
  BY DEF TypeOK, AppliedSent
<1>7. Alone'
  BY SMT DEF TypeOK, RequestsKnown, Alone, InProgress, Acknowledged
<1> QED  BY <1>1, <1>2, <1>3, <1>4, <1>5, <1>6, <1>7

LEMMA TickKeeps ==
    ASSUME SafeInv, Tick
    PROVE  SafeInv'
<1> USE DEF SafeInv, Tick, lockVars, txVars, history
<1>1. TypeOK'
  BY SMT DEF TypeOK
<1>2. RequestsKnown' /\ ClaimsHeld'
  BY DEF RequestsKnown, ClaimsHeld
<1>3. GrantRows' /\ BodiesOnce' /\ AppliedSent'
  BY DEF GrantRows, BodiesOnce, AppliedSent
<1>4. Alone'
  BY DEF Alone, InProgress, Acknowledged
<1> QED  BY <1>1, <1>2, <1>3, <1>4

LEMMA InitSafe == Init => SafeInv
BY NullFacts, BlankIsPlan, SMT
   DEF Init, SafeInv, TypeOK, Label, Outcome, RequestsKnown, ClaimsHeld, GrantRows, BodiesOnce, InTx,
       AppliedSent, Alone, InProgress, Acknowledged

LEMMA StepKeepsSafeInv ==
    ASSUME SafeInv, [Next]_vars
    PROVE  SafeInv'
<1>1. CASE Tick
  BY <1>1, TickKeeps
<1>2. ASSUME NEW t \in Tx, NEW u \in Npub, NEW r \in Request, Begin(t, u, r)
      PROVE  SafeInv'
  BY <1>2, BeginKeeps
<1>3. ASSUME NEW t \in Tx, Step(t)
      PROVE  SafeInv'
  BY <1>3, UpsertKeeps, InsertKeeps, ClaimKeeps, DuplicateKeeps, RefuseKeeps, ApplyKeeps,
     LookupKeeps, ReportKeeps DEF Step
<1>4. ASSUME NEW t \in Tx, Abort(t) \/ Return(t)
      PROVE  SafeInv'
  BY <1>4, AbortKeeps, ReturnKeeps
<1>5. CASE UNCHANGED vars
  BY <1>5, SMT DEF vars, dbVars, lockVars, txVars, history, SafeInv, TypeOK, RequestsKnown, ClaimsHeld,
              GrantRows, BodiesOnce, AppliedSent, Alone, InProgress, Acknowledged
<1> QED  BY <1>1, <1>2, <1>3, <1>4, <1>5 DEF Next

LEMMA AlwaysSafe == Spec => []SafeInv
BY InitSafe, StepKeepsSafeInv, PTL DEF Spec

-----------------------------------------------------------------------------
\* users.ts, the P2002 branch: however often a payment hash is pushed, it is
\* granted once, to the account its row names, and 200 means granted.
THEOREM PaymentsGrantedOnce == Spec => []GrantedOnce
<1>1. SafeInv => GrantedOnce
  <2> SUFFICES ASSUME SafeInv
               PROVE  GrantedOnce
    OBVIOUS
  <2>1. \A t \in Tx : Acknowledged(t) => who[t] \in Npub
    BY DEF SafeInv, RequestsKnown, Acknowledged
  <2> QED  BY <2>1 DEF SafeInv, GrantRows, Alone, GrantedOnce
<1> QED  BY <1>1, AlwaysSafe, PTL

\* users.ts, the transaction: grants to an account that do not overlap add up.
THEOREM GrantsAddUp == Spec => []Serial
<1>1. SafeInv => Serial
  BY DEF SafeInv, Alone, Serial
<1> QED  BY <1>1, AlwaysSafe, PTL

\* computeEntitlement never changes the allowance of a live plan unless the
\* request is an upgrade or forced: the plan it looks at is the plan stored.
THEOREM AllowanceKept == Spec => NoSilentDowngrade
<1>1. ASSUME SafeInv, NEW t \in Tx, Apply(t), who[t] \notin overlapped,
             plan[who[t]] # NULL, Live(plan[who[t]]),
             plan'[who[t]].bytes # plan[who[t]].bytes
      PROVE  req[t].mode = "upgrade" \/ req[t].force
  <2>1. who[t] \in Npub /\ pc[t] = "apply"
    BY <1>1 DEF Apply, SafeInv, RequestsKnown
  <2>2. cur[t] = plan[who[t]]
    BY <1>1, <2>1 DEF SafeInv, Alone
  <2>3. plan'[who[t]] = Effect(plan[who[t]], req[t])
    BY <1>1, <2>1, <2>2 DEF Apply, SafeInv, TypeOK
  <2> QED  BY <1>1, <2>3, SMT DEF Effect
<1>2. SafeInv /\ [Next]_vars => [\A t \in Tx : Apply(t) /\ who[t] \notin overlapped =>
         LET u == who[t] IN
         plan[u] # NULL /\ Live(plan[u]) /\ plan'[u].bytes # plan[u].bytes =>
             req[t].mode = "upgrade" \/ req[t].force]_vars
  BY <1>1
<1> QED  BY <1>2, AlwaysSafe, PTL DEF Spec, NoSilentDowngrade

-----------------------------------------------------------------------------
(* Plan time. *)

LEMMA CountUpTo ==
    ASSUME NEW n \in Nat
    PROVE  IsFiniteSet(1 .. n) /\ Cardinality(1 .. n) = n
<1>1. 1 \in Int /\ n \in Int
  BY SMT
<1>2. IsFiniteSet(1 .. n) /\ Cardinality(1 .. n) = IF 1 > n THEN 0 ELSE n - 1 + 1
  BY <1>1, FS_Interval
<1> QED  BY <1>2, SMT

LEMMA DaysFinite ==
    ASSUME NEW S \in SUBSET Request
    PROVE  IsFiniteSet(Days(S)) /\ Cardinality(Days(S)) \in Nat
<1> DEFINE f == [r \in S |-> {r} \X (1 .. r.days)]
           parts == {f[r] : r \in S}
<1>1. IsFiniteSet(S)
  BY EntitlementAssumption, FS_Subset
<1>2. IsFiniteSet(parts)
  <2>1. f \in Surjection(S, parts)
    BY DEF Surjection
  <2> QED  BY <1>1, <2>1, FS_Surjection
<1>3. ASSUME NEW r \in S
      PROVE  IsFiniteSet(f[r])
  <2>1. IsFiniteSet(1 .. r.days)
    BY BodyFacts, CountUpTo
  <2>2. IsFiniteSet({r})
    BY FS_Singleton
  <2>3. IsFiniteSet({r} \X (1 .. r.days))
    BY <2>1, <2>2, FS_Product
  <2> QED  BY <2>3
<1>4. IsFiniteSet(UNION parts)
  BY <1>2, <1>3, FS_UNION
<1>5. Days(S) = UNION parts
  BY DEF Days
<1> QED  BY <1>4, <1>5, FS_CardinalityType

LEMMA DaysMonotone ==
    ASSUME NEW S \in SUBSET Request, NEW T \in SUBSET Request, S \subseteq T
    PROVE  Cardinality(Days(S)) <= Cardinality(Days(T))
<1>1. Days(S) \subseteq Days(T)
  BY DEF Days
<1> QED  BY <1>1, DaysFinite, FS_Subset

\* A grant the account has not had adds exactly its days.
LEMMA DaysGrow ==
    ASSUME NEW S \in SUBSET Request, NEW r \in Request, r \notin S
    PROVE  Cardinality(Days(S \cup {r})) = Cardinality(Days(S)) + r.days
<1> DEFINE D == {r} \X (1 .. r.days)
<1>1. r.days \in Nat
  BY BodyFacts
<1>2. IsFiniteSet({r}) /\ Cardinality({r}) = 1
  BY FS_Singleton
<1>3. IsFiniteSet(1 .. r.days) /\ Cardinality(1 .. r.days) = r.days
  BY <1>1, CountUpTo
<1>4. IsFiniteSet(D) /\ Cardinality(D) = r.days
  <2>1. IsFiniteSet(D) /\ Cardinality(D) = Cardinality({r}) * Cardinality(1 .. r.days)
    BY <1>2, <1>3, FS_Product
  <2> QED  BY <2>1, <1>1, <1>2, <1>3, SMT
<1>5. Days(S \cup {r}) = Days(S) \cup D
  BY DEF Days
<1>6. Days(S) \cap D = {}
  BY SMT DEF Days
<1>7. IsFiniteSet(Days(S)) /\ Cardinality(Days(S)) \in Nat
  BY DaysFinite
<1> HIDE DEF D
<1>8. Cardinality(Days(S) \cup D) = Cardinality(Days(S)) + Cardinality(D) - Cardinality(Days(S) \cap D)
  BY <1>4, <1>7, FS_Union
<1>9. Cardinality({}) = 0
  BY FS_EmptySet
<1>10. Cardinality(Days(S) \cap D) = 0
  BY <1>6, <1>9
<1>11. Cardinality(Days(S \cup {r})) = Cardinality(Days(S)) + Cardinality(D) - Cardinality(Days(S) \cap D)
  BY <1>5, <1>8
<1>12. Cardinality(Days(S \cup {r})) = Cardinality(Days(S)) + r.days - 0
  BY <1>4, <1>10, <1>11
<1> QED  BY <1>1, <1>7, <1>12, SMT

\* Only Tick moves the clock.
LEMMA StandingClock ==
    ASSUME SafeInv, now' = now
    PROVE  now <= now'
<1>1. now \in Nat
  BY DEF SafeInv, TypeOK
<1>2. \A n \in Nat : n <= n
  BY SMT
<1> QED  BY <1>1, <1>2

\* Time passes and grants are added: what was within the days granted stays so.
LEMMA BoundsStay ==
    ASSUME TypeOK, TypeOK', applied \subseteq applied', now <= now',
           NEW u \in Npub, NEW p \in Plan, Bounded(u, p)
    PROVE  Bounded(u, p)'
<1> DEFINE G == Granted(u)
           H == Granted(u)'
<1>1. G \in SUBSET Request /\ H \in SUBSET Request /\ G \subseteq H
  BY DEF Granted
<1>2. Overridden(u) => Overridden(u)'
  BY <1>1 DEF Overridden
<1>3. Days(Granted(u))' = Days(H)
  BY DEF Days
<1> HIDE DEF G, H
<1>4. /\ Cardinality(Days(G)) \in Nat /\ Cardinality(Days(H)) \in Nat
      /\ Cardinality(Days(G)) <= Cardinality(Days(H))
  BY <1>1, DaysFinite, DaysMonotone
<1>5. p.expires \in Nat
  BY DEF Plan
<1>6. ASSUME ~Overridden(u)'
      PROVE  p.expires - now' <= Cardinality(Days(H))
  <2>1. p.expires - now <= Cardinality(Days(G))
    BY <1>2, <1>6 DEF Bounded, G
  <2> QED  BY <2>1, <1>4, <1>5, SMT DEF TypeOK
<1> QED  BY <1>3, <1>6 DEF Bounded

\* A commit adds to the days granted what it adds to the plan: the grant is one
\* the account has not had.
LEMMA ApplyKeepsBounds ==
    ASSUME SafeInv, SafeInv', DaysInv, NEW t \in Tx, Apply(t)
    PROVE  DaysInv'
<1>a. who[t] \in Npub /\ req[t] \in Request /\ cur[t] \in Plan /\ now \in Nat
  BY DEF SafeInv, TypeOK, RequestsKnown, Apply
<1>b. PICK u \in Npub, r \in Request : u = who[t] /\ r = req[t]
  BY <1>a
<1>c. PICK e \in Plan : e = Effect(cur[t], r)
  BY <1>a, EffectIsPlan
<1>1. /\ pc[t] = "apply" /\ cur[t] \in Plan
      /\ plan' = [plan EXCEPT ![u] = e] /\ pc' = [pc EXCEPT ![t] = "done"]
      /\ applied' = applied \cup {<<u, r>>}
      /\ UNCHANGED <<now, who, req, cur>>
  BY <1>a, <1>b, <1>c DEF Apply, Answer, Goto
<1> DEFINE G == Granted(u)
<1>2. <<u, r>> \notin applied
  <2>1. CASE r.hash = NULL
    BY <2>1, <1>b, <1>1 DEF SafeInv, BodiesOnce, InTx
  <2>2. CASE r.hash # NULL
    <3>1. grants[r.hash] = NULL
      BY <2>2, <1>b, <1>1, BodyFacts, NullFacts, SMT DEF SafeInv, ClaimsHeld
    <3>2. ASSUME <<u, r>> \in applied
          PROVE  grants[r.hash] = u
      <4>1. <<u, r>>[1] = u /\ <<u, r>>[2] = r
        OBVIOUS
      <4> QED  BY <3>2, <4>1, <2>2 DEF SafeInv, GrantRows
    <3> QED  BY <3>1, <3>2, <1>1, NullFacts
  <2> QED  BY <2>1, <2>2
<1>3. G \in SUBSET Request /\ r \notin G /\ Granted(u)' = G \cup {r}
  BY <1>1, <1>2 DEF Granted
<1>4. Bounded(u, cur[t])
  BY <1>b, <1>1 DEF DaysInv
<1>5. e.expires = IF r.override # NULL THEN r.override ELSE Later(now, cur[t].expires) + r.days
  BY <1>c DEF Effect
<1> HIDE DEF G
<1>6. Bounded(u, e)'
  <2> SUFFICES ASSUME ~Overridden(u)'
               PROVE  e.expires - now' <= Cardinality(Days(Granted(u)))'
    BY DEF Bounded
  <2>1. r.override = NULL /\ ~Overridden(u)
    BY <1>3, <1>1 DEF Overridden, G
  <2>2. Cardinality(Days(Granted(u)))' = Cardinality(Days(G)) + r.days
    <3>1. Days(Granted(u))' = Days(G \cup {r})
      BY <1>3 DEF Days
    <3> QED  BY <3>1, <1>1, <1>3, DaysGrow
  <2>3. cur[t].expires - now <= Cardinality(Days(G)) /\ Cardinality(Days(G)) \in Nat
    BY <1>3, <1>4, <2>1, DaysFinite DEF Bounded, G
  <2>4. cur[t].expires \in Nat /\ r.days \in Nat /\ now \in Nat
    BY <1>1, BodyFacts DEF Plan, SafeInv, TypeOK
  <2>5. Later(now, cur[t].expires) - now <= Cardinality(Days(G)) /\ Later(now, cur[t].expires) \in Nat
    BY <2>3, <2>4, SMTT(30) DEF Later
  <2> QED  BY <1>1, <1>5, <2>1, <2>2, <2>3, <2>4, <2>5, SMT
<1>7. ASSUME NEW v \in Npub, NEW p \in Plan, Bounded(v, p)
      PROVE  Bounded(v, p)'
  <2>1. now <= now' /\ applied \subseteq applied'
    BY <1>1, StandingClock
  <2> QED  BY <2>1, <1>1, <1>7, BoundsStay DEF SafeInv
<1>8. ASSUME NEW v \in Npub, plan'[v] # NULL
      PROVE  Bounded(v, plan[v])'
  <2>1. CASE v = u
    <3>1. plan'[v] = e
      BY <2>1, <1>1 DEF SafeInv, TypeOK
    <3> QED  BY <3>1, <2>1, <1>6 DEF Bounded
  <2>2. CASE v # u
    <3>1. plan'[v] = plan[v] /\ plan[v] \in Plan
      BY <2>2, <1>1, <1>8 DEF SafeInv, TypeOK
    <3> QED  BY <3>1, <1>7, <1>8 DEF DaysInv, Bounded
  <2> QED  BY <2>1, <2>2
<1>9. ASSUME NEW s \in Tx, pc'[s] \in {"claim", "apply"}
      PROVE  Bounded(who[s], cur[s])'
  <2>1. pc[s] \in {"claim", "apply"} /\ who[s] \in Npub /\ cur[s] \in Plan
    BY <1>1, <1>9 DEF SafeInv, TypeOK, RequestsKnown
  <2> QED  BY <2>1, <1>1, <1>7 DEF DaysInv, Bounded
<1> QED  BY <1>8, <1>9 DEF DaysInv

\* The other steps commit nothing; what a request reads is a stored plan.
LEMMA ReadsKeepBounds ==
    ASSUME SafeInv, SafeInv', DaysInv, UNCHANGED <<applied, plan>>, now <= now',
           \A s \in Tx : pc'[s] \in {"claim", "apply"} => Bounded(who'[s], cur'[s])
    PROVE  DaysInv'
<1>1. ASSUME NEW v \in Npub, NEW p \in Plan, Bounded(v, p)
      PROVE  Bounded(v, p)'
  BY <1>1, BoundsStay DEF SafeInv
<1>2. ASSUME NEW v \in Npub, plan'[v] # NULL
      PROVE  Bounded(v, plan[v])'
  <2>1. plan[v] \in Plan /\ Bounded(v, plan[v]) /\ plan'[v] = plan[v]
    BY <1>2 DEF SafeInv, TypeOK, DaysInv
  <2> QED  BY <2>1, <1>1 DEF Bounded
<1>3. ASSUME NEW s \in Tx, pc'[s] \in {"claim", "apply"}
      PROVE  Bounded(who[s], cur[s])'
  <2>1. PICK w \in Npub, c \in Plan : w = who'[s] /\ c = cur'[s]
    BY <1>3 DEF SafeInv, TypeOK, RequestsKnown
  <2>2. Bounded(w, c)'
    BY <2>1, <1>1, <1>3
  <2> QED  BY <2>1, <2>2 DEF Bounded
<1> QED  BY <1>2, <1>3 DEF DaysInv

LEMMA StepKeepsDaysInv ==
    ASSUME SafeInv, SafeInv', DaysInv, [Next]_vars
    PROVE  DaysInv'
<1> DEFINE Read == \A s \in Tx : pc'[s] \in {"claim", "apply"} => Bounded(who'[s], cur'[s])
           Same == \A s \in Tx : pc'[s] \in {"claim", "apply"} =>
                     pc[s] \in {"claim", "apply"} /\ who'[s] = who[s] /\ cur'[s] = cur[s]
<1>0. Same => Read
  BY DEF DaysInv
<1> HIDE DEF Read, Same
<1> USE DEF dbVars, lockVars, txVars, history
<1>1. CASE Tick
  <2>1. Same /\ UNCHANGED <<applied, plan>> /\ now <= now'
    BY <1>1, SMT DEF Tick, Same, SafeInv, TypeOK
  <2> QED  BY <2>1, <1>0, ReadsKeepBounds DEF Read
<1>2. ASSUME NEW t \in Tx, NEW u \in Npub, NEW r \in Request, Begin(t, u, r)
      PROVE  DaysInv'
  <2>1. Same /\ UNCHANGED <<applied, plan>> /\ now <= now'
    BY <1>2, SMT DEF Begin, Goto, Same, SafeInv, TypeOK
  <2> QED  BY <2>1, <1>0, ReadsKeepBounds DEF Read
<1>3. ASSUME NEW t \in Tx, Upsert(t)
      PROVE  DaysInv'
  <2>1. who[t] \in Npub /\ pc[t] = "upsert"
    BY <1>3 DEF Upsert, SafeInv, RequestsKnown
  <2>2. UNCHANGED <<applied, plan, who>> /\ now <= now'
    BY <1>3, SMT DEF Upsert, SafeInv, TypeOK
  <2>3. CASE plan[who[t]] = NULL
    <3>1. Same
      BY <1>3, <2>3 DEF Upsert, Goto, Same, SafeInv, TypeOK
    <3> QED  BY <2>2, <3>1, <1>0, ReadsKeepBounds DEF Read
  <2>4. CASE plan[who[t]] # NULL
    <3>1. cur' = [cur EXCEPT ![t] = plan[who[t]]] /\ pc' = [pc EXCEPT ![t] = "claim"]
      BY <1>3, <2>4 DEF Upsert, Goto
    <3>2. Bounded(who[t], plan[who[t]])
      BY <2>1, <2>4 DEF DaysInv
    <3>3. Read
      BY <2>2, <3>1, <3>2 DEF Read, DaysInv, SafeInv, TypeOK
    <3> QED  BY <2>2, <3>3, ReadsKeepBounds DEF Read
  <2> QED  BY <2>3, <2>4
<1>4. ASSUME NEW t \in Tx, Insert(t)
      PROVE  DaysInv'
  <2>1. /\ UNCHANGED <<applied, plan, who>> /\ now <= now' /\ who[t] \in Npub
        /\ cur' = [cur EXCEPT ![t] = Blank] /\ pc' = [pc EXCEPT ![t] = "claim"]
    BY <1>4, SMT DEF Insert, Goto, SafeInv, TypeOK, RequestsKnown
  <2>2. Bounded(who[t], Blank)
    <3>1. Granted(who[t]) \in SUBSET Request
      BY DEF Granted
    <3>2. Cardinality(Days(Granted(who[t]))) \in Nat
      BY <3>1, DaysFinite
    <3> QED  BY <3>2, SMT DEF Bounded, Blank, SafeInv, TypeOK
  <2>3. Read
    BY <2>1, <2>2 DEF Read, DaysInv, SafeInv, TypeOK
  <2> QED  BY <2>1, <2>3, ReadsKeepBounds DEF Read
<1>5. ASSUME NEW t \in Tx, Claim(t)
      PROVE  DaysInv'
  <2>1. Same /\ UNCHANGED <<applied, plan>> /\ now <= now'
    <3>1. /\ UNCHANGED <<applied, plan, now, who, cur>>
          /\ pc[t] = "claim" /\ pc' = [pc EXCEPT ![t] = "apply"]
      BY <1>5 DEF Claim, Goto
    <3> QED  BY <3>1, StandingClock DEF Same, SafeInv, TypeOK
  <2> QED  BY <2>1, <1>0, ReadsKeepBounds DEF Read
<1>6. ASSUME NEW t \in Tx, Duplicate(t) \/ Refuse(t) \/ Lookup(t) \/ Report(t) \/ Abort(t) \/ Return(t)
      PROVE  DaysInv'
  <2>1. Same /\ UNCHANGED <<applied, plan>> /\ now <= now'
    <3>1. UNCHANGED <<applied, plan, now>>
      BY <1>6 DEF Duplicate, Refuse, Lookup, Report, Abort, Return
    <3>2. PICK label \in {"lookup", "done", "report", "idle"} : pc' = [pc EXCEPT ![t] = label]
      BY <1>6 DEF Duplicate, Refuse, Lookup, Report, Abort, Return, Answer, Goto
    <3>3. label \notin {"claim", "apply"}
      BY <3>2
    <3>4. \A s \in Tx \ {t} : who'[s] = who[s] /\ cur'[s] = cur[s]
      BY <1>6 DEF Duplicate, Refuse, Lookup, Report, Abort, Return, SafeInv, TypeOK
    <3>5. \A s \in Tx : pc'[s] = IF s = t THEN label ELSE pc[s]
      BY <3>2 DEF SafeInv, TypeOK
    <3>6. Same
      BY <3>3, <3>4, <3>5 DEF Same
    <3> QED  BY <3>1, <3>6, StandingClock
  <2> QED  BY <2>1, <1>0, ReadsKeepBounds DEF Read
<1>7. ASSUME NEW t \in Tx, Apply(t)
      PROVE  DaysInv'
  BY <1>7, ApplyKeepsBounds
<1>8. CASE UNCHANGED vars
  <2>1. Same /\ UNCHANGED <<applied, plan>> /\ now <= now'
    BY <1>8, SMT DEF vars, Same, SafeInv, TypeOK
  <2> QED  BY <2>1, <1>0, ReadsKeepBounds DEF Read
<1> QED  BY <1>1, <1>2, <1>3, <1>4, <1>5, <1>6, <1>7, <1>8 DEF Next, Step

\* computeEntitlement: neither retries nor races ever give an account more time
\* than the grants committed for it.
THEOREM NoDaysFromNothing == Spec => []NoFreeDays
<1>1. Init => DaysInv
  BY SMT DEF Init, DaysInv
<1>2. DaysInv => NoFreeDays
  BY DEF DaysInv, Bounded, NoFreeDays
<1> QED  BY <1>1, <1>2, AlwaysSafe, StepKeepsDaysInv, PTL DEF Spec

-----------------------------------------------------------------------------
(* UploadQueue.  Each run has a row that shows a working status, so that    *)
(* the button is not offered while there is one; and a row shows one only   *)
(* while some run has still to deal with it.                                *)

Place == {"dedup", "preflight", "ready", "put", "wait", "over"}
Ahead == {"dedup", "preflight", "ready", "put", "wait"}
RowStatus == {"new", "gone", "pending"} \cup Working \cup Terminal
Rows == SUBSET QFile
Group == Rows \ {{}}
Table(S) == {<<>>} \cup UNION {[B -> S] : B \in Rows}
Run == [at : {"idle", "hashing", "signing", "checking", "sending"}, todo : Seq(Group),
        group : Rows, cur : QFile \cup {0}, rest : Rows, batch : Rows,
        where : Table(Place), tries : Table(Nat)]

\* A run by the phase it is in.
Fits(run) ==
    /\ run \in Run
    /\ run.at = "idle" => run = NoRun
    /\ run.at = "hashing" => run.cur \in run.group /\ run.rest = {}
    /\ run.at = "signing" => run.batch # {}
    /\ run.at \in {"checking", "sending"} =>
           run.where \in [run.batch -> Place] /\ At(run, Ahead) # {}
    /\ run.at = "sending" => run.tries \in [run.batch -> Nat]

\* The rows of its groups to come, and those it shows a working status for.
StillToDo(run) == UNION {run.todo[i] : i \in DOMAIN run.todo}
Bright(run) ==
    IF run.at = "hashing" THEN {run.cur}
    ELSE IF run.at = "signing" THEN run.batch ELSE At(run, Ahead)
Lit(run, st) == \A f \in Bright(run) : st[f] \in Working
Present(run, st) == \A f \in Claimed(run) : st[f] # "gone"

QueueTypeOK ==
    /\ form \in {"upload", "mirror"} /\ auth \in BOOLEAN
    /\ unread \in BOOLEAN /\ pulled \in BOOLEAN
    /\ status \in [QFile -> RowStatus]
    /\ runs \in [QRun -> Run] /\ \A r \in QRun : Fits(runs[r])
OneRun ==
    pulled = FALSE =>
      /\ \A r, q \in QRun : runs[r] # NoRun /\ runs[q] # NoRun => r = q
      /\ \A r \in QRun : Lit(runs[r], status) /\ Present(runs[r], status)
Tended ==
    unread = FALSE =>
      \A f \in QFile : status[f] \in Working => \E r \in QRun : f \in Claimed(runs[r])
QueueInv == QueueTypeOK /\ OneRun /\ Tended

\* What a phase has just been entered with.
Begins(q, claims) ==
    /\ Fits(q) /\ Claimed(q) = claims
    /\ q.at = "checking" => At(q, Ahead) = q.batch
    /\ q.at = "sending" => At(q, Ahead) = At(q, {"put"})

LEMMA LeastRow ==
    ASSUME NEW S \in Group
    PROVE  \E x \in S : \A y \in S : x <= y
<1> DEFINE R == OpToRel(<, Nat)
<1>1. R = {ss \in Nat \X Nat : ss[1] < ss[2]}
  BY DEF OpToRel
<1>2. IsWellFoundedOn(R, Nat)
  BY NatLessThanWellFounded
<1> HIDE DEF R
<1>3. S \subseteq Nat /\ S # {}
  BY QueueAssumption DEF Group, Rows
<1>4. PICK x \in S : \A y \in S : ~(<<y, x>> \in R)
  BY <1>2, <1>3, WFMin
<1>5. ASSUME NEW y \in S, y < x
      PROVE  FALSE
  <2>1. <<y, x>> \in Nat \X Nat
    BY <1>3
  <2>2. <<y, x>>[1] < <<y, x>>[2]
    BY <1>5
  <2>3. <<y, x>> \in R
    BY <2>1, <2>2, <1>1
  <2> QED  BY <2>3, <1>4
<1>6. \A y \in S : x <= y
  BY <1>3, <1>5, SMT
<1> QED  BY <1>6

LEMMA FirstOfSome ==
    ASSUME NEW S \in Group, NEW n \in Nat \ {0}
    PROVE  FirstOf(S, n) \in Group /\ FirstOf(S, n) \subseteq S
<1>1. S \subseteq Nat /\ S \subseteq QFile
  BY QueueAssumption DEF Group, Rows
<1>2. PICK x \in S : \A y \in S : x <= y
  BY LeastRow
<1>3. \A y \in S : ~(y < x)
  BY <1>1, <1>2, SMT
<1>4. {y \in S : y < x} = {}
  BY <1>3
<1>5. Cardinality({y \in S : y < x}) = 0 /\ 0 < n
  <2>1. Cardinality({}) = 0
    BY FS_EmptySet
  <2>2. 0 < n
    BY SMT
  <2> QED  BY <1>4, <2>1, <2>2
<1>6. x \in FirstOf(S, n)
  BY <1>5 DEF FirstOf
<1>7. FirstOf(S, n) \subseteq S
  BY DEF FirstOf
<1> QED  BY <1>1, <1>6, <1>7 DEF Group, Rows

\* The rows a run has in hand.
Hand(run) ==
    IF run.at = "hashing" THEN run.group
    ELSE IF run.at = "signing" THEN run.batch ELSE At(run, Ahead)

LEMMA ClaimedIs ==
    ASSUME NEW run
    PROVE  Claimed(run) = StillToDo(run) \cup run.rest \cup Hand(run)
<1>1. CASE run.at = "hashing"
  BY <1>1 DEF Claimed, StillToDo, Hand
<1>2. CASE run.at = "signing"
  BY <1>2 DEF Claimed, StillToDo, Hand
<1>3. CASE run.at \notin {"hashing", "signing"}
  BY <1>3 DEF Claimed, StillToDo, Hand, Ahead
<1> QED  BY <1>1, <1>2, <1>3

LEMMA NoRunIs ==
    /\ Fits(NoRun) /\ Claimed(NoRun) = {} /\ Bright(NoRun) = {} /\ NoRun.at = "idle"
    /\ StillToDo(NoRun) = {} /\ Begins(NoRun, {})
<1>1. DOMAIN <<>> = {} /\ <<>> \in Seq(Group)
  BY SMT
<1>2. /\ NoRun.at = "idle" /\ NoRun.todo = <<>> /\ NoRun.rest = {} /\ NoRun.where = <<>>
  BY DEF NoRun
<1>3. NoRun \in Run
  BY <1>1 DEF NoRun, Run, Table, Rows
<1>4. \A P : At(NoRun, P) = {}
  BY <1>1, <1>2 DEF At
<1>5. StillToDo(NoRun) = {}
  BY <1>1, <1>2 DEF StillToDo
<1>6. Claimed(NoRun) = {}
  BY <1>2, <1>4, <1>5, ClaimedIs DEF Hand
<1>7. Bright(NoRun) = {}
  BY <1>2, <1>4 DEF Bright
<1>8. Fits(NoRun)
  BY <1>2, <1>3 DEF Fits
<1> QED  BY <1>2, <1>5, <1>6, <1>7, <1>8 DEF Begins

LEMMA NextGroup ==
    ASSUME NEW s \in Seq(Group), s # <<>>
    PROVE  /\ Head(s) \in Group /\ Tail(s) \in Seq(Group)
           /\ UNION {s[i] : i \in DOMAIN s}
                = Head(s) \cup UNION {Tail(s)[i] : i \in DOMAIN Tail(s)}
<1>1. Head(s) \in Group /\ Tail(s) \in Seq(Group)
  BY SMT
<1>2. \A x : (\E i \in DOMAIN s : x \in s[i])
                => x \in Head(s) \/ \E i \in DOMAIN Tail(s) : x \in Tail(s)[i]
  <2> SUFFICES ASSUME NEW x, NEW i \in DOMAIN s, x \in s[i], x \notin Head(s)
               PROVE  \E j \in DOMAIN Tail(s) : x \in Tail(s)[j]
    OBVIOUS
  <2>1. i - 1 \in DOMAIN Tail(s) /\ Tail(s)[i - 1] = s[i]
    BY SMT
  <2> QED  BY <2>1
<1>3. \A x : x \in Head(s) => \E i \in DOMAIN s : x \in s[i]
  <2>1. 1 \in DOMAIN s /\ Head(s) = s[1]
    BY SMT
  <2> QED  BY <2>1
<1>4. \A x : (\E i \in DOMAIN Tail(s) : x \in Tail(s)[i]) => \E i \in DOMAIN s : x \in s[i]
  <2> SUFFICES ASSUME NEW x, NEW i \in DOMAIN Tail(s), x \in Tail(s)[i]
               PROVE  \E j \in DOMAIN s : x \in s[j]
    OBVIOUS
  <2>1. i + 1 \in DOMAIN s /\ Tail(s)[i] = s[i + 1]
    BY SMT
  <2> QED  BY <2>1
<1> QED  BY <1>1, <1>2, <1>3, <1>4

-----------------------------------------------------------------------------
(* The phases a run enters.                                                *)

\* What a run that was taken apart into its fields has.
LEMMA RunFields ==
    ASSUME NEW run \in Run
    PROVE  /\ run.at \in {"idle", "hashing", "signing", "checking", "sending"}
           /\ run.todo \in Seq(Group) /\ run.group \in Rows /\ run.cur \in QFile \cup {0}
           /\ run.rest \in Rows /\ run.batch \in Rows
           /\ run.where \in Table(Place) /\ run.tries \in Table(Nat)
BY DEF Run

LEMMA CheckingBegins ==
    ASSUME NEW run \in Run, NEW B \in Group
    PROVE  Begins(Checking(run, B), StillToDo(run) \cup run.rest \cup B)
<1> DEFINE w == [f \in B |-> IF f \in optimize THEN "preflight" ELSE "dedup"]
           q == [run EXCEPT !.at = "checking", !.batch = B, !.where = w]
<1>1. Checking(run, B) = q
  BY DEF Checking
<1>2. B \in Rows /\ B # {} /\ w \in [B -> Place]
  BY DEF Group, Place
<1>3. \A f \in B : w[f] \in Ahead
  BY DEF Ahead
<1>4. w \in Table(Place)
  BY <1>2 DEF Table
<1> HIDE DEF w
<1>5. /\ q \in Run /\ q.at = "checking" /\ q.batch = B /\ q.where = w
      /\ q.todo = run.todo /\ q.rest = run.rest
  BY <1>2, <1>4 DEF Run
<1> HIDE DEF q
<1>6. At(q, Ahead) = B
  BY <1>2, <1>3, <1>5 DEF At
<1>7. Fits(q)
  BY <1>2, <1>5, <1>6 DEF Fits
<1>8. Claimed(q) = StillToDo(run) \cup run.rest \cup B
  <2>1. Hand(q) = B
    BY <1>5, <1>6 DEF Hand
  <2>2. StillToDo(q) = StillToDo(run)
    BY <1>5 DEF StillToDo
  <2> QED  BY <1>5, <2>1, <2>2, ClaimedIs
<1> QED  BY <1>1, <1>5, <1>6, <1>7, <1>8 DEF Begins

LEMMA SendingFits ==
    ASSUME NEW run \in Run, run.where \in [run.batch -> Place], At(run, Ahead) # {}
    PROVE  /\ Fits(Sending(run)) /\ Sending(run).at = "sending"
           /\ Claimed(Sending(run)) = StillToDo(run) \cup run.rest \cup At(run, Ahead)
           /\ At(Sending(run), Ahead) = At(run, Ahead)
           /\ \A f \in At(run, Ahead) : \/ Sending(run).where[f] = "put"
                                        \/ Sending(run).where[f] = run.where[f] /\ form # "mirror"
                                        \/ Sending(run).where[f] = run.where[f] /\ run.where[f] # "ready"
<1> DEFINE ready == At(run, {"ready"})
           X == IF form = "mirror" THEN ready
                ELSE IF auth THEN {} ELSE FirstOf(ready, Concurrency)
           w == [f \in run.batch |-> IF f \in X THEN "put" ELSE run.where[f]]
           t == [f \in run.batch |-> 0]
           q == [run EXCEPT !.at = "sending", !.where = w, !.tries = t]
<1>1. Sending(run) = q
  BY DEF Sending
<1>2. X \subseteq ready /\ (form = "mirror" => X = ready)
  BY DEF FirstOf
<1>3. DOMAIN run.where = run.batch
  OBVIOUS
<1>4. \A f \in ready : f \in run.batch /\ run.where[f] = "ready"
  BY <1>3 DEF At
<1> HIDE DEF X
<1>5. w \in [run.batch -> Place] /\ \A f \in run.batch : w[f] = IF f \in X THEN "put" ELSE run.where[f]
  BY DEF Place
<1>6. t \in [run.batch -> Nat]
  <2>1. 0 \in Nat
    BY SMT
  <2> QED  BY <2>1
<1>7. run.batch \in Rows
  BY RunFields
<1>8. w \in Table(Place) /\ t \in Table(Nat)
  BY <1>5, <1>6, <1>7 DEF Table
<1> HIDE DEF w, t
<1>9. /\ q \in Run /\ q.at = "sending" /\ q.batch = run.batch /\ q.where = w /\ q.tries = t
      /\ q.todo = run.todo /\ q.rest = run.rest
  BY <1>8 DEF Run
<1> HIDE DEF q
<1>10. \A f \in run.batch : q.where[f] \in Ahead <=> run.where[f] \in Ahead
  BY <1>2, <1>4, <1>5, <1>9 DEF Ahead
<1>11. At(q, Ahead) = At(run, Ahead)
  <2>1. DOMAIN q.where = run.batch
    BY <1>5, <1>9
  <2> QED  BY <1>3, <1>10, <2>1 DEF At
<1>12. Fits(q)
  BY <1>5, <1>6, <1>9, <1>11 DEF Fits
<1>13. Claimed(q) = StillToDo(run) \cup run.rest \cup At(run, Ahead)
  <2>1. Hand(q) = At(run, Ahead)
    BY <1>9, <1>11 DEF Hand
  <2>2. StillToDo(q) = StillToDo(run)
    BY <1>9 DEF StillToDo
  <2> QED  BY <1>9, <2>1, <2>2, ClaimedIs
<1>14. \A f \in At(run, Ahead) : \/ q.where[f] = "put"
                                 \/ q.where[f] = run.where[f] /\ form # "mirror"
                                 \/ q.where[f] = run.where[f] /\ run.where[f] # "ready"
  <2> SUFFICES ASSUME NEW f \in At(run, Ahead), q.where[f] # "put"
               PROVE  q.where[f] = run.where[f] /\ (form = "mirror" => run.where[f] # "ready")
    OBVIOUS
  <2>1. f \in run.batch
    BY <1>3 DEF At
  <2>2. f \notin X /\ q.where[f] = run.where[f]
    BY <2>1, <1>5, <1>9
  <2>3. run.where[f] = "ready" => f \in ready
    BY <2>1, <1>3 DEF At
  <2> QED  BY <2>2, <2>3, <1>2
<1> QED  BY <1>1, <1>9, <1>11, <1>12, <1>13, <1>14

\* The rows of a batch that has its signature, or needs none, all go at once
\* in the mirror form.
LEMMA MirrorBegins ==
    ASSUME NEW run \in Run, run.batch # {}, form = "mirror"
    PROVE  Begins(Sending([run EXCEPT !.where = [f \in run.batch |-> "ready"]]),
                  StillToDo(run) \cup run.rest \cup run.batch)
<1> DEFINE w == [f \in run.batch |-> "ready"]
           q == [run EXCEPT !.where = w]
           s == Sending(q)
<1>1. w \in [run.batch -> Place] /\ \A f \in run.batch : w[f] = "ready"
  BY DEF Place
<1>2. w \in Table(Place)
  BY <1>1, RunFields DEF Table
<1> HIDE DEF w
<1>3. q \in Run /\ q.batch = run.batch /\ q.where = w /\ q.todo = run.todo /\ q.rest = run.rest
  BY <1>2 DEF Run
<1> HIDE DEF q
<1>4. At(q, Ahead) = run.batch
  BY <1>1, <1>3 DEF At, Ahead
<1>5. /\ Fits(s) /\ s.at = "sending" /\ Claimed(s) = StillToDo(q) \cup q.rest \cup At(q, Ahead)
      /\ At(s, Ahead) = At(q, Ahead)
      /\ \A f \in At(q, Ahead) : \/ s.where[f] = "put"
                                 \/ s.where[f] = q.where[f] /\ q.where[f] # "ready"
  BY <1>1, <1>3, <1>4, SendingFits
<1> HIDE DEF s
<1>6. StillToDo(q) = StillToDo(run)
  BY <1>3 DEF StillToDo
<1>7. \A f \in At(s, Ahead) : s.where[f] = "put"
  <2> SUFFICES ASSUME NEW f \in At(s, Ahead)
               PROVE  s.where[f] = "put"
    OBVIOUS
  <2>1. f \in At(q, Ahead) /\ f \in run.batch
    BY <1>4, <1>5
  <2>2. q.where[f] = "ready"
    BY <1>1, <1>3, <2>1
  <2> QED  BY <1>5, <2>1, <2>2
<1>8. At(s, Ahead) = At(s, {"put"})
  BY <1>7 DEF At, Ahead
<1>9. Begins(s, StillToDo(run) \cup run.rest \cup run.batch)
  BY <1>3, <1>4, <1>5, <1>6, <1>8 DEF Begins
<1> QED  BY <1>9 DEF s, q, w

LEMMA BatchedBegins ==
    ASSUME NEW run \in Run, NEW files \in Group, form \in {"upload", "mirror"}
    PROVE  Begins(Batched(run, files), StillToDo(run) \cup files)
<1> DEFINE B == IF auth THEN FirstOf(files, BatchSize) ELSE files
           some == [run EXCEPT !.batch = B, !.rest = files \ B, !.where = <<>>]
           sign == [some EXCEPT !.at = "signing"]
<1>1. B \in Group /\ B \subseteq files
  BY FirstOfSome, QueueAssumption
<1>2. B \in Rows /\ B # {} /\ files \ B \in Rows /\ (files \ B) \cup B = files
  BY <1>1 DEF Group, Rows
<1>3. Batched(run, files) =
        IF auth THEN sign
        ELSE IF form = "mirror" THEN Sending([some EXCEPT !.where = [f \in B |-> "ready"]])
        ELSE Checking(some, B)
  BY DEF Batched
<1> HIDE DEF B
<1>4. some \in Run /\ some.batch = B /\ some.rest = files \ B /\ some.todo = run.todo
  BY <1>2 DEF Run, Table
<1> HIDE DEF some
<1>5. StillToDo(some) = StillToDo(run)
  BY <1>4 DEF StillToDo
<1>6. CASE auth
  <2>1. sign \in Run /\ sign.at = "signing" /\ sign.batch = B /\ sign.rest = files \ B /\ sign.todo = run.todo
    BY <1>4 DEF Run
  <2> HIDE DEF sign
  <2>2. Hand(sign) = B /\ StillToDo(sign) = StillToDo(run)
    BY <2>1 DEF Hand, StillToDo
  <2>3. Claimed(sign) = StillToDo(run) \cup files
    BY <1>2, <2>1, <2>2, ClaimedIs
  <2>4. Fits(sign)
    BY <1>2, <2>1 DEF Fits
  <2> QED  BY <1>3, <1>6, <2>1, <2>3, <2>4 DEF Begins
<1>7. CASE ~auth /\ form = "mirror"
  <2>1. Begins(Sending([some EXCEPT !.where = [f \in some.batch |-> "ready"]]),
               StillToDo(some) \cup some.rest \cup some.batch)
    BY <1>2, <1>4, <1>7, MirrorBegins
  <2>2. StillToDo(some) \cup some.rest \cup some.batch = StillToDo(run) \cup files
    BY <1>2, <1>4, <1>5
  <2> QED  BY <1>3, <1>4, <1>7, <2>1, <2>2
<1>8. CASE ~auth /\ form # "mirror"
  <2>1. Begins(Checking(some, B), StillToDo(some) \cup some.rest \cup B)
    BY <1>1, <1>4, CheckingBegins
  <2>2. StillToDo(some) \cup some.rest \cup B = StillToDo(run) \cup files
    BY <1>2, <1>4, <1>5
  <2> QED  BY <1>3, <1>8, <2>1, <2>2
<1> QED  BY <1>6, <1>7, <1>8

LEMMA AdvanceBegins ==
    ASSUME NEW run \in Run, form \in {"upload", "mirror"}
    PROVE  Begins(Advance(run), StillToDo(run) \cup run.rest)
<1>1. CASE run.rest # {}
  <2>1. run.rest \in Group
    BY <1>1, RunFields DEF Group
  <2>2. Advance(run) = Batched(run, run.rest)
    BY <1>1 DEF Advance
  <2> QED  BY <2>1, <2>2, BatchedBegins
<1>2. CASE run.rest = {} /\ run.todo = <<>>
  <2>1. Advance(run) = NoRun
    BY <1>2 DEF Advance
  <2>2. DOMAIN <<>> = {}
    BY SMT
  <2>3. StillToDo(run) \cup run.rest = {}
    BY <1>2, <2>2 DEF StillToDo
  <2> QED  BY <2>1, <2>3, NoRunIs
<1>3. CASE run.rest = {} /\ run.todo # <<>>
  <2> DEFINE group == Head(run.todo)
             next == [NoRun EXCEPT !.todo = Tail(run.todo), !.group = group]
             least == CHOOSE f \in group : \A g \in group : f <= g
             hash == [next EXCEPT !.at = "hashing", !.cur = least]
  <2>1. run.todo \in Seq(Group)
    BY RunFields
  <2>2. /\ group \in Group /\ Tail(run.todo) \in Seq(Group)
        /\ StillToDo(run) = group \cup UNION {Tail(run.todo)[i] : i \in DOMAIN Tail(run.todo)}
    BY <1>3, <2>1, NextGroup DEF StillToDo
  <2>3. Advance(run) = IF form = "mirror" THEN Batched(next, group) ELSE hash
    BY <1>3 DEF Advance
  <2>4. least \in group
    BY <2>2, LeastRow
  <2>5. group \in Rows
    BY <2>2 DEF Group
  <2>6. least \in QFile
    BY <2>4, <2>5 DEF Rows
  <2> HIDE DEF group, least
  <2>7. next \in Run /\ next.todo = Tail(run.todo) /\ next.group = group /\ next.rest = {}
    <3>1. NoRun \in Run /\ NoRun.rest = {}
      BY NoRunIs DEF Fits, NoRun
    <3> HIDE DEF NoRun
    <3> QED  BY <2>2, <2>5, <3>1 DEF Run
  <2> HIDE DEF next
  <2>8. StillToDo(run) \cup run.rest = StillToDo(next) \cup group
    BY <1>3, <2>2, <2>7 DEF StillToDo
  <2>9. CASE form = "mirror"
    BY <2>2, <2>3, <2>7, <2>8, <2>9, BatchedBegins
  <2>10. CASE form # "mirror"
    <3>1. /\ hash \in Run /\ hash.at = "hashing" /\ hash.cur = least /\ hash.group = group
          /\ hash.rest = {} /\ hash.todo = next.todo
      BY <2>6, <2>7 DEF Run
    <3> HIDE DEF hash
    <3>2. Fits(hash)
      BY <2>4, <3>1 DEF Fits
    <3>3. Hand(hash) = group /\ StillToDo(hash) = StillToDo(next)
      BY <3>1 DEF Hand, StillToDo
    <3>4. Claimed(hash) = StillToDo(run) \cup run.rest
      BY <2>8, <3>1, <3>3, ClaimedIs
    <3> QED  BY <2>3, <2>10, <3>1, <3>2, <3>4 DEF Begins
  <2> QED  BY <2>9, <2>10
<1> QED  BY <1>1, <1>2, <1>3

-----------------------------------------------------------------------------
(* The statuses a phase gives its rows.                                    *)

\* new is st with the files patched to s.
Patched(new, files, s, st) ==
    /\ new \in [QFile -> RowStatus]
    /\ \A f \in QFile : f \in files /\ st[f] # "gone" => new[f] = s
    /\ \A f \in QFile : f \notin files \/ st[f] = "gone" => new[f] = st[f]
    /\ \A f \in QFile : new[f] = "gone" <=> st[f] = "gone"

LEMMA PatchIs ==
    ASSUME NEW files, NEW s \in RowStatus \ {"gone"}, NEW st \in [QFile -> RowStatus]
    PROVE  Patched(Patch(files, s, st), files, s, st)
BY DEF Patch, Patched

\* What a run shows on entering a phase.
Displays(q, st, new) ==
    /\ new \in [QFile -> RowStatus]
    /\ \A f \in QFile : new[f] = st[f] \/ (f \in Claimed(q) /\ new[f] \in Working)
    /\ \A f \in QFile : new[f] = "gone" <=> st[f] = "gone"
    /\ \A f \in Bright(q) : st[f] # "gone" /\ (q.at = "sending" => q.where[f] = "put")
                               => new[f] \in Working

LEMMA BrightIsClaimed ==
    ASSUME NEW run, Fits(run)
    PROVE  Bright(run) \subseteq Claimed(run) /\ Claimed(run) \subseteq QFile
<1>1. Bright(run) \subseteq Hand(run)
  BY DEF Bright, Hand, Fits
<1>2. /\ run.todo \in Seq(Group) /\ run.group \in Rows /\ run.rest \in Rows /\ run.batch \in Rows
      /\ run.at \in {"idle", "hashing", "signing", "checking", "sending"}
  BY RunFields DEF Fits
<1>3. StillToDo(run) \subseteq QFile
  <2>1. \A i \in DOMAIN run.todo : run.todo[i] \in Group
    BY <1>2, SMT
  <2> QED  BY <2>1 DEF StillToDo, Group, Rows
<1>4. Hand(run) \subseteq QFile
  <2>1. CASE run.at = "idle"
    <3>1. run = NoRun
      BY <2>1 DEF Fits
    <3> QED  BY <3>1, NoRunIs, ClaimedIs
  <2>2. CASE run.at \in {"checking", "sending"}
    <3>1. DOMAIN run.where = run.batch
      BY <2>2 DEF Fits
    <3> QED  BY <1>2, <2>2, <3>1 DEF Hand, At, Rows
  <2>3. CASE run.at \in {"hashing", "signing"}
    BY <1>2, <2>3 DEF Hand, Rows
  <2> QED  BY <1>2, <2>1, <2>2, <2>3
<1> QED  BY <1>1, <1>2, <1>3, <1>4, ClaimedIs DEF Rows

LEMMA ShownDisplays ==
    ASSUME NEW q, Fits(q), q.at = "checking" => At(q, Ahead) = q.batch,
           NEW st \in [QFile -> RowStatus], form \in {"upload", "mirror"}
    PROVE  Displays(q, st, Shown(q, st))
<1> DEFINE files == IF q.at = "hashing" THEN {q.cur}
                    ELSE IF q.at \in {"signing", "checking"} THEN q.batch ELSE At(q, {"put"})
           s == IF q.at \in {"hashing", "signing", "checking"} THEN q.at ELSE Going
           new == Patch(files, s, st)
<1>1. Shown(q, st) = new
  BY DEF Shown
<1>2. s \in Working /\ s \in RowStatus \ {"gone"}
  BY DEF Going, Working, RowStatus
<1>3. files \subseteq Claimed(q)
  <2>1. At(q, {"put"}) \subseteq At(q, Ahead)
    BY DEF At, Ahead
  <2>2. files \subseteq Hand(q)
    BY <2>1 DEF Hand, Fits
  <2> QED  BY <2>2, ClaimedIs
<1>4. \A f \in Bright(q) : (q.at = "sending" => q.where[f] = "put") => f \in files
  <2>1. CASE q.at \in {"hashing", "signing", "checking"}
    BY <2>1 DEF Bright
  <2>2. CASE q.at = "sending"
    BY <2>2 DEF Bright, At
  <2>3. CASE q.at = "idle"
    <3>1. q = NoRun
      BY <2>3 DEF Fits
    <3> QED  BY <3>1, NoRunIs
  <2> QED  BY <2>1, <2>2, <2>3, RunFields DEF Fits
<1>5. Bright(q) \subseteq QFile
  BY BrightIsClaimed
<1> HIDE DEF files, s
<1>6. /\ new \in [QFile -> RowStatus]
      /\ \A f \in QFile : f \in files /\ st[f] # "gone" => new[f] = s
      /\ \A f \in QFile : f \notin files \/ st[f] = "gone" => new[f] = st[f]
      /\ \A f \in QFile : new[f] = "gone" <=> st[f] = "gone"
  <2>1. Patched(new, files, s, st)
    BY <1>2, PatchIs
  <2> QED  BY <2>1 DEF Patched
<1> HIDE DEF new
<1>7. \A f \in QFile : new[f] = st[f] \/ (f \in Claimed(q) /\ new[f] \in Working)
  BY <1>2, <1>3, <1>6
<1>8. \A f \in Bright(q) : st[f] # "gone" /\ (q.at = "sending" => q.where[f] = "put")
                              => new[f] \in Working
  BY <1>2, <1>4, <1>5, <1>6
<1> QED  BY <1>1, <1>6, <1>7, <1>8 DEF Displays

-----------------------------------------------------------------------------
(* Steps.                                                                  *)

\* A run that is under way shows it.
LEMMA RunningShows ==
    ASSUME NEW run, Fits(run), run # NoRun, NEW st, Lit(run, st)
    PROVE  \E f \in QFile : st[f] \in Working
<1>1. Bright(run) # {}
  <2>1. run.at \in {"hashing", "signing", "checking", "sending"}
    BY RunFields DEF Fits
  <2> QED  BY <2>1 DEF Fits, Bright
<1>2. Bright(run) \subseteq QFile
  BY BrightIsClaimed
<1> QED  BY <1>1, <1>2 DEF Lit

\* A run goes on; the other runs wait, or, once a row was pulled from under
\* one, keep what they have.
LEMMA RunMoves ==
    ASSUME QueueInv, NEW r \in QRun, NEW q, Fits(q), runs' = [runs EXCEPT ![r] = q],
           UNCHANGED <<form, auth, unread, pulled>>,
           status' \in [QFile -> RowStatus],
           \A f \in QFile : status'[f] \in Working =>
               \/ f \in Claimed(q)
               \/ status[f] \in Working /\ f \notin Claimed(runs[r]),
           pulled = FALSE => /\ Lit(q, status') /\ Present(q, status')
                             /\ \A p \in QRun \ {r} : runs[p] = NoRun
    PROVE  QueueInv'
<1>1. /\ runs \in [QRun -> Run] /\ \A p \in QRun : Fits(runs[p])
      /\ form \in {"upload", "mirror"} /\ auth \in BOOLEAN
      /\ unread \in BOOLEAN /\ pulled \in BOOLEAN
  BY DEF QueueInv, QueueTypeOK
<1>2. runs' \in [QRun -> Run] /\ runs'[r] = q /\ \A p \in QRun \ {r} : runs'[p] = runs[p]
  BY <1>1 DEF Fits
<1>3. QueueTypeOK'
  <2>1. \A p \in QRun : Fits(runs'[p])
    BY <1>1, <1>2
  <2>2. /\ form' \in {"upload", "mirror"} /\ auth' \in BOOLEAN
        /\ unread' \in BOOLEAN /\ pulled' \in BOOLEAN
    BY <1>1
  <2> QED  BY <1>2, <2>1, <2>2 DEF QueueTypeOK
<1>4. OneRun'
  <2> SUFFICES ASSUME pulled' = FALSE
               PROVE  /\ \A p, s \in QRun : runs'[p] # NoRun /\ runs'[s] # NoRun => p = s
                      /\ \A p \in QRun : Lit(runs'[p], status') /\ Present(runs'[p], status')
    BY DEF OneRun, Lit, Present
  <2>1. pulled = FALSE
    OBVIOUS
  <2>2. \A p \in QRun \ {r} : runs'[p] = NoRun
    BY <1>2, <2>1
  <2>3. Lit(NoRun, status') /\ Present(NoRun, status')
    BY NoRunIs DEF Lit, Present
  <2>4. Lit(runs'[r], status') /\ Present(runs'[r], status')
    BY <1>2, <2>1
  <2> QED  BY <2>2, <2>3, <2>4
<1>5. Tended'
  <2> SUFFICES ASSUME unread' = FALSE, NEW f \in QFile, status'[f] \in Working
               PROVE  \E p \in QRun : f \in Claimed(runs'[p])
    BY DEF Tended
  <2>1. CASE f \in Claimed(q)
    BY <1>2, <2>1
  <2>2. CASE status[f] \in Working /\ f \notin Claimed(runs[r])
    <3>1. unread = FALSE
      OBVIOUS
    <3>2. PICK p \in QRun : f \in Claimed(runs[p])
      BY <2>2, <3>1 DEF QueueInv, Tended
    <3> QED  BY <1>2, <2>2, <3>2
  <2> QED  BY <2>1, <2>2
<1> QED  BY <1>3, <1>4, <1>5 DEF QueueInv

\* Rows change that no run shows a working status for.
LEMMA RowsMove ==
    ASSUME QueueInv, UNCHANGED <<form, auth, runs, unread, pulled>>,
           status' \in [QFile -> RowStatus],
           \A f \in QFile : \/ status'[f] = status[f]
                            \/ status[f] \notin Working /\ status'[f] \notin Working \cup {"gone"}
    PROVE  QueueInv'
<1>1. \A r \in QRun : Fits(runs[r])
  BY DEF QueueInv, QueueTypeOK
<1>2. QueueTypeOK'
  BY DEF QueueInv, QueueTypeOK
<1>3. OneRun'
  <2> SUFFICES ASSUME pulled' = FALSE, NEW r \in QRun
               PROVE  Lit(runs[r], status') /\ Present(runs[r], status')
    BY DEF QueueInv, OneRun, Lit, Present
  <2>1. Lit(runs[r], status) /\ Present(runs[r], status)
    BY DEF QueueInv, OneRun
  <2>2. Bright(runs[r]) \subseteq QFile /\ Claimed(runs[r]) \subseteq QFile
    BY <1>1, BrightIsClaimed
  <2> QED  BY <2>1, <2>2 DEF Lit, Present
<1>4. Tended'
  BY DEF QueueInv, Tended
<1> QED  BY <1>2, <1>3, <1>4 DEF QueueInv

LEMMA OthersRest ==
    ASSUME QueueInv, NEW r \in QRun, runs[r] # NoRun, pulled = FALSE
    PROVE  \A p \in QRun \ {r} : runs[p] = NoRun
BY DEF QueueInv, OneRun

\* A run enters a phase that shows all its rows.
LEMMA Enters ==
    ASSUME QueueInv, NEW r \in QRun, NEW q, NEW claims, Begins(q, claims),
           NEW st \in [QFile -> RowStatus], Proceed(r, q, st),
           UNCHANGED <<form, auth, unread, pulled>>,
           \A f \in QFile : st[f] \in Working =>
               f \in claims \/ (status[f] \in Working /\ f \notin Claimed(runs[r])),
           pulled = FALSE => /\ \A f \in claims : st[f] # "gone"
                             /\ \A p \in QRun \ {r} : runs[p] = NoRun
    PROVE  QueueInv'
<1>1. Fits(q) /\ Claimed(q) = claims
  BY DEF Begins
<1>2. status' = Shown(q, st) /\ runs' = [runs EXCEPT ![r] = q]
  BY DEF Proceed
<1>3. form \in {"upload", "mirror"}
  BY DEF QueueInv, QueueTypeOK
<1>4. Displays(q, st, status')
  <2>1. Displays(q, st, Shown(q, st))
    BY <1>1, <1>3, ShownDisplays DEF Begins
  <2> QED  BY <1>2, <2>1
<1>5. status' \in [QFile -> RowStatus]
  BY <1>4 DEF Displays
<1>6. \A f \in QFile : status'[f] \in Working =>
          f \in Claimed(q) \/ (status[f] \in Working /\ f \notin Claimed(runs[r]))
  BY <1>1, <1>4 DEF Displays
<1>7. Bright(q) \subseteq claims /\ claims \subseteq QFile
  BY <1>1, BrightIsClaimed
<1>8. ASSUME pulled = FALSE
      PROVE  /\ Lit(q, status') /\ Present(q, status')
             /\ \A p \in QRun \ {r} : runs[p] = NoRun
  <2>1. \A f \in claims : st[f] # "gone"
    BY <1>8
  <2>2. \A f \in Bright(q) : q.at = "sending" => q.where[f] = "put"
    BY DEF Bright, Begins, At
  <2>3. Lit(q, status')
    BY <1>4, <1>7, <2>1, <2>2 DEF Lit, Displays
  <2>4. Present(q, status')
    BY <1>1, <1>4, <1>7, <2>1 DEF Present, Displays
  <2> QED  BY <1>8, <2>3, <2>4
<1> QED  BY <1>1, <1>2, <1>5, <1>6, <1>8, RunMoves

\* No run is under way while the button is offered, unless a row was pulled.
LEMMA OfferedWhenIdle ==
    ASSUME QueueInv, ~IsWorking, pulled = FALSE
    PROVE  \A p \in QRun : runs[p] = NoRun
<1> SUFFICES ASSUME NEW p \in QRun, runs[p] # NoRun
             PROVE  FALSE
  OBVIOUS
<1>1. Fits(runs[p]) /\ Lit(runs[p], status)
  BY DEF QueueInv, QueueTypeOK, OneRun
<1>2. \E f \in QFile : status[f] \in Working
  BY <1>1, RunningShows
<1> QED  BY <1>2 DEF IsWorking

LEMMA StartKeeps ==
    ASSUME QueueInv, NEW r \in QRun, runs[r] = NoRun, ~IsWorking,
           NEW T \in Seq(Group), UNION {T[i] : i \in DOMAIN T} \subseteq Pending,
           Proceed(r, Advance([NoRun EXCEPT !.todo = T]), status),
           UNCHANGED <<form, auth, unread, pulled>>
    PROVE  QueueInv'
<1> DEFINE q0 == [NoRun EXCEPT !.todo = T]
           claims == StillToDo(q0) \cup q0.rest
<1>1. q0 \in Run /\ q0.todo = T /\ q0.rest = {}
  <2>1. NoRun \in Run /\ NoRun.rest = {}
    BY NoRunIs DEF Fits, NoRun
  <2> HIDE DEF NoRun
  <2> QED  BY <2>1 DEF Run
<1> HIDE DEF q0
<1>2. claims \subseteq Pending
  BY <1>1 DEF StillToDo
<1>3. form \in {"upload", "mirror"} /\ status \in [QFile -> RowStatus]
  BY DEF QueueInv, QueueTypeOK
<1>4. Begins(Advance(q0), claims)
  BY <1>1, <1>3, AdvanceBegins
<1>5. Proceed(r, Advance(q0), status)
  BY DEF q0
<1> HIDE DEF claims
<1>6. \A f \in claims : status[f] # "gone"
  BY <1>2 DEF Pending
<1>7. \A f \in QFile : status[f] \notin Working
  BY DEF IsWorking
<1>8. pulled = FALSE => \A p \in QRun \ {r} : runs[p] = NoRun
  BY OfferedWhenIdle
<1>9. \A f \in QFile : status[f] \in Working =>
          f \in claims \/ (status[f] \in Working /\ f \notin Claimed(runs[r]))
  BY <1>7
<1>10. pulled = FALSE => /\ \A f \in claims : status[f] # "gone"
                         /\ \A p \in QRun \ {r} : runs[p] = NoRun
  BY <1>6, <1>8
<1> QED  BY <1>3, <1>4, <1>5, <1>9, <1>10, Enters

LEMMA RefusedKeeps ==
    ASSUME QueueInv, Refused(Pending), UNCHANGED <<form, auth, unread, pulled>>
    PROVE  QueueInv'
<1>1. status' = Patch(Pending, "error", status) /\ runs' = runs
  BY DEF Refused
<1>2. status \in [QFile -> RowStatus] /\ "error" \in RowStatus \ {"gone"}
  BY DEF QueueInv, QueueTypeOK, RowStatus, Terminal
<1>3. /\ status' \in [QFile -> RowStatus]
      /\ \A f \in QFile : f \in Pending /\ status[f] # "gone" => status'[f] = "error"
      /\ \A f \in QFile : f \notin Pending \/ status[f] = "gone" => status'[f] = status[f]
  <2>1. Patched(status', Pending, "error", status)
    BY <1>1, <1>2, PatchIs
  <2> QED  BY <2>1 DEF Patched
<1>4. \A f \in QFile : \/ status'[f] = status[f]
                       \/ status[f] \notin Working /\ status'[f] \notin Working \cup {"gone"}
  BY <1>3 DEF Pending, Working
<1> QED  BY <1>1, <1>3, <1>4, RowsMove

LEMMA GroupsKept ==
    ASSUME NEW A \in Rows, NEW B \in Rows
    PROVE  /\ NonEmpty(A) \o NonEmpty(B) \in Seq(Group)
           /\ LET s == NonEmpty(A) \o NonEmpty(B)
              IN  UNION {s[i] : i \in DOMAIN s} \subseteq A \cup B
<1> DEFINE s == NonEmpty(A) \o NonEmpty(B)
<1>1. /\ A # {} => A \in Group
      /\ B # {} => B \in Group
  BY DEF Group
<1>2. NonEmpty(A) \in Seq(Group) /\ NonEmpty(B) \in Seq(Group)
  BY <1>1, SMT DEF NonEmpty
<1>3. s \in Seq(Group)
  BY <1>2, SMT
<1>4. \A i \in DOMAIN s : s[i] = A \/ s[i] = B
  BY <1>1, SMT DEF NonEmpty
<1> QED  BY <1>3, <1>4

LEMMA RunQueueKeeps ==
    ASSUME QueueInv, NEW r \in QRun, RunQueue(r)
    PROVE  QueueInv'
<1>1. /\ Pending # {} /\ ~IsWorking /\ runs[r] = NoRun
      /\ UNCHANGED <<form, auth, unread, pulled>>
  BY DEF RunQueue, QueueCanUpload
<1> DEFINE T == IF auth THEN NonEmpty(Pending \ optimize) \o NonEmpty(Pending \cap optimize)
                ELSE <<Pending>>
<1>2. Refused(Pending) \/ Proceed(r, Advance([NoRun EXCEPT !.todo = T]), status)
  BY DEF RunQueue
<1>3. T \in Seq(Group) /\ UNION {T[i] : i \in DOMAIN T} \subseteq Pending
  <2>1. Pending \ optimize \in Rows /\ Pending \cap optimize \in Rows /\ Pending \in Group
    BY <1>1 DEF Pending, Rows, Group
  <2>2. CASE auth
    <3> DEFINE s == NonEmpty(Pending \ optimize) \o NonEmpty(Pending \cap optimize)
    <3>1. /\ s \in Seq(Group)
          /\ UNION {s[i] : i \in DOMAIN s} \subseteq (Pending \ optimize) \cup (Pending \cap optimize)
      BY <2>1, GroupsKept
    <3>2. T = s
      BY <2>2
    <3> HIDE DEF s, T
    <3>3. UNION {s[i] : i \in DOMAIN s} \subseteq Pending
      BY <3>1
    <3> QED  BY <3>1, <3>2, <3>3
  <2>3. CASE ~auth
    <3>1. <<Pending>> \in Seq(Group) /\ \A i \in DOMAIN <<Pending>> : <<Pending>>[i] = Pending
      BY <2>1, SMT
    <3> QED  BY <2>3, <3>1
  <2> QED  BY <2>2, <2>3
<1> HIDE DEF T
<1> QED  BY <1>1, <1>2, <1>3, RefusedKeeps, StartKeeps

LEMMA RunMirrorKeeps ==
    ASSUME QueueInv, NEW r \in QRun, RunMirror(r)
    PROVE  QueueInv'
<1>1. /\ Pending # {} /\ ~IsWorking /\ runs[r] = NoRun
      /\ UNCHANGED <<form, auth, unread, pulled>>
  BY DEF RunMirror, CanMirror
<1> DEFINE T == <<Pending>>
<1>2. Refused(Pending) \/ Proceed(r, Advance([NoRun EXCEPT !.todo = T]), status)
  BY DEF RunMirror
<1>3. T \in Seq(Group) /\ UNION {T[i] : i \in DOMAIN T} \subseteq Pending
  <2>1. Pending \in Group
    BY <1>1 DEF Pending, Rows, Group
  <2>2. T \in Seq(Group) /\ \A i \in DOMAIN T : T[i] = Pending
    BY <2>1, SMT
  <2> QED  BY <2>2
<1> HIDE DEF T
<1> QED  BY <1>1, <1>2, <1>3, RefusedKeeps, StartKeeps

\* What a run in a phase has: its claims by the phase, and none of them gone.
LEMMA HandOf ==
    ASSUME QueueInv, NEW r \in QRun
    PROVE  /\ Fits(runs[r]) /\ runs[r] \in Run
           /\ Claimed(runs[r]) = StillToDo(runs[r]) \cup runs[r].rest \cup Hand(runs[r])
           /\ Claimed(runs[r]) \subseteq QFile
           /\ pulled = FALSE => Lit(runs[r], status) /\ Present(runs[r], status)
           /\ form \in {"upload", "mirror"} /\ status \in [QFile -> RowStatus]
<1>1. Fits(runs[r]) /\ form \in {"upload", "mirror"} /\ status \in [QFile -> RowStatus]
  BY DEF QueueInv, QueueTypeOK
<1>2. pulled = FALSE => Lit(runs[r], status) /\ Present(runs[r], status)
  BY DEF QueueInv, OneRun
<1> QED  BY <1>1, <1>2, ClaimedIs, BrightIsClaimed DEF Fits

\* A run enters a phase with the rows it had.
LEMMA GoesOn ==
    ASSUME QueueInv, NEW r \in QRun, runs[r].at # "idle", NEW q,
           Begins(q, Claimed(runs[r])), Proceed(r, q, status),
           UNCHANGED <<form, auth, unread, pulled>>
    PROVE  QueueInv'
<1>1. runs[r] # NoRun
  BY NoRunIs
<1>2. pulled = FALSE => /\ \A f \in Claimed(runs[r]) : status[f] # "gone"
                        /\ \A p \in QRun \ {r} : runs[p] = NoRun
  BY <1>1, HandOf, OthersRest DEF Present
<1> QED  BY <1>2, HandOf, Enters

LEMMA HashedKeeps ==
    ASSUME QueueInv, NEW r \in QRun, Hashed(r)
    PROVE  QueueInv'
<1> DEFINE run == runs[r]
           after == {f \in run.group : f > run.cur}
           least == CHOOSE f \in after : \A g \in after : f <= g
           next == [run EXCEPT !.cur = least]
<1>1. /\ run.at = "hashing" /\ UNCHANGED <<form, auth, unread, pulled>>
      /\ Proceed(r, IF after = {} THEN Batched(run, run.group) ELSE next, status)
  BY DEF Hashed
<1>2. /\ Fits(run) /\ run \in Run /\ form \in {"upload", "mirror"}
      /\ Claimed(run) = StillToDo(run) \cup run.rest \cup Hand(run)
  BY HandOf
<1>3. run.cur \in run.group /\ run.rest = {} /\ run.group \in Rows
  BY <1>1, <1>2, RunFields DEF Fits
<1>4. Claimed(run) = StillToDo(run) \cup run.group
  BY <1>1, <1>2, <1>3 DEF Hand
<1>5. CASE after = {}
  <2>1. run.group \in Group
    BY <1>3 DEF Group
  <2>2. Begins(Batched(run, run.group), Claimed(run))
    BY <1>2, <1>4, <2>1, BatchedBegins
  <2> QED  BY <1>1, <1>5, <2>2, GoesOn
<1>6. CASE after # {}
  <2>1. after \in Group /\ after \subseteq run.group
    BY <1>3, <1>6 DEF Group, Rows
  <2> HIDE DEF after
  <2>2. least \in after
    BY <2>1, LeastRow
  <2>3. least \in run.group /\ least \in QFile
    BY <1>3, <2>1, <2>2 DEF Rows
  <2> HIDE DEF least
  <2>4. /\ next \in Run /\ next.at = "hashing" /\ next.cur = least /\ next.group = run.group
        /\ next.rest = {} /\ next.todo = run.todo
    BY <1>1, <1>2, <1>3, <2>3 DEF Run
  <2> HIDE DEF next
  <2>5. Fits(next)
    BY <2>3, <2>4 DEF Fits
  <2>6. Hand(next) = run.group /\ StillToDo(next) = StillToDo(run)
    BY <2>4 DEF Hand, StillToDo
  <2>7. Claimed(next) = Claimed(run)
    BY <1>4, <2>4, <2>6, ClaimedIs
  <2>8. Begins(next, Claimed(run))
    BY <2>4, <2>5, <2>7 DEF Begins
  <2> QED  BY <1>1, <1>6, <2>8, GoesOn
<1> QED  BY <1>5, <1>6

LEMMA HashFailsKeeps ==
    ASSUME QueueInv, NEW r \in QRun, HashFails(r)
    PROVE  QueueInv'
<1>1. /\ runs' = [runs EXCEPT ![r] = NoRun] /\ unread' = TRUE /\ runs[r].at = "hashing"
      /\ UNCHANGED <<form, auth, status, pulled>>
  BY DEF HashFails
<1>2. /\ runs \in [QRun -> Run] /\ \A p \in QRun : Fits(runs[p])
      /\ form \in {"upload", "mirror"} /\ auth \in BOOLEAN /\ status \in [QFile -> RowStatus]
      /\ pulled \in BOOLEAN
  BY DEF QueueInv, QueueTypeOK
<1>3. Fits(NoRun) /\ NoRun \in Run /\ Claimed(NoRun) = {} /\ Bright(NoRun) = {} /\ NoRun.at = "idle"
  BY NoRunIs DEF Fits
<1> HIDE DEF NoRun
<1>4. runs' \in [QRun -> Run] /\ runs'[r] = NoRun /\ \A p \in QRun \ {r} : runs'[p] = runs[p]
  BY <1>1, <1>2, <1>3
<1>5. QueueTypeOK'
  <2>1. \A p \in QRun : Fits(runs'[p])
    BY <1>2, <1>3, <1>4
  <2>2. /\ form' \in {"upload", "mirror"} /\ auth' \in BOOLEAN
        /\ status' \in [QFile -> RowStatus]
        /\ unread' \in BOOLEAN /\ pulled' \in BOOLEAN
    BY <1>1, <1>2
  <2> QED  BY <1>4, <2>1, <2>2 DEF QueueTypeOK
<1>6. OneRun'
  <2> SUFFICES ASSUME pulled' = FALSE
               PROVE  \A p \in QRun : runs'[p] = NoRun
    BY <1>3 DEF OneRun, Lit, Present
  <2>1. runs[r] # NoRun /\ pulled = FALSE
    BY <1>1, <1>3
  <2>2. \A p \in QRun \ {r} : runs[p] = NoRun
    BY <2>1, OthersRest
  <2>3. \A p \in QRun \ {r} : runs'[p] = NoRun
    <3>1. \A p \in QRun \ {r} : runs'[p] = runs[p]
      BY <1>4
    <3> QED  BY <2>2, <3>1
  <2>4. runs'[r] = NoRun
    BY <1>4
  <2> QED  BY <2>3, <2>4
<1>7. Tended'
  BY <1>1 DEF Tended
<1> QED  BY <1>5, <1>6, <1>7 DEF QueueInv

LEMMA BatchSignedKeeps ==
    ASSUME QueueInv, NEW r \in QRun, BatchSigned(r)
    PROVE  QueueInv'
<1> DEFINE run == runs[r]
           mirror == Sending([run EXCEPT !.where = [f \in run.batch |-> "ready"]])
           check == Checking(run, run.batch)
<1>1. /\ run.at = "signing" /\ UNCHANGED <<form, auth, unread, pulled>>
      /\ Proceed(r, IF form = "mirror" THEN mirror ELSE check, status)
  BY DEF BatchSigned
<1>2. /\ Fits(run) /\ run \in Run
      /\ Claimed(run) = StillToDo(run) \cup run.rest \cup Hand(run)
  BY HandOf
<1>3. run.batch # {} /\ run.batch \in Group
  BY <1>1, <1>2, RunFields DEF Fits, Group
<1>4. Claimed(run) = StillToDo(run) \cup run.rest \cup run.batch
  BY <1>1, <1>2 DEF Hand
<1>5. CASE form = "mirror"
  <2>1. Begins(mirror, Claimed(run))
    BY <1>2, <1>3, <1>4, <1>5, MirrorBegins
  <2> QED  BY <1>1, <1>5, <2>1, GoesOn
<1>6. CASE form # "mirror"
  <2>1. Begins(check, Claimed(run))
    BY <1>2, <1>3, <1>4, CheckingBegins
  <2> QED  BY <1>1, <1>6, <2>1, GoesOn
<1> QED  BY <1>5, <1>6

LEMMA SignRefusedKeeps ==
    ASSUME QueueInv, NEW r \in QRun, SignRefused(r)
    PROVE  QueueInv'
<1> DEFINE run == runs[r]
           st == Patch(run.batch, "error", status)
           claims == StillToDo(run) \cup run.rest
<1>1. /\ run.at = "signing" /\ UNCHANGED <<form, auth, unread, pulled>>
      /\ Proceed(r, Advance(run), st)
  BY DEF SignRefused
<1>2. /\ Fits(run) /\ run \in Run /\ form \in {"upload", "mirror"}
      /\ Claimed(run) = StillToDo(run) \cup run.rest \cup Hand(run) /\ Claimed(run) \subseteq QFile
      /\ pulled = FALSE => Present(run, status)
      /\ status \in [QFile -> RowStatus]
  BY HandOf
<1>3. Claimed(run) = claims \cup run.batch
  BY <1>1, <1>2 DEF Hand
<1>4. Begins(Advance(run), claims)
  BY <1>2, AdvanceBegins
<1>5. /\ st \in [QFile -> RowStatus]
      /\ \A f \in QFile : f \in run.batch /\ status[f] # "gone" => st[f] = "error"
      /\ \A f \in QFile : f \notin run.batch \/ status[f] = "gone" => st[f] = status[f]
      /\ \A f \in QFile : st[f] = "gone" <=> status[f] = "gone"
  <2>1. "error" \in RowStatus \ {"gone"}
    BY DEF RowStatus, Terminal
  <2>2. Patched(st, run.batch, "error", status)
    BY <1>2, <2>1, PatchIs
  <2> QED  BY <2>2 DEF Patched
<1> HIDE DEF st, claims
<1>6. \A f \in QFile : st[f] \in Working =>
          f \in claims \/ (status[f] \in Working /\ f \notin Claimed(run))
  <2> SUFFICES ASSUME NEW f \in QFile, st[f] \in Working
               PROVE  f \in claims \/ (status[f] \in Working /\ f \notin Claimed(run))
    OBVIOUS
  <2>1. "error" \notin Working /\ "gone" \notin Working
    BY DEF Working
  <2>2. f \notin run.batch /\ st[f] = status[f]
    BY <1>5, <2>1
  <2> QED  BY <1>3, <2>2
<1>7. runs[r] # NoRun
  BY <1>1, NoRunIs
<1>8. pulled = FALSE => /\ \A f \in claims : st[f] # "gone"
                        /\ \A p \in QRun \ {r} : runs[p] = NoRun
  BY <1>2, <1>3, <1>5, <1>7, OthersRest DEF Present
<1> QED  BY <1>1, <1>4, <1>5, <1>6, <1>8, Enters

-----------------------------------------------------------------------------
(* One row of a batch gets somewhere.                                      *)

\* The status of the row a run moves: over is over, and what goes on shows it.
Follows(f, place, st) ==
    /\ st \in [QFile -> RowStatus]
    /\ \A g \in QFile \ {f} : st[g] = status[g]
    /\ st[f] = "gone" <=> status[f] = "gone"
    /\ place = "over" => st[f] \notin Working
    /\ place # "over" => (status[f] \in Working => st[f] \in Working)

\* The run with the row in its new place, but for the attempts.
Placed(q, r, f, place) ==
    /\ q \in Run /\ q.at = runs[r].at /\ q.batch = runs[r].batch
    /\ q.todo = runs[r].todo /\ q.rest = runs[r].rest
    /\ q.where = [runs[r].where EXCEPT ![f] = place]
    /\ q.at = "sending" => q.tries \in [q.batch -> Nat]

LEMMA PlacedIs ==
    ASSUME QueueInv, NEW r \in QRun, runs[r].at \in {"checking", "sending"},
           NEW f \in At(runs[r], Ahead), NEW place \in Place
    PROVE  Placed([runs[r] EXCEPT !.where[f] = place], r, f, place)
<1> DEFINE run == runs[r]
           w == [run.where EXCEPT ![f] = place]
           q == [run EXCEPT !.where = w]
<1>1. Fits(run) /\ run \in Run
  BY HandOf
<1>2. /\ run.where \in [run.batch -> Place] /\ run.batch \in Rows
      /\ run.at = "sending" => run.tries \in [run.batch -> Nat]
  BY <1>1, RunFields DEF Fits
<1>3. w \in [run.batch -> Place]
  BY <1>2
<1>4. w \in Table(Place)
  BY <1>2, <1>3 DEF Table
<1>5. [runs[r] EXCEPT !.where[f] = place] = q
  OBVIOUS
<1> HIDE DEF w
<1>6. /\ q \in Run /\ q.at = run.at /\ q.batch = run.batch /\ q.todo = run.todo
      /\ q.rest = run.rest /\ q.where = w /\ q.tries = run.tries
  BY <1>1, <1>4 DEF Run
<1> HIDE DEF q
<1>7. Placed(q, r, f, place)
  BY <1>2, <1>6 DEF Placed, w
<1> QED  BY <1>5, <1>7

LEMMA PlacedClaims ==
    ASSUME QueueInv, NEW r \in QRun, runs[r].at \in {"checking", "sending"},
           NEW f \in At(runs[r], Ahead), NEW place \in Place, NEW q, Placed(q, r, f, place),
           NEW st, Follows(f, place, st)
    PROVE  /\ q.where \in [q.batch -> Place] /\ f \in QFile
           /\ StillToDo(q) \cup q.rest \cup At(q, Ahead) \subseteq QFile
           /\ \A g \in QFile : st[g] \in Working =>
                  \/ g \in StillToDo(q) \cup q.rest \cup At(q, Ahead)
                  \/ status[g] \in Working /\ g \notin Claimed(runs[r])
           /\ pulled = FALSE =>
                /\ \A g \in StillToDo(q) \cup q.rest \cup At(q, Ahead) : st[g] # "gone"
                /\ \A g \in At(q, Ahead) : st[g] \in Working
                /\ \A p \in QRun \ {r} : runs[p] = NoRun
<1> DEFINE run == runs[r]
           claims == StillToDo(q) \cup q.rest \cup At(q, Ahead)
<1>1. /\ Fits(run) /\ Claimed(run) = StillToDo(run) \cup run.rest \cup Hand(run)
      /\ Claimed(run) \subseteq QFile
      /\ pulled = FALSE => Lit(run, status) /\ Present(run, status)
  BY HandOf
<1>2. run.where \in [run.batch -> Place] /\ DOMAIN run.where = run.batch
  BY <1>1 DEF Fits
<1>3. Hand(run) = At(run, Ahead) /\ Bright(run) = At(run, Ahead)
  BY DEF Hand, Bright
<1>4. f \in run.batch /\ run.where[f] \in Ahead
  BY <1>2 DEF At
<1>5. q.batch = run.batch /\ StillToDo(q) = StillToDo(run) /\ q.rest = run.rest
  <2>1. q.batch = run.batch /\ q.todo = run.todo /\ q.rest = run.rest
    BY DEF Placed
  <2> QED  BY <2>1 DEF StillToDo
<1>6. q.where \in [q.batch -> Place]
  BY <1>2, <1>5 DEF Placed
<1>7. q.where[f] = place /\ \A g \in run.batch \ {f} : q.where[g] = run.where[g]
  BY <1>2, <1>4 DEF Placed
<1>8. \A g \in At(q, Ahead) : g \in At(run, Ahead)
  <2> SUFFICES ASSUME NEW g \in At(q, Ahead)
               PROVE  g \in At(run, Ahead)
    OBVIOUS
  <2>1. g \in run.batch /\ q.where[g] \in Ahead
    BY <1>5, <1>6 DEF At
  <2> QED  BY <1>2, <1>4, <1>7, <2>1 DEF At
<1>9. \A g \in At(run, Ahead) \ {f} : g \in At(q, Ahead)
  <2> SUFFICES ASSUME NEW g \in At(run, Ahead) \ {f}
               PROVE  g \in At(q, Ahead)
    OBVIOUS
  <2>1. g \in run.batch /\ run.where[g] \in Ahead
    BY <1>2 DEF At
  <2>2. DOMAIN q.where = run.batch
    BY <1>5, <1>6
  <2> QED  BY <1>7, <2>1, <2>2 DEF At
<1>10. f \in At(q, Ahead) <=> place # "over"
  <2>1. DOMAIN q.where = run.batch
    BY <1>5, <1>6
  <2>2. place \in Ahead <=> place # "over"
    BY DEF Place, Ahead
  <2> QED  BY <1>4, <1>7, <2>1, <2>2 DEF At
<1>11. f \in QFile
  BY <1>1, <1>3
<1>12. claims \subseteq Claimed(run)
  BY <1>1, <1>3, <1>5, <1>8
<1>13. \A g \in Claimed(run) \ {f} : g \in claims
  BY <1>1, <1>3, <1>5, <1>9
<1>14. \A g \in QFile : st[g] \in Working =>
           g \in claims \/ (status[g] \in Working /\ g \notin Claimed(run))
  <2> SUFFICES ASSUME NEW g \in QFile, st[g] \in Working
               PROVE  g \in claims \/ (status[g] \in Working /\ g \notin Claimed(run))
    OBVIOUS
  <2>1. CASE g = f
    BY <1>10, <2>1 DEF Follows
  <2>2. CASE g # f
    BY <1>13, <2>2 DEF Follows
  <2> QED  BY <2>1, <2>2
<1>15. ASSUME pulled = FALSE
       PROVE  /\ \A g \in claims : st[g] # "gone"
              /\ \A g \in At(q, Ahead) : st[g] \in Working
              /\ \A p \in QRun \ {r} : runs[p] = NoRun
  <2>1. \A g \in Claimed(run) : status[g] # "gone"
    BY <1>1, <1>15 DEF Present
  <2>2. \A g \in At(run, Ahead) : status[g] \in Working
    BY <1>1, <1>3, <1>15 DEF Lit
  <2>3. \A g \in claims : st[g] # "gone"
    BY <1>1, <1>12, <2>1 DEF Follows
  <2>4. \A g \in At(q, Ahead) : st[g] \in Working
    <3> SUFFICES ASSUME NEW g \in At(q, Ahead)
                 PROVE  st[g] \in Working
      OBVIOUS
    <3>1. status[g] \in Working /\ g \in QFile
      BY <1>1, <1>3, <1>8, <2>2
    <3> QED  BY <1>10, <3>1 DEF Follows
  <2>5. runs[r] # NoRun
    BY NoRunIs
  <2> QED  BY <1>15, <2>3, <2>4, <2>5, OthersRest
<1>16. claims \subseteq QFile
  BY <1>1, <1>12
<1> QED  BY <1>6, <1>11, <1>14, <1>15, <1>16

\* The run stays in its phase.
LEMMA RowStays ==
    ASSUME QueueInv, NEW r \in QRun, runs[r].at \in {"checking", "sending"},
           NEW f \in At(runs[r], Ahead), NEW place \in Place, NEW q, Placed(q, r, f, place),
           Follows(f, place, status'), At(q, Ahead) # {},
           runs' = [runs EXCEPT ![r] = q], UNCHANGED <<form, auth, unread, pulled>>
    PROVE  QueueInv'
<1>1. /\ q.where \in [q.batch -> Place]
      /\ \A g \in QFile : status'[g] \in Working =>
             \/ g \in StillToDo(q) \cup q.rest \cup At(q, Ahead)
             \/ status[g] \in Working /\ g \notin Claimed(runs[r])
      /\ pulled = FALSE =>
           /\ \A g \in StillToDo(q) \cup q.rest \cup At(q, Ahead) : status'[g] # "gone"
           /\ \A g \in At(q, Ahead) : status'[g] \in Working
           /\ \A p \in QRun \ {r} : runs[p] = NoRun
  BY PlacedClaims
<1>2. q \in Run /\ q.at \in {"checking", "sending"} /\ (q.at = "sending" => q.tries \in [q.batch -> Nat])
  BY DEF Placed
<1>3. Fits(q)
  BY <1>1, <1>2 DEF Fits
<1>4. Hand(q) = At(q, Ahead) /\ Bright(q) = At(q, Ahead)
  BY <1>2 DEF Hand, Bright
<1>5. Claimed(q) = StillToDo(q) \cup q.rest \cup At(q, Ahead)
  BY <1>4, ClaimedIs
<1>6. pulled = FALSE => /\ Lit(q, status') /\ Present(q, status')
                        /\ \A p \in QRun \ {r} : runs[p] = NoRun
  BY <1>1, <1>4, <1>5 DEF Lit, Present
<1>7. status' \in [QFile -> RowStatus]
  BY DEF Follows
<1> QED  BY <1>1, <1>3, <1>5, <1>6, <1>7, RunMoves

\* What is left of the batch is sent.
LEMMA RowsAreSent ==
    ASSUME QueueInv, NEW r \in QRun, runs[r].at \in {"checking", "sending"},
           NEW f \in At(runs[r], Ahead), NEW place \in Place, NEW q, Placed(q, r, f, place),
           NEW st, Follows(f, place, st), At(q, Ahead) # {},
           Proceed(r, Sending(q), st), UNCHANGED <<form, auth, unread, pulled>>
    PROVE  QueueInv'
<1> DEFINE s == Sending(q)
           claims == StillToDo(q) \cup q.rest \cup At(q, Ahead)
<1>1. /\ q.where \in [q.batch -> Place]
      /\ claims \subseteq QFile
      /\ \A g \in QFile : st[g] \in Working =>
             g \in claims \/ (status[g] \in Working /\ g \notin Claimed(runs[r]))
      /\ pulled = FALSE => /\ \A g \in claims : st[g] # "gone"
                           /\ \A g \in At(q, Ahead) : st[g] \in Working
                           /\ \A p \in QRun \ {r} : runs[p] = NoRun
  BY PlacedClaims
<1>2. q \in Run
  BY DEF Placed
<1>3. Fits(s) /\ s.at = "sending" /\ Claimed(s) = claims /\ At(s, Ahead) = At(q, Ahead)
  BY <1>1, <1>2, SendingFits
<1>4. runs' = [runs EXCEPT ![r] = s] /\ status' = Shown(s, st)
  BY DEF Proceed
<1> HIDE DEF s
<1>5. st \in [QFile -> RowStatus] /\ form \in {"upload", "mirror"}
  BY HandOf DEF Follows
<1>6. Displays(s, st, status')
  BY <1>3, <1>4, <1>5, ShownDisplays
<1>7. Bright(s) = At(q, Ahead)
  BY <1>3 DEF Bright
<1> HIDE DEF claims
<1>8. status' \in [QFile -> RowStatus]
  BY <1>6 DEF Displays
<1>9. \A g \in QFile : status'[g] \in Working =>
          g \in Claimed(s) \/ (status[g] \in Working /\ g \notin Claimed(runs[r]))
  BY <1>1, <1>3, <1>6 DEF Displays
<1>10. At(q, Ahead) \subseteq claims
  BY DEF claims
<1>11. pulled = FALSE => /\ Lit(s, status') /\ Present(s, status')
                         /\ \A p \in QRun \ {r} : runs[p] = NoRun
  BY <1>1, <1>3, <1>6, <1>7, <1>10 DEF Lit, Present, Displays
<1> QED  BY <1>3, <1>4, <1>8, <1>9, <1>11, RunMoves

\* The batch is over.
LEMMA BatchEnds ==
    ASSUME QueueInv, NEW r \in QRun, runs[r].at \in {"checking", "sending"},
           NEW f \in At(runs[r], Ahead), NEW place \in Place, NEW q, Placed(q, r, f, place),
           NEW st, Follows(f, place, st), At(q, Ahead) = {},
           Proceed(r, Advance(q), st), UNCHANGED <<form, auth, unread, pulled>>
    PROVE  QueueInv'
<1> DEFINE claims == StillToDo(q) \cup q.rest
<1>1. /\ \A g \in QFile : st[g] \in Working =>
             g \in claims \/ (status[g] \in Working /\ g \notin Claimed(runs[r]))
      /\ pulled = FALSE => /\ \A g \in claims : st[g] # "gone"
                           /\ \A p \in QRun \ {r} : runs[p] = NoRun
  <2> DEFINE all == StillToDo(q) \cup q.rest \cup At(q, Ahead)
  <2>1. /\ \A g \in QFile : st[g] \in Working =>
               \/ g \in all
               \/ status[g] \in Working /\ g \notin Claimed(runs[r])
        /\ pulled = FALSE => /\ \A g \in all : st[g] # "gone"
                             /\ \A g \in At(q, Ahead) : st[g] \in Working
                             /\ \A p \in QRun \ {r} : runs[p] = NoRun
    BY PlacedClaims
  <2>2. all = claims
    OBVIOUS
  <2> HIDE DEF all, claims
  <2> QED  BY <2>1, <2>2
<1>2. q \in Run
  BY DEF Placed
<1>3. st \in [QFile -> RowStatus] /\ form \in {"upload", "mirror"}
  BY HandOf DEF Follows
<1>4. Begins(Advance(q), claims)
  BY <1>2, <1>3, AdvanceBegins
<1> HIDE DEF claims
<1> QED  BY <1>1, <1>3, <1>4, Enters

LEMMA MovedKeeps ==
    ASSUME QueueInv, NEW r \in QRun, runs[r].at \in {"checking", "sending"},
           NEW f \in At(runs[r], Ahead), NEW place \in Place,
           NEW st, Follows(f, place, st), Moved(r, f, place, st),
           UNCHANGED <<form, auth, unread, pulled>>
    PROVE  QueueInv'
<1> DEFINE run == [runs[r] EXCEPT !.where[f] = place]
           waits == At(run, {"dedup", "preflight", "put", "wait"})
           ready == At(run, {"ready"})
<1>1. Placed(run, r, f, place)
  BY PlacedIs
<1>2. IF waits # {} \/ (auth /\ run.at = "sending" /\ ready # {})
      THEN runs' = [runs EXCEPT ![r] = run] /\ status' = st
      ELSE Proceed(r, IF ready # {} THEN Sending(run) ELSE Advance(run), st)
  BY DEF Moved
<1> HIDE DEF run
<1>3. At(run, Ahead) = waits \cup ready
  BY DEF At, Ahead
<1> HIDE DEF waits, ready
<1>4. CASE waits # {} \/ (auth /\ run.at = "sending" /\ ready # {})
  <2>1. At(run, Ahead) # {}
    BY <1>3, <1>4
  <2>2. runs' = [runs EXCEPT ![r] = run] /\ status' = st
    BY <1>2, <1>4
  <2>3. Follows(f, place, status')
    BY <2>2
  <2> QED  BY <1>1, <2>1, <2>2, <2>3, RowStays
<1>5. CASE ~(waits # {} \/ (auth /\ run.at = "sending" /\ ready # {})) /\ ready # {}
  <2>1. At(run, Ahead) # {}
    BY <1>3, <1>5
  <2>2. Proceed(r, Sending(run), st)
    BY <1>2, <1>5
  <2> QED  BY <1>1, <2>1, <2>2, RowsAreSent
<1>6. CASE ~(waits # {} \/ (auth /\ run.at = "sending" /\ ready # {})) /\ ready = {}
  <2>1. At(run, Ahead) = {}
    BY <1>3, <1>6
  <2>2. Proceed(r, Advance(run), st)
    BY <1>2, <1>6
  <2> QED  BY <1>1, <2>1, <2>2, BatchEnds
<1> QED  BY <1>4, <1>5, <1>6

\* The row's status goes with its place.
LEMMA PatchFollows ==
    ASSUME QueueInv, NEW f \in QFile, NEW place, NEW s \in RowStatus \ {"gone"},
           place = "over" <=> s \notin Working
    PROVE  Follows(f, place, Patch({f}, s, status))
<1> DEFINE st == Patch({f}, s, status)
<1>1. status \in [QFile -> RowStatus]
  BY DEF QueueInv, QueueTypeOK
<1>2. /\ st \in [QFile -> RowStatus]
      /\ status[f] # "gone" => st[f] = s
      /\ status[f] = "gone" => st[f] = status[f]
      /\ \A g \in QFile \ {f} : st[g] = status[g]
      /\ st[f] = "gone" <=> status[f] = "gone"
  <2>1. Patched(st, {f}, s, status)
    BY <1>1, PatchIs
  <2> HIDE DEF st
  <2>2. \A g \in QFile \ {f} : g \notin {f}
    OBVIOUS
  <2> QED  BY <2>1, <2>2 DEF Patched
<1> HIDE DEF st
<1>3. "gone" \notin Working
  BY DEF Working
<1>4. Follows(f, place, st)
  BY <1>2, <1>3 DEF Follows
<1> QED  BY <1>4 DEF st

LEMMA StatusFollows ==
    ASSUME QueueInv, NEW f \in QFile, NEW place \in Ahead
    PROVE  Follows(f, place, status)
BY DEF QueueInv, QueueTypeOK, Follows, Ahead

LEMMA CheckExistsKeeps ==
    ASSUME QueueInv, NEW r \in QRun, NEW f \in QFile, CheckExists(r, f)
    PROVE  QueueInv'
<1>1. /\ runs[r].at \in {"checking", "sending"} /\ f \in At(runs[r], {"dedup"})
      /\ UNCHANGED <<form, auth, unread, pulled>>
      /\ \/ Moved(r, f, "over", Patch({f}, "exists", status))
         \/ Moved(r, f, "preflight", status)
  BY DEF CheckExists
<1>2. f \in At(runs[r], Ahead)
  BY <1>1 DEF At, Ahead
<1>3. Follows(f, "over", Patch({f}, "exists", status))
  <2>1. "exists" \in RowStatus \ {"gone"} /\ "exists" \notin Working
    BY DEF RowStatus, Working, Terminal
  <2> QED  BY <2>1, PatchFollows
<1>4. Follows(f, "preflight", status) /\ {"over", "preflight"} \subseteq Place
  BY StatusFollows DEF Ahead, Place
<1> QED  BY <1>1, <1>2, <1>3, <1>4, MovedKeeps

LEMMA CheckAcceptedKeeps ==
    ASSUME QueueInv, NEW r \in QRun, NEW f \in QFile, CheckAccepted(r, f)
    PROVE  QueueInv'
<1>1. /\ runs[r].at \in {"checking", "sending"} /\ f \in At(runs[r], {"preflight"})
      /\ UNCHANGED <<form, auth, unread, pulled>>
      /\ \/ Moved(r, f, "ready", status)
         \/ Moved(r, f, "over", Patch({f}, "skipped", status))
  BY DEF CheckAccepted
<1>2. f \in At(runs[r], Ahead)
  BY <1>1 DEF At, Ahead
<1>3. Follows(f, "over", Patch({f}, "skipped", status))
  <2>1. "skipped" \in RowStatus \ {"gone"} /\ "skipped" \notin Working
    BY DEF RowStatus, Working, Terminal
  <2> QED  BY <2>1, PatchFollows
<1>4. Follows(f, "ready", status) /\ {"over", "ready"} \subseteq Place
  BY StatusFollows DEF Ahead, Place
<1> QED  BY <1>1, <1>2, <1>3, <1>4, MovedKeeps

LEMMA TakeSlotKeeps ==
    ASSUME QueueInv, NEW r \in QRun, NEW f \in QFile, TakeSlot(r, f)
    PROVE  QueueInv'
<1> DEFINE q == [runs[r] EXCEPT !.where[f] = "put"]
<1>1. /\ runs[r].at \in {"checking", "sending"} /\ f \in At(runs[r], {"ready"})
      /\ UNCHANGED <<form, auth, unread, pulled>>
      /\ status' = Patch({f}, "uploading", status)
  BY DEF TakeSlot
<1>2. runs' = [runs EXCEPT ![r] = q]
  BY DEF TakeSlot, QueueInv, QueueTypeOK
<1>3. f \in At(runs[r], Ahead) /\ "put" \in Place
  BY <1>1 DEF At, Ahead, Place
<1>4. Placed(q, r, f, "put")
  BY <1>1, <1>3, PlacedIs
<1> HIDE DEF q
<1>5. Follows(f, "put", status')
  <2>1. "uploading" \in RowStatus \ {"gone"} /\ "uploading" \in Working
    BY DEF RowStatus, Working
  <2> QED  BY <1>1, <2>1, PatchFollows
<1>6. f \in At(q, Ahead)
  <2>1. runs[r].where \in [runs[r].batch -> Place]
    BY <1>1, HandOf DEF Fits
  <2> QED  BY <1>3, <1>4, <2>1 DEF Placed, At, Ahead
<1> QED  BY <1>1, <1>2, <1>3, <1>4, <1>5, <1>6, RowStays

LEMMA RetryKeeps ==
    ASSUME QueueInv, NEW r \in QRun, NEW f \in QFile, Retry(r, f)
    PROVE  QueueInv'
<1> DEFINE run == runs[r]
           w == [run.where EXCEPT ![f] = "put"]
           t == [run.tries EXCEPT ![f] = run.tries[f] + 1]
           q == [run EXCEPT !.where = w, !.tries = t]
<1>1. /\ run.at = "sending" /\ f \in At(run, {"wait"})
      /\ UNCHANGED <<form, auth, unread, pulled, status>>
  BY DEF Retry
<1>2. runs' = [runs EXCEPT ![r] = q]
  <2>1. runs' = [runs EXCEPT ![r] = [run EXCEPT !.where[f] = "put", !.tries[f] = @ + 1]]
    BY DEF Retry
  <2>2. run \in Run
    BY HandOf
  <2>3. [run EXCEPT !.where[f] = "put", !.tries[f] = @ + 1] = q
    BY <2>2 DEF Run
  <2> QED  BY <2>1, <2>3
<1>3. f \in At(run, Ahead) /\ "put" \in Place /\ "put" \in Ahead
  BY <1>1 DEF At, Ahead, Place
<1>4. /\ run \in Run /\ run.where \in [run.batch -> Place] /\ run.tries \in [run.batch -> Nat]
      /\ run.batch \in Rows
  BY <1>1, HandOf, RunFields DEF Fits
<1>5. w \in [run.batch -> Place] /\ w[f] = "put" /\ f \in run.batch
  BY <1>3, <1>4 DEF At
<1>6. t \in [run.batch -> Nat]
  <2>1. run.tries[f] \in Nat
    BY <1>4, <1>5
  <2>2. \A k \in Nat : k + 1 \in Nat
    BY SMT
  <2> QED  BY <1>4, <2>1, <2>2
<1>7. w \in Table(Place) /\ t \in Table(Nat)
  BY <1>4, <1>5, <1>6 DEF Table
<1> HIDE DEF t
<1>8. /\ q \in Run /\ q.at = run.at /\ q.batch = run.batch /\ q.todo = run.todo
      /\ q.rest = run.rest /\ q.where = w /\ q.tries = t
  <2> HIDE DEF w
  <2> QED  BY <1>4, <1>7 DEF Run
<1> HIDE DEF q
<1>9. Placed(q, r, f, "put")
  BY <1>6, <1>8 DEF Placed
<1>10. f \in At(q, Ahead)
  BY <1>3, <1>5, <1>8 DEF At
<1>11. Follows(f, "put", status')
  <2>1. Follows(f, "put", status)
    BY <1>3, StatusFollows
  <2> QED  BY <1>1, <2>1
<1> QED  BY <1>1, <1>2, <1>3, <1>9, <1>10, <1>11, RowStays

LEMMA AnswerKeeps ==
    ASSUME QueueInv, NEW r \in QRun, NEW f \in QFile, runs[r].at = "sending",
           f \in At(runs[r], {"put"}), NEW code, Answered(r, f, code),
           UNCHANGED <<form, auth, unread, pulled>>
    PROVE  QueueInv'
<1>1. \/ \E s \in {"done", "exists", "error"} : Moved(r, f, "over", Patch({f}, s, status))
      \/ Moved(r, f, "wait", Patch({f}, "retrying", status))
  BY DEF Answered
<1>2. f \in At(runs[r], Ahead) /\ runs[r].at \in {"checking", "sending"}
  BY DEF At, Ahead
<1>3. \A s \in {"done", "exists", "error"} : Follows(f, "over", Patch({f}, s, status))
  <2>1. \A s \in {"done", "exists", "error"} : s \in RowStatus \ {"gone"} /\ s \notin Working
    BY DEF RowStatus, Working, Terminal
  <2> QED  BY <2>1, PatchFollows
<1>4. Follows(f, "wait", Patch({f}, "retrying", status))
  <2>1. "retrying" \in RowStatus \ {"gone"} /\ "retrying" \in Working
    BY DEF RowStatus, Working
  <2> QED  BY <2>1, PatchFollows
<1>5. {"over", "wait"} \subseteq Place
  BY DEF Place
<1> QED  BY <1>1, <1>2, <1>3, <1>4, <1>5, MovedKeeps

-----------------------------------------------------------------------------
(* Rows come and go.                                                       *)

LEMMA DropKeeps ==
    ASSUME QueueInv, NEW files, Drop(files)
    PROVE  QueueInv'
<1>1. /\ status' = [f \in QFile |-> IF f \in files THEN "gone" ELSE status[f]]
      /\ pulled' = (pulled \/ \E r \in QRun : files \cap Claimed(runs[r]) # {})
      /\ UNCHANGED <<form, auth, runs, unread>>
  BY DEF Drop
<1>2. /\ runs \in [QRun -> Run] /\ \A p \in QRun : Fits(runs[p])
      /\ form \in {"upload", "mirror"} /\ auth \in BOOLEAN /\ status \in [QFile -> RowStatus]
      /\ unread \in BOOLEAN /\ pulled \in BOOLEAN
  BY DEF QueueInv, QueueTypeOK
<1>3. "gone" \in RowStatus /\ "gone" \notin Working
  BY DEF RowStatus, Working
<1>4. /\ status' \in [QFile -> RowStatus]
      /\ \A f \in QFile : f \notin files => status'[f] = status[f]
      /\ \A f \in QFile : f \in files => status'[f] = "gone"
  BY <1>1, <1>2, <1>3
<1>5. QueueTypeOK'
  BY <1>1, <1>2, <1>4 DEF QueueTypeOK
<1>6. OneRun'
  <2> SUFFICES ASSUME pulled' = FALSE
               PROVE  /\ \A r, q \in QRun : runs[r] # NoRun /\ runs[q] # NoRun => r = q
                      /\ \A r \in QRun : Lit(runs[r], status') /\ Present(runs[r], status')
    BY <1>1 DEF OneRun, Lit, Present
  <2>1. pulled = FALSE /\ \A r \in QRun : files \cap Claimed(runs[r]) = {}
    BY <1>1, <1>2
  <2>2. \A r, q \in QRun : runs[r] # NoRun /\ runs[q] # NoRun => r = q
    BY <2>1 DEF QueueInv, OneRun
  <2>3. ASSUME NEW r \in QRun
        PROVE  Lit(runs[r], status') /\ Present(runs[r], status')
    <3>1. Lit(runs[r], status) /\ Present(runs[r], status)
      BY <2>1 DEF QueueInv, OneRun
    <3>2. Bright(runs[r]) \subseteq Claimed(runs[r]) /\ Claimed(runs[r]) \subseteq QFile
      BY <1>2, BrightIsClaimed
    <3>3. \A f \in Claimed(runs[r]) : status'[f] = status[f]
      BY <1>4, <2>1, <3>2
    <3> QED  BY <3>1, <3>2, <3>3 DEF Lit, Present
  <2> QED  BY <2>2, <2>3
<1>7. Tended'
  BY <1>1, <1>3, <1>4 DEF QueueInv, Tended
<1> QED  BY <1>5, <1>6, <1>7 DEF QueueInv

LEMMA AddFileKeeps ==
    ASSUME QueueInv, NEW f \in QFile, AddFile(f)
    PROVE  QueueInv'
<1>1. /\ status[f] = "new" /\ status' = [status EXCEPT ![f] = "pending"]
      /\ UNCHANGED <<form, auth, runs, unread, pulled>>
  BY DEF AddFile
<1>2. status \in [QFile -> RowStatus] /\ "pending" \in RowStatus
  BY DEF QueueInv, QueueTypeOK, RowStatus
<1>3. status' \in [QFile -> RowStatus]
  BY <1>1, <1>2
<1>4. \A g \in QFile : \/ status'[g] = status[g]
                       \/ status[g] \notin Working /\ status'[g] \notin Working \cup {"gone"}
  <2>1. "new" \notin Working /\ "pending" \notin Working \cup {"gone"}
    BY DEF Working
  <2> QED  BY <1>1, <1>2, <2>1
<1> QED  BY <1>1, <1>3, <1>4, RowsMove

LEMMA HandleNextKeeps ==
    ASSUME QueueInv, NEW f \in QFile, HandleNext(f)
    PROVE  QueueInv'
<1>1. /\ status' = [g \in QFile |-> IF status[g] = "new" /\ g <= f THEN "pending" ELSE status[g]]
      /\ UNCHANGED <<form, auth, runs, unread, pulled>>
  BY DEF HandleNext
<1>2. status \in [QFile -> RowStatus] /\ "pending" \in RowStatus
  BY DEF QueueInv, QueueTypeOK, RowStatus
<1>3. \A g \in QFile : status'[g] = status[g] \/ (status[g] = "new" /\ status'[g] = "pending")
  BY <1>1
<1>4. status' \in [QFile -> RowStatus]
  BY <1>1, <1>2
<1>5. \A g \in QFile : \/ status'[g] = status[g]
                       \/ status[g] \notin Working /\ status'[g] \notin Working \cup {"gone"}
  <2>1. "new" \notin Working /\ "pending" \notin Working \cup {"gone"}
    BY DEF Working
  <2> QED  BY <1>3, <2>1
<1> QED  BY <1>1, <1>4, <1>5, RowsMove

LEMMA NothingMoves ==
    ASSUME QueueInv, UNCHANGED <<form, auth, status, runs, unread, pulled>>
    PROVE  QueueInv'
<1>1. status' \in [QFile -> RowStatus]
  BY DEF QueueInv, QueueTypeOK
<1> QED  BY <1>1, RowsMove

LEMMA StepKeepsQueueInv ==
    ASSUME QueueInv, [QueueNext]_queueVars
    PROVE  QueueInv'
<1>1. CASE UNCHANGED queueVars
  BY <1>1, NothingMoves DEF queueVars
<1>2. ASSUME NEW f \in QFile, AddFile(f) \/ HandleNext(f) \/ RemoveRow(f)
      PROVE  QueueInv'
  BY <1>2, AddFileKeeps, HandleNextKeeps, DropKeeps DEF RemoveRow
<1>3. CASE ToggleOptimize
  BY <1>3, NothingMoves DEF ToggleOptimize
<1>4. CASE HandleBack
  BY <1>4, DropKeeps DEF HandleBack
<1>5. CASE ClearDone
  BY <1>5, DropKeeps DEF ClearDone
<1>6. ASSUME NEW r \in QRun,
             RunQueue(r) \/ RunMirror(r) \/ Hashed(r) \/ HashFails(r) \/ BatchSigned(r) \/ SignRefused(r)
      PROVE  QueueInv'
  BY <1>6, RunQueueKeeps, RunMirrorKeeps, HashedKeeps, HashFailsKeeps, BatchSignedKeeps, SignRefusedKeeps
<1>7. ASSUME NEW r \in QRun, NEW f \in QFile,
             CheckExists(r, f) \/ CheckAccepted(r, f) \/ TakeSlot(r, f) \/ Retry(r, f)
      PROVE  QueueInv'
  BY <1>7, CheckExistsKeeps, CheckAcceptedKeeps, TakeSlotKeeps, RetryKeeps
<1>8. ASSUME NEW r \in QRun, NEW f \in QFile, UploadOne(r, f)
      PROVE  QueueInv'
  BY <1>8, AnswerKeeps DEF UploadOne
<1>9. ASSUME NEW r \in QRun, NEW f \in QFile, MirrorOne(r, f)
      PROVE  QueueInv'
  BY <1>9, AnswerKeeps DEF MirrorOne
<1> QED  BY <1>1, <1>2, <1>3, <1>4, <1>5, <1>6, <1>7, <1>8, <1>9 DEF QueueNext

\* However many rows there are and however the answers interleave, the forms
\* offer their button only when no run is under way, so that no row is worked on
\* twice, and offer it again when none is left (UploadForm.tsx, MirrorForm.tsx).
THEOREM RowsAreWorkedOnce == QueueSpec => []RowsWorkedOnce
<1>1. QueueInit => QueueInv
  <2> SUFFICES ASSUME QueueInit
               PROVE  QueueInv
    OBVIOUS
  <2>1. /\ form \in {"upload", "mirror"} /\ auth \in BOOLEAN
        /\ unread \in BOOLEAN /\ pulled \in BOOLEAN
        /\ status = [f \in QFile |-> "new"] /\ runs = [r \in QRun |-> NoRun]
    BY DEF QueueInit
  <2>2. Fits(NoRun) /\ NoRun \in Run /\ Claimed(NoRun) = {} /\ Bright(NoRun) = {}
    BY NoRunIs DEF Fits
  <2> HIDE DEF NoRun
  <2>3. "new" \in RowStatus /\ "new" \notin Working
    BY DEF RowStatus, Working
  <2>4. \A r \in QRun : runs[r] = NoRun
    BY <2>1
  <2>5. QueueTypeOK
    BY <2>1, <2>2, <2>3 DEF QueueTypeOK
  <2>6. OneRun
    BY <2>2, <2>4 DEF OneRun, Lit, Present
  <2>7. Tended
    BY <2>1, <2>3 DEF Tended
  <2> QED  BY <2>5, <2>6, <2>7 DEF QueueInv
<1>2. QueueInv /\ [QueueNext]_queueVars => QueueInv'
  BY StepKeepsQueueInv
<1>3. QueueInv => RowsWorkedOnce
  <2> SUFFICES ASSUME QueueInv
               PROVE  RowsWorkedOnce
    OBVIOUS
  <2>1. ASSUME ~pulled, NEW r \in QRun, NEW q \in QRun, r # q
        PROVE  Claimed(runs[r]) \cap Claimed(runs[q]) = {}
    <3>1. pulled = FALSE
      BY <2>1 DEF QueueInv, QueueTypeOK
    <3>2. runs[r] = NoRun \/ runs[q] = NoRun
      BY <2>1, <3>1 DEF QueueInv, OneRun
    <3> QED  BY <3>2, NoRunIs
  <2>2. ASSUME \A r \in QRun : runs[r] = NoRun, ~unread, IsWorking
        PROVE  FALSE
    <3>1. PICK f \in QFile : status[f] \in Working
      BY <2>2 DEF IsWorking
    <3>2. unread = FALSE
      BY <2>2 DEF QueueInv, QueueTypeOK
    <3>3. PICK r \in QRun : f \in Claimed(runs[r])
      BY <3>1, <3>2 DEF QueueInv, Tended
    <3> QED  BY <2>2, <3>3, NoRunIs
  <2> QED  BY <2>1, <2>2 DEF RowsWorkedOnce
<1> QED  BY <1>1, <1>2, <1>3, PTL DEF QueueSpec
=============================================================================
