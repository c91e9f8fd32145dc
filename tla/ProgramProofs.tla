---------------------------- MODULE ProgramProofs ----------------------------
(***************************************************************************)
(* What the self-contained programs promise, for every instance: the       *)
(* guards in front of the proxy's routes, the upload gate and its cache of *)
(* account rows, the notifier, and the signer, the purchase dialog and the *)
(* dashboard of the web client.  Each section has the inductive invariant  *)
(* of one program, a lemma for every action, and the theorem.              *)
(***************************************************************************)
EXTENDS RequestGuards, ProxyEdge, Signer, Purchase, AccountPage, Notifier,
        FiniteSetTheorems, TLAPS

\* Leaves that name no prover are for Zenon.
USE Zenon

-----------------------------------------------------------------------------
(***************************************************************************)
(* RequestGuards.  The first invariant says what the replay cache owes an  *)
(* event that was accepted: an entry, or that the event is too old for     *)
(* good.  The second bounds the age of every yes that is about: in the     *)
(* cache, or in an answer on its way.                                      *)
(***************************************************************************)

\* An entry was made while its event was in the window.
EntryTimely(s) ==
    /\ s.id \in Signed /\ s.at \in Nat /\ s.at <= second
    /\ created[s.id] - s.at <= Skew
Remembered(e) == \E s \in seen : s.id = e
Expired(e) == second - created[e] > Skew

ReplayInv ==
    /\ second \in Nat
    /\ created \in [Signed -> Nat]
    /\ accepted \subseteq Signed
    /\ \A s \in seen : EntryTimely(s)
    /\ \A e \in accepted : Remembered(e) \/ Expired(e)
    /\ replayed = {}

\* The replay cache's sweep forgets an entry only when verifyNip98 refuses its
\* event as too old: twice the skew after the entry is at least one skew after
\* created_at.
LEMMA ForgottenIsExpired ==
    ASSUME ReplayInv, NEW s \in seen, s \notin Kept
    PROVE  Expired(s.id)
<1>1. ~(second - s.at <= 2 * Skew)
  BY DEF Kept
<1>2. created[s.id] \in Nat /\ created[s.id] - s.at <= Skew /\ s.at \in Nat /\ second \in Nat
  BY DEF ReplayInv, EntryTimely
<1>3. Skew \in Nat
  BY GuardAssumption DEF GuardAssumption
<1> QED  BY <1>1, <1>2, <1>3, SMT DEF Expired

\* After the sweep, an accepted event has its entry still or is too old.
LEMMA SweepKeepsDebt ==
    ASSUME ReplayInv, NEW e \in accepted
    PROVE  (\E s \in Kept : s.id = e) \/ Expired(e)
<1>1. CASE Expired(e)
  BY <1>1
<1>2. CASE Remembered(e)
  <2>1. PICK s \in seen : s.id = e
    BY <1>2 DEF Remembered
  <2>2. s \in Kept \/ Expired(s.id)
    BY ForgottenIsExpired
  <2> QED  BY <2>1, <2>2
<1> QED  BY <1>1, <1>2 DEF ReplayInv

\* What a request that is presented does to the replay cache and its history.
LEMMA PresentKeepsReplayInv ==
    ASSUME ReplayInv, NEW r \in Guarded, NEW e \in Signed, Present(r, e)
    PROVE  ReplayInv'
<1> USE GuardAssumption DEF GuardAssumption
<1>1. UNCHANGED <<second, created>>
  BY DEF Present
<1>2. Kept \subseteq seen
  BY DEF Kept
<1>3. CASE UNCHANGED <<seen, accepted, replayed>>
  BY <1>1, <1>3 DEF ReplayInv, EntryTimely, Remembered, Expired
<1>4. CASE seen' = Kept /\ UNCHANGED <<accepted, replayed>>
  <2>1. \A s \in seen' : EntryTimely(s)'
    BY <1>1, <1>2, <1>4 DEF ReplayInv, EntryTimely
  <2>2. \A f \in accepted' : (Remembered(f) \/ Expired(f))'
    BY <1>1, <1>4, SweepKeepsDebt DEF Remembered, Expired
  <2> QED  BY <1>1, <1>4, <2>1, <2>2 DEF ReplayInv
<1>5. CASE /\ InWindow(e) /\ Fresh(e)
           /\ seen' = Kept \cup {[id |-> e, at |-> second]}
           /\ replayed' = replayed \cup ({e} \cap accepted)
           /\ accepted' = accepted \cup {e}
  <2>1. e \notin accepted
    <3>1. ~Expired(e)
      BY <1>5, SMT DEF InWindow, Expired, ReplayInv
    <3>2. ~ \E s \in Kept : s.id = e
      BY <1>5 DEF Fresh
    <3> QED  BY <3>1, <3>2, SweepKeepsDebt
  <2>2. replayed' = {}
    BY <1>5, <2>1 DEF ReplayInv
  <2>3. \A s \in seen' : EntryTimely(s)'
    BY <1>1, <1>2, <1>5, SMT DEF ReplayInv, EntryTimely, InWindow
  <2>4. \A f \in accepted' : (Remembered(f) \/ Expired(f))'
    <3>1. Remembered(e)'
      <4>1. [id |-> e, at |-> second] \in seen'
        BY <1>5
      <4>2. [id |-> e, at |-> second].id = e
        OBVIOUS
      <4> QED  BY <4>1, <4>2 DEF Remembered
    <3>2. ASSUME NEW f \in accepted  PROVE (Remembered(f) \/ Expired(f))'
      BY <1>1, <1>5, SweepKeepsDebt DEF Remembered, Expired
    <3> QED  BY <1>5, <3>1, <3>2
  <2> QED  BY <1>1, <1>5, <2>2, <2>3, <2>4 DEF ReplayInv
<1> QED  BY <1>3, <1>4, <1>5 DEF Present

\* Time only makes events older; nothing else touches the cache.
LEMMA StepKeepsReplayInv ==
    ASSUME ReplayInv, [GuardNext]_guardVars
    PROVE  ReplayInv'
<1> USE GuardAssumption DEF GuardAssumption
<1>1. CASE \E r \in Guarded, e \in Signed : Present(r, e)
  BY <1>1, PresentKeepsReplayInv
<1>2. CASE UNCHANGED <<second, created, seen, accepted, replayed>>
  BY <1>2 DEF ReplayInv, EntryTimely, Remembered, Expired
<1>3. CASE PassTime
  <2>1. second' = second + 1 /\ UNCHANGED <<created, seen, accepted, replayed>>
    BY <1>3 DEF PassTime
  <2>2. \A s \in seen' : EntryTimely(s)'
    BY <2>1, SMT DEF ReplayInv, EntryTimely
  <2>3. \A e \in accepted' : (Remembered(e) \/ Expired(e))'
    BY <2>1, SMT DEF ReplayInv, Remembered, Expired
  <2> QED  BY <2>1, <2>2, <2>3, SMT DEF ReplayInv
<1>4. CASE \E r \in Guarded : LookUpRole(r) \/ RoleAnswered(r) \/ RoleUnknown(r)
  BY <1>2, <1>4 DEF LookUpRole, RoleAnswered, RoleUnknown
<1>5. CASE SetRole
  BY <1>2, <1>5 DEF SetRole
<1>6. CASE UNCHANGED guardVars
  BY <1>2, <1>6 DEF guardVars
<1> QED  BY <1>1, <1>3, <1>4, <1>5, <1>6 DEF GuardNext

\* verifyNip98 with its replay cache accepts an event at most once, whatever
\* the skew it is configured with.
THEOREM EventsAcceptedOnce == GuardSpec => []AcceptedOnce
<1>1. GuardInit => ReplayInv
  BY GuardAssumption, SMT DEF GuardInit, ReplayInv, GuardAssumption
<1>2. ReplayInv /\ [GuardNext]_guardVars => ReplayInv'
  BY StepKeepsReplayInv
<1>3. ReplayInv => AcceptedOnce
  BY DEF ReplayInv, AcceptedOnce
<1> QED  BY <1>1, <1>2, <1>3, PTL DEF GuardSpec

-----------------------------------------------------------------------------
(* The admin gate.                                                         *)

Check == [at : {"idle", "asking", "answered"}, held : BOOLEAN, until : Nat]

\* A check under way began at most its timeout ago; a yes it carries was true
\* since it began.
CheckRecent(g) ==
    /\ g.at # "idle" /\ gate = "admin" => second <= g.until
    /\ g.at # "idle" => g.until - AdminTimeout <= second
    /\ g.at = "answered" /\ g.held = TRUE => g.until - AdminTimeout <= lastHeld

RoleInv ==
    /\ second \in Nat /\ lastHeld \in Nat /\ lastHeld <= second
    /\ role \in BOOLEAN /\ (role = TRUE => lastHeld = second)
    /\ known \in [admin : BOOLEAN, at : Int]
    /\ gate = "admin" /\ known.admin = TRUE => known.at - AdminTimeout <= lastHeld
    /\ guard \in [Guarded -> Check]
    /\ \A r \in Guarded : CheckRecent(guard[r])
    /\ late = FALSE

\* A signer said to hold the role, who held it a moment ago, does not make the
\* handler late.
LEMMA RunsInTime ==
    ASSUME NEW held \in BOOLEAN, late = FALSE, RunIf(held),
           held = TRUE /\ gate = "admin" => ~(second - lastHeld >= AdminTTL + AdminTimeout)
    PROVE  late' = FALSE
BY DEF RunIf

LEMMA PresentKeepsRole ==
    ASSUME RoleInv, NEW r \in Guarded, NEW e \in Signed, Present(r, e)
    PROVE  RoleInv'
<1>1. UNCHANGED <<second, gate, role, lastHeld, known>>
  BY DEF Present
<1>2. CASE UNCHANGED <<guard, late>>
  BY <1>1, <1>2 DEF RoleInv, CheckRecent
<1>3. CASE gate = "admin" /\ Valid /\ RunIf(known.admin) /\ UNCHANGED guard
  <2>1. known.admin \in BOOLEAN /\ late = FALSE
    BY DEF RoleInv
  <2>2. known.admin = TRUE /\ gate = "admin" => ~(second - lastHeld >= AdminTTL + AdminTimeout)
    BY <1>3, GuardAssumption, SMT DEF RoleInv, Valid, GuardAssumption
  <2>3. late' = FALSE
    BY <1>3, <2>1, <2>2, RunsInTime
  <2> QED  BY <1>1, <1>3, <2>3 DEF RoleInv, CheckRecent
<1>4. CASE /\ guard' = [guard EXCEPT ![r] = [NoGuard EXCEPT !.at = "asking",
                                                  !.until = second + AdminTimeout]]
           /\ UNCHANGED late
  <2> DEFINE g == [NoGuard EXCEPT !.at = "asking", !.until = second + AdminTimeout]
  <2>1. second \in Nat /\ AdminTimeout \in Nat
    BY GuardAssumption DEF RoleInv, GuardAssumption
  <2>2. NoGuard \in [at : {"idle"}, held : BOOLEAN, until : {0}]
    BY DEF NoGuard
  <2>3. g \in Check /\ g.at = "asking" /\ g.until = second + AdminTimeout
    <3>1. g \in [at : {"asking"}, held : BOOLEAN, until : {second + AdminTimeout}]
      BY <2>2
    <3> HIDE DEF g
    <3> QED  BY <3>1, <2>1, SMT DEF Check
  <2>4. guard' = [guard EXCEPT ![r] = g]
    BY <1>4
  <2> HIDE DEF g
  <2>5. CheckRecent(g)
    BY <2>1, <2>3, SMT DEF CheckRecent
  <2>6. guard' \in [Guarded -> Check] /\ \A q \in Guarded : CheckRecent(guard'[q])
    BY <2>3, <2>4, <2>5 DEF RoleInv
  <2> QED  BY <1>1, <1>4, <2>6 DEF RoleInv, CheckRecent
<1> QED  BY <1>2, <1>3, <1>4 DEF Present

LEMMA LookUpRoleKeepsRole ==
    ASSUME RoleInv, NEW r \in Guarded, LookUpRole(r)
    PROVE  RoleInv'
<1> DEFINE g == [guard[r] EXCEPT !.at = "answered", !.held = role]
<1>1. UNCHANGED <<second, gate, role, lastHeld, known, late>> /\ guard[r].at = "asking"
  BY DEF LookUpRole
<1>2. guard[r] \in Check /\ role \in BOOLEAN
  BY DEF RoleInv
<1>3. g \in Check /\ g.at = "answered" /\ g.held = role /\ g.until = guard[r].until
  BY <1>2 DEF Check
<1>4. guard' = [guard EXCEPT ![r] = g]
  BY <1>2 DEF LookUpRole, RoleInv, Check
<1> HIDE DEF g
<1>5. CheckRecent(g)
  BY <1>1, <1>3 DEF RoleInv, CheckRecent
<1>6. guard' \in [Guarded -> Check] /\ \A q \in Guarded : CheckRecent(guard'[q])
  BY <1>3, <1>4, <1>5 DEF RoleInv
<1> QED  BY <1>1, <1>6 DEF RoleInv, CheckRecent

LEMMA CheckEndsKeepsRole ==
    ASSUME RoleInv, NEW r \in Guarded, guard' = [guard EXCEPT ![r] = NoGuard],
           UNCHANGED <<second, gate, role, lastHeld>>, late' = FALSE,
           known' \in [admin : BOOLEAN, at : Int],
           gate = "admin" /\ known'.admin = TRUE => known'.at - AdminTimeout <= lastHeld
    PROVE  RoleInv'
<1>1. NoGuard \in Check /\ CheckRecent(NoGuard)
  BY DEF NoGuard, Check, CheckRecent
<1>2. guard' \in [Guarded -> Check] /\ \A q \in Guarded : CheckRecent(guard'[q])
  BY <1>1 DEF RoleInv
<1> QED  BY <1>2 DEF RoleInv, CheckRecent

LEMMA RoleAnsweredKeepsRole ==
    ASSUME RoleInv, NEW r \in Guarded, RoleAnswered(r)
    PROVE  RoleInv'
<1> DEFINE g == guard[r]
<1>1. /\ g.at = "answered" /\ UNCHANGED <<second, gate, role, lastHeld>>
      /\ RunIf(g.held) /\ guard' = [guard EXCEPT ![r] = NoGuard]
  BY DEF RoleAnswered
<1>2. g \in Check /\ g.held \in BOOLEAN /\ g.until \in Nat /\ CheckRecent(g)
  BY DEF RoleInv, Check
<1>3. second \in Nat /\ lastHeld \in Nat /\ AdminTimeout \in Nat /\ AdminTTL \in Nat \ {0}
  BY GuardAssumption DEF RoleInv, GuardAssumption
<1>4. gate = "admin" /\ g.held = TRUE => second - AdminTimeout <= lastHeld
  BY <1>1, <1>2, <1>3, SMT DEF CheckRecent
<1>5. late' = FALSE
  <2>1. g.held = TRUE /\ gate = "admin" => ~(second - lastHeld >= AdminTTL + AdminTimeout)
    BY <1>3, <1>4, SMT
  <2> HIDE DEF g
  <2> QED  BY <2>1, <1>1, <1>2, RunsInTime DEF RoleInv
<1>6. known' = IF gate = "admin" THEN [admin |-> g.held, at |-> second] ELSE known
  BY DEF RoleAnswered
<1>7. known' \in [admin : BOOLEAN, at : Int]
  BY <1>2, <1>3, <1>6, SMT DEF RoleInv
<1>8. gate = "admin" => known'.admin = g.held /\ known'.at = second
  BY <1>6
<1>9. gate = "admin" /\ known'.admin = TRUE => known'.at - AdminTimeout <= lastHeld
  BY <1>4, <1>8
<1> QED  BY <1>1, <1>5, <1>7, <1>9, CheckEndsKeepsRole

LEMMA StepKeepsRoleInv ==
    ASSUME RoleInv, [GuardNext]_guardVars
    PROVE  RoleInv'
<1>1. ASSUME NEW r \in Guarded, RoleUnknown(r)
      PROVE  RoleInv'
  BY <1>1, CheckEndsKeepsRole DEF RoleUnknown, RoleInv
<1>2. CASE SetRole
  <2>1. /\ role' = ~role /\ lastHeld' = second
        /\ UNCHANGED <<second, gate, known, guard, late>>
    BY <1>2 DEF SetRole
  <2>2. role' \in BOOLEAN
    BY <2>1
  <2>3. lastHeld <= lastHeld' /\ lastHeld' \in Nat
    BY <2>1 DEF RoleInv
  <2>4. \A r \in Guarded : CheckRecent(guard[r])'
    BY <2>1, <2>3, GuardAssumption DEF RoleInv, CheckRecent, Check, GuardAssumption
  <2>5. gate' = "admin" /\ known'.admin = TRUE => known'.at - AdminTimeout <= lastHeld'
    BY <2>1, <2>3, GuardAssumption, SMT DEF RoleInv, GuardAssumption
  <2> QED  BY <2>1, <2>2, <2>3, <2>4, <2>5, SMT DEF RoleInv
<1>3. CASE PassTime
  <2>1. /\ second' = second + 1 /\ lastHeld' = IF role THEN second + 1 ELSE lastHeld
        /\ \A r \in Guarded : gate = "admin" /\ guard[r].at # "idle" => second < guard[r].until
        /\ UNCHANGED <<gate, role, known, guard, late>>
    BY <1>3 DEF PassTime
  <2>2. /\ lastHeld <= lastHeld' /\ lastHeld' \in Nat /\ lastHeld' <= second'
        /\ second' \in Nat /\ (role' = TRUE => lastHeld' = second')
    BY <2>1, SMT DEF RoleInv
  <2>3. \A r \in Guarded : CheckRecent(guard[r])'
    BY <2>1, <2>2, GuardAssumption, SMT DEF RoleInv, CheckRecent, Check, GuardAssumption
  <2>4. gate' = "admin" /\ known'.admin = TRUE => known'.at - AdminTimeout <= lastHeld'
    BY <2>1, <2>2, GuardAssumption, SMT DEF RoleInv, GuardAssumption
  <2> QED  BY <2>1, <2>2, <2>3, <2>4 DEF RoleInv
<1>4. CASE UNCHANGED guardVars
  BY <1>4 DEF guardVars, RoleInv, CheckRecent
<1> QED  BY <1>1, <1>2, <1>3, <1>4, PresentKeepsRole, LookUpRoleKeepsRole,
            RoleAnsweredKeepsRole DEF GuardNext

\* However the checks of any number of requests overlap, and whenever the role
\* is given or taken, an admin handler runs only for a signer who held it less
\* than a cache lifetime and a check timeout ago (createAdminIdentity).
THEOREM AdminsWereAdmins == GuardSpec => []RoleRecent
<1>1. GuardInit => RoleInv
  <2> SUFFICES ASSUME GuardInit
               PROVE  RoleInv
    OBVIOUS
  <2>1. NoGuard \in Check /\ CheckRecent(NoGuard)
    BY DEF NoGuard, Check, CheckRecent
  <2>2. guard \in [Guarded -> Check] /\ \A r \in Guarded : CheckRecent(guard[r])
    BY <2>1 DEF GuardInit
  <2>3. known \in [admin : BOOLEAN, at : Int] /\ known.admin = FALSE
    BY GuardAssumption, SMT DEF GuardInit, GuardAssumption
  <2> QED  BY <2>2, <2>3, SMT DEF GuardInit, RoleInv
<1>2. RoleInv /\ [GuardNext]_guardVars => RoleInv'
  BY StepKeepsRoleInv
<1>3. RoleInv => RoleRecent
  BY DEF RoleInv, RoleRecent
<1> QED  BY <1>1, <1>2, <1>3, PTL DEF GuardSpec

-----------------------------------------------------------------------------
(***************************************************************************)
(* ProxyEdge.  Every step of the edge concerns one request: the invariant  *)
(* says which of them the counter holds, and that a slot which is not an   *)
(* upload behind the gate is none of them.                                 *)
(***************************************************************************)

\* Shape of a slot, whatever its fields hold.
Shaped(c) ==
    c \in [at : {c.at}, kind : {c.kind}, npub : {c.npub}, hash : {c.hash},
           seen : {c.seen}, from : {c.from}]

\* Where a slot stands that has no upload in it.
Outside == {"idle", "wrote", "owners", "serve", "refuse"}

Sound(c) == Shaped(c) /\ (c.at \in Outside => c.kind # "body")
Holds(c) == c.kind = "body" \/ c.at = "receive"
Held == {r \in Request : Holds(call[r])}

EdgeInv ==
    /\ call = [r \in Request |-> call[r]]
    /\ \A r \in Request : Sound(call[r])
    /\ inflight = Cardinality(Held)
    /\ inflight <= MaxInflight

\* A step of request r: its slot becomes c, and the counter follows what the
\* slot holds.
Moves(r, c) ==
    /\ Sound(c)
    /\ call' = [call EXCEPT ![r] = c]
    /\ \/ /\ Holds(c) <=> Holds(call[r])
          /\ inflight' = inflight
       \/ /\ Holds(c) /\ ~Holds(call[r])
          /\ inflight' = inflight + 1 /\ inflight + 1 <= MaxInflight
       \/ /\ ~Holds(c) /\ Holds(call[r])
          /\ inflight' = inflight - 1

LEMMA MoveKeepsBudget ==
    ASSUME EdgeInv, NEW r \in Request, NEW c, Moves(r, c)
    PROVE  EdgeInv'
<1>1. IsFiniteSet(Held) /\ Cardinality(Held) \in Nat
  <2>1. IsFiniteSet(Request) /\ Held \in SUBSET Request
    BY EdgeAssumption DEF EdgeAssumption, Held
  <2>2. IsFiniteSet(Held)
    BY <2>1, FS_Subset
  <2> QED  BY <2>2, FS_CardinalityType
<1>2. call' = [q \in Request |-> call'[q]] /\ call'[r] = c
      /\ \A q \in Request \ {r} : call'[q] = call[q]
  BY DEF Moves, EdgeInv
<1>3. \A q \in Request : Sound(call'[q])
  BY <1>2 DEF Moves, EdgeInv
<1>4. Held' = IF Holds(c) THEN Held \cup {r} ELSE Held \ {r}
  BY <1>2 DEF Held
<1>5. r \in Held <=> Holds(call[r])
  BY DEF Held
<1>6. inflight = Cardinality(Held) /\ inflight <= MaxInflight /\ MaxInflight \in Nat
  BY EdgeAssumption DEF EdgeInv, EdgeAssumption
<1>7. /\ Cardinality(Held \cup {r}) = IF r \in Held THEN Cardinality(Held)
                                      ELSE Cardinality(Held) + 1
      /\ Cardinality(Held \ {r}) = IF r \in Held THEN Cardinality(Held) - 1
                                   ELSE Cardinality(Held)
  BY <1>1, FS_AddElement, FS_RemoveElement
<1>8. inflight' = Cardinality(Held') /\ inflight' <= MaxInflight
  <2>1. CASE (Holds(c) <=> Holds(call[r])) /\ inflight' = inflight
    BY <2>1, <1>4, <1>5, <1>6, <1>7
  <2>2. CASE Holds(c) /\ ~Holds(call[r]) /\ inflight' = inflight + 1 /\ inflight + 1 <= MaxInflight
    BY <2>2, <1>4, <1>5, <1>6, <1>7
  <2>3. CASE ~Holds(c) /\ Holds(call[r]) /\ inflight' = inflight - 1
    BY <2>3, <1>1, <1>4, <1>5, <1>6, <1>7, SMT
  <2> QED  BY <2>1, <2>2, <2>3 DEF Moves
<1> QED  BY <1>2, <1>3, <1>8 DEF EdgeInv

\* d is a slot at the given point with the kind of c.
At(d, c, at) == Shaped(d) /\ d.at = at /\ d.kind = c.kind

\* Changing a slot's fields keeps its shape.
LEMMA ShapeKept ==
    ASSUME NEW c, Shaped(c), NEW at, NEW saw, NEW from, NEW kind
    PROVE  /\ At([c EXCEPT !.at = at, !.seen = saw, !.from = from], c, at)
           /\ At([c EXCEPT !.at = at, !.seen = saw], c, at)
           /\ At([c EXCEPT !.at = at, !.from = from], c, at)
           /\ At([c EXCEPT !.at = at], c, at)
           /\ Shaped([c EXCEPT !.kind = kind]) /\ [c EXCEPT !.kind = kind].kind = kind
<1>1. At([c EXCEPT !.at = at, !.seen = saw, !.from = from], c, at)
  BY DEF Shaped, At
<1>2. At([c EXCEPT !.at = at, !.seen = saw], c, at)
  BY DEF Shaped, At
<1>3. At([c EXCEPT !.at = at, !.from = from], c, at)
  BY DEF Shaped, At
<1>4. At([c EXCEPT !.at = at], c, at)
  BY DEF Shaped, At
<1>5. Shaped([c EXCEPT !.kind = kind]) /\ [c EXCEPT !.kind = kind].kind = kind
  BY DEF Shaped
<1> QED  BY <1>1, <1>2, <1>3, <1>4, <1>5

\* Only a PUT that the budget has room for is let through the gate.
LEMMA VerdictLetsIn ==
    ASSUME NEW kind, NEW s
    PROVE  /\ Verdict(kind, s) \in {"shown", "overquota", "busy", "receive", "store"}
           /\ Verdict(kind, s) = "receive" => kind = "put" /\ ~(inflight + 1 > MaxInflight)
<1>1. CASE kind = "storage"
  BY <1>1 DEF Verdict
<1>2. CASE kind # "storage" /\ ~Fits(s)
  BY <1>2 DEF Verdict
<1>3. CASE kind = "head" /\ Fits(s)
  BY <1>3 DEF Verdict
<1>4. CASE kind = "put" /\ Fits(s)
  BY <1>4 DEF Verdict
<1>5. CASE kind \notin {"storage", "head", "put"} /\ Fits(s)
  BY <1>5 DEF Verdict
<1> QED  BY <1>1, <1>2, <1>3, <1>4, <1>5

\* A request that goes on with a row keeps what it holds, or is let in.
LEMMA EnterMoves ==
    ASSUME EdgeInv, NEW r \in Request, NEW c, NEW s, NEW cached,
           Shaped(c), c.kind = "body" <=> Holds(call[r]), Enter(r, c, s, cached)
    PROVE  EdgeInv'
<1> DEFINE v == IF Permits(s) THEN Verdict(c.kind, s) ELSE "reread"
           d == [c EXCEPT !.at = v, !.seen = NULL, !.from = NULL]
<1>1. call' = [call EXCEPT ![r] = d] /\ inflight' = IF v = "receive" THEN inflight + 1 ELSE inflight
  BY DEF Enter
<1>2. /\ v \in {"shown", "overquota", "busy", "receive", "store", "reread"}
      /\ v = "receive" => c.kind = "put" /\ ~(inflight + 1 > MaxInflight)
  BY VerdictLetsIn
<1> HIDE DEF v
<1>3. Shaped(d) /\ d.at = v /\ d.kind = c.kind
  <2>1. At(d, c, v)
    BY ShapeKept
  <2> QED  BY <2>1 DEF At
<1> HIDE DEF d
<1>4. inflight \in Nat /\ MaxInflight \in Nat
  <2>1. IsFiniteSet(Request) /\ Held \in SUBSET Request /\ MaxInflight \in Nat
    BY EdgeAssumption DEF EdgeAssumption, Held
  <2>2. IsFiniteSet(Held)
    BY <2>1, FS_Subset
  <2> QED  BY <2>1, <2>2, FS_CardinalityType DEF EdgeInv
<1>5. Sound(d)
  BY <1>2, <1>3 DEF Sound, Outside
<1>6. CASE v = "receive"
  <2>1. Holds(d) /\ ~Holds(call[r]) /\ inflight' = inflight + 1 /\ inflight + 1 <= MaxInflight
    BY <1>1, <1>2, <1>3, <1>4, <1>6, SMT DEF Holds
  <2> QED  BY <2>1, <1>1, <1>5, MoveKeepsBudget DEF Moves
<1>7. CASE v # "receive"
  <2>1. (Holds(d) <=> Holds(call[r])) /\ inflight' = inflight
    BY <1>1, <1>3, <1>7 DEF Holds
  <2> QED  BY <2>1, <1>1, <1>5, MoveKeepsBudget DEF Moves
<1> QED  BY <1>6, <1>7

\* accessCache.get, hit or miss.
LEMMA LookupMoves ==
    ASSUME EdgeInv, NEW r \in Request, NEW c,
           Shaped(c), c.kind = "body" <=> Holds(call[r]), Lookup(r, c)
    PROVE  EdgeInv'
<1>1. CASE CacheHit(c.npub)
  <2>1. Enter(r, c, cache[c.npub].user, cache)
    BY <1>1 DEF Lookup
  <2> QED  BY <2>1, EnterMoves
<1>2. CASE ~CacheHit(c.npub)
  <2> DEFINE d == [c EXCEPT !.at = "read", !.from = now]
  <2>1. call' = [call EXCEPT ![r] = d] /\ inflight' = inflight
    BY <1>2 DEF Lookup
  <2>2. Shaped(d) /\ d.at = "read" /\ d.kind = c.kind
    <3>1. At(d, c, "read")
      BY ShapeKept
    <3> QED  BY <3>1 DEF At
  <2> HIDE DEF d
  <2>3. Sound(d) /\ (Holds(d) <=> Holds(call[r]))
    BY <2>2 DEF Sound, Outside, Holds
  <2> QED  BY <2>1, <2>3, MoveKeepsBudget DEF Moves
<1> QED  BY <1>1, <1>2

\* A step that only moves a slot on, neither into the gate nor out of it.
LEMMA GotoMoves ==
    ASSUME EdgeInv, NEW r \in Request, NEW at, NEW saw,
           call' = [call EXCEPT ![r] = [call[r] EXCEPT !.at = at, !.seen = saw]],
           inflight' = inflight, at # "receive", call[r].at # "receive",
           at \in Outside => call[r].at \in Outside
    PROVE  EdgeInv'
<1> DEFINE d == [call[r] EXCEPT !.at = at, !.seen = saw]
<1>1. Sound(call[r])
  BY DEF EdgeInv
<1>2. Shaped(d) /\ d.at = at /\ d.kind = call[r].kind
  <2>1. Shaped(call[r])
    BY <1>1 DEF Sound
  <2>2. At(d, call[r], at)
    BY <2>1, ShapeKept
  <2> QED  BY <2>2 DEF At
<1>3. call' = [call EXCEPT ![r] = d]
  OBVIOUS
<1> HIDE DEF d
<1>4. Sound(d) /\ (Holds(d) <=> Holds(call[r]))
  BY <1>1, <1>2 DEF Sound, Holds
<1> QED  BY <1>3, <1>4, MoveKeepsBudget DEF Moves

LEMMA StepOn ==
    ASSUME EdgeInv, NEW r \in Request, NEW at \in {"denied", "created", "answered"},
           Goto(r, at), inflight' = inflight, call[r].at # "receive"
    PROVE  EdgeInv'
<1> DEFINE d == [call[r] EXCEPT !.at = at]
<1>1. Sound(call[r]) /\ Shaped(call[r])
  BY DEF EdgeInv, Sound
<1>2. Shaped(d) /\ d.at = at /\ d.kind = call[r].kind
  <2>1. At(d, call[r], at)
    BY <1>1, ShapeKept
  <2> QED  BY <2>1 DEF At
<1>3. call' = [call EXCEPT ![r] = d]
  BY DEF Goto, EdgeInv
<1> HIDE DEF d
<1>4. Sound(d) /\ (Holds(d) <=> Holds(call[r]))
  BY <1>2 DEF Sound, Holds, Outside
<1> QED  BY <1>3, <1>4, MoveKeepsBudget DEF Moves

\* A slot that is emptied, or starts from empty, outside the gate.
LEMMA OutsideMoves ==
    ASSUME EdgeInv, NEW r \in Request, NEW c, Shaped(c), ~Holds(c),
           call' = [call EXCEPT ![r] = c], ~Holds(call[r]), inflight' = inflight
    PROVE  EdgeInv'
<1>1. Sound(c)
  BY DEF Sound, Holds
<1> QED  BY <1>1, MoveKeepsBudget DEF Moves

LEMMA OutsideHoldsNothing ==
    ASSUME EdgeInv, NEW r \in Request, call[r].at \in Outside
    PROVE  ~Holds(call[r])
BY DEF EdgeInv, Sound, Holds, Outside

LEMMA NoCallShape ==
    ASSUME NEW kind, NEW npub, NEW hash
    PROVE  /\ Shaped(NoCall) /\ ~Holds(NoCall)
           /\ LET c == [NoCall EXCEPT !.kind = kind, !.npub = npub, !.hash = hash]
              IN  Shaped(c) /\ c.kind = kind
<1>1. Shaped(NoCall) /\ NoCall.at = "idle" /\ NoCall.kind = NULL
  BY DEF Shaped, NoCall
<1>2. ~Holds(NoCall)
  BY <1>1, EdgeAssumption, ZenonT(30) DEF Holds, EdgeAssumption
<1>3. LET c == [NoCall EXCEPT !.kind = kind, !.npub = npub, !.hash = hash]
      IN  Shaped(c) /\ c.kind = kind
  BY <1>1 DEF Shaped
<1> QED  BY <1>1, <1>2, <1>3

-----------------------------------------------------------------------------
LEMMA SubmitKeeps ==
    ASSUME EdgeInv, NEW r \in Request, NEW kind \in {"put", "head", "storage"},
           NEW n, NEW h, Submit(r, kind, n, h)
    PROVE  EdgeInv'
<1> DEFINE c == [NoCall EXCEPT !.kind = kind, !.npub = n, !.hash = h]
<1>1. Shaped(c) /\ c.kind = kind
  BY NoCallShape
<1>2. call[r].at = "idle" /\ Lookup(r, c)
  BY DEF Submit
<1> HIDE DEF c
<1>3. ~Holds(call[r])
  BY <1>2, OutsideHoldsNothing DEF Outside
<1> QED  BY <1>1, <1>2, <1>3, LookupMoves

LEMMA ProxyKeeps ==
    ASSUME EdgeInv, NEW r \in Request, Proxy(r)
    PROVE  EdgeInv'
<1> USE DEF Outside
<1>1. Sound(call[r]) /\ Shaped(call[r])
  BY DEF EdgeInv, Sound
<1>2. CASE ReadRow(r)
  <2>1. /\ call[r].at = "read" /\ inflight' = inflight
        /\ call' = [call EXCEPT ![r] = [call[r] EXCEPT !.at = "arrived",
                                                       !.seen = GetUser(call[r].npub)]]
    BY <1>2 DEF ReadRow, Saw, EdgeInv
  <2> QED  BY <2>1, GotoMoves
<1>3. CASE Arrived(r)
  <2>1. PICK s, cached : Enter(r, call[r], s, cached)
    BY <1>3 DEF Arrived
  <2>2. call[r].kind = "body" <=> Holds(call[r])
    BY <1>3 DEF Arrived, Holds
  <2> QED  BY <2>1, <2>2, <1>1, EnterMoves
<1>4. CASE Reread(r)
  <2>1. CASE Enter(r, call[r], GetUser(call[r].npub), cache)
    <3>1. call[r].kind = "body" <=> Holds(call[r])
      BY <1>4 DEF Reread, Holds
    <3> QED  BY <2>1, <3>1, <1>1, EnterMoves
  <2>2. CASE Goto(r, "denied") /\ inflight' = inflight
    BY <1>4, <2>2, StepOn DEF Reread
  <2> QED  BY <1>4, <2>1, <2>2 DEF Reread
<1>5. CASE Receive(r)
  <2> DEFINE c == [call[r] EXCEPT !.kind = "body"]
  <2>1. Shaped(c) /\ c.kind = "body"
    BY <1>1, ShapeKept
  <2>2. Lookup(r, c) /\ Holds(call[r])
    BY <1>5 DEF Receive, Holds
  <2> HIDE DEF c
  <2> QED  BY <2>1, <2>2, LookupMoves
<1>6. CASE CreateRow(r)
  BY <1>6, StepOn DEF CreateRow
<1>7. CASE Created(r)
  BY <1>7, StepOn DEF Created
<1>8. CASE End(r)
  <2>1. call' = [call EXCEPT ![r] = NoCall]
    BY <1>8 DEF End, Done
  <2>2. Sound(NoCall) /\ ~Holds(NoCall)
    BY NoCallShape DEF Sound, Holds
  <2>3. inflight' = IF Holds(call[r]) THEN inflight - 1 ELSE inflight
    BY <1>8 DEF End, Counted, Holds
  <2> QED  BY <2>1, <2>2, <2>3, MoveKeepsBudget DEF Moves
<1>9. CASE Wrote(r) \/ Served(r)
  <2>1. call[r].at \in Outside /\ call' = [call EXCEPT ![r] = NoCall] /\ inflight' = inflight
    BY <1>9 DEF Wrote, Served, Done
  <2> QED  BY <2>1, NoCallShape, OutsideHoldsNothing, OutsideMoves
<1>10. CASE Readable(r)
  <2>1. PICK at \in {"serve", "refuse"} :
            call' = [call EXCEPT ![r] = [call[r] EXCEPT !.at = at, !.seen = NULL]]
    BY <1>10 DEF Readable, Saw, EdgeInv
  <2>2. call[r].at = "owners" /\ inflight' = inflight
    BY <1>10 DEF Readable
  <2> QED  BY <2>1, <2>2, GotoMoves
<1> QED  BY <1>2, <1>3, <1>4, <1>5, <1>6, <1>7, <1>8, <1>9, <1>10 DEF Proxy

LEMMA ArriveKeeps ==
    ASSUME EdgeInv, NEW r \in Request, Arrive(r)
    PROVE  EdgeInv'
<1>1. ASSUME NEW c, Start(r, c), Shaped(c), c.kind # "body", c.at # "receive", inflight' = inflight
      PROVE  EdgeInv'
  <2>1. call[r].at = "idle" /\ call' = [call EXCEPT ![r] = c]
    BY <1>1 DEF Start
  <2>2. ~Holds(call[r]) /\ ~Holds(c)
    BY <2>1, <1>1, OutsideHoldsNothing DEF Outside, Holds
  <2> QED  BY <2>1, <2>2, <1>1, OutsideMoves
<1>2. ASSUME NEW n \in Npub, NEW h \in Hash, Submit(r, "put", n, h)
      PROVE  EdgeInv'
  BY <1>2, SubmitKeeps
<1>3. ASSUME NEW n \in Npub, NEW kind \in {"head", "storage"}, Submit(r, kind, n, NULL)
      PROVE  EdgeInv'
  BY <1>3, SubmitKeeps
<1>4. ASSUME NEW n \in Npub,
             Start(r, [NoCall EXCEPT !.at = "wrote", !.kind = "write", !.npub = n]),
             inflight' = inflight
      PROVE  EdgeInv'
  <2> DEFINE c == [NoCall EXCEPT !.at = "wrote", !.kind = "write", !.npub = n]
  <2>1. Shaped(c) /\ c.kind = "write" /\ c.at = "wrote"
    BY NoCallShape DEF Shaped
  <2>2. Start(r, c)
    BY <1>4
  <2> HIDE DEF c
  <2> QED  BY <2>1, <2>2, <1>1, <1>4
<1>5. ASSUME NEW h \in Hash, Get(r, h)
      PROVE  EdgeInv'
  <2> DEFINE c == [NoCall EXCEPT !.at = "owners", !.kind = "get", !.hash = h,
                                 !.seen = Owners(h)]
  <2>1. Shaped(c) /\ c.kind = "get" /\ c.at = "owners"
    BY NoCallShape DEF Shaped
  <2>2. Start(r, c) /\ inflight' = inflight
    BY <1>5 DEF Get
  <2> HIDE DEF c
  <2> QED  BY <2>1, <2>2, <1>1
<1>6. ASSUME NEW n \in Npub, NEW h \in Hash, DeleteRow(r, n, h)
      PROVE  EdgeInv'
  BY <1>4, <1>6 DEF DeleteRow
<1>7. ASSUME NEW n \in Npub, NEW bytes \in Allowance, Assign(r, n, bytes)
      PROVE  EdgeInv'
  BY <1>4, <1>7 DEF Assign
<1> QED  BY <1>2, <1>3, <1>5, <1>6, <1>7 DEF Arrive

LEMMA EdgeStarts == EdgeInit => EdgeInv
<1> SUFFICES ASSUME EdgeInit
             PROVE  EdgeInv
  OBVIOUS
<1>1. \A r \in Request : call[r] = NoCall
  BY DEF EdgeInit
<1>2. Held = {}
  BY <1>1, NoCallShape DEF Held
<1>3. \A r \in Request : Sound(call[r])
  BY <1>1, NoCallShape DEF Sound, Holds
<1>4. inflight = Cardinality(Held) /\ inflight <= MaxInflight
  BY <1>2, FS_EmptySet, EdgeAssumption, SMT DEF EdgeInit, EdgeAssumption
<1> QED  BY <1>3, <1>4 DEF EdgeInit, EdgeInv

LEMMA EdgeSteps == EdgeInv /\ [EdgeNext]_<<accountVars, edgeVars>> => EdgeInv'
<1> SUFFICES ASSUME EdgeInv, [EdgeNext]_<<accountVars, edgeVars>>
             PROVE  EdgeInv'
  OBVIOUS
<1>1. CASE UNCHANGED <<inflight, call>>
  BY <1>1 DEF EdgeInv, Held
<1>2. CASE UNCHANGED <<accountVars, edgeVars>>
  BY <1>1, <1>2 DEF edgeVars
<1> QED  BY <1>1, <1>2, ProxyKeeps, ArriveKeeps DEF EdgeNext

\* Whatever the requests, however they overlap, are refused or break off, the
\* gate's counter is the bytes of the uploads past it and within its limit
\* (uploadGate and its release on close and finish).
THEOREM GateBudgetExact == EdgeSpec => []BudgetExact
<1>1. EdgeInv => BudgetExact
  <2> SUFFICES ASSUME EdgeInv
               PROVE  BudgetExact
    OBVIOUS
  <2>1. Held = {r \in Request : Counted(r)}
    BY DEF Held, Holds, Counted
  <2> QED  BY <2>1 DEF EdgeInv, BudgetExact
<1> QED  BY <1>1, EdgeStarts, EdgeSteps, PTL DEF EdgeSpec

-----------------------------------------------------------------------------
\* A slot is refused for its plan only by the second read, on a row that does
\* not permit the call.
Decides(r) ==
    \E c : /\ call' = [call EXCEPT ![r] = c]
           /\ c.at = "denied" => /\ call[r].at = "reread" /\ c.npub = call[r].npub
                                 /\ ~Permits(GetUser(call[r].npub))
                                 /\ UNCHANGED accountVars

LEMMA EnterDecides ==
    ASSUME NEW r \in Request, NEW c, NEW s, NEW cached, Shaped(c), Enter(r, c, s, cached)
    PROVE  Decides(r)
<1> DEFINE v == IF Permits(s) THEN Verdict(c.kind, s) ELSE "reread"
           d == [c EXCEPT !.at = v, !.seen = NULL, !.from = NULL]
<1>1. call' = [call EXCEPT ![r] = d]
  BY DEF Enter
<1>2. v # "denied"
  BY VerdictLetsIn
<1> HIDE DEF v
<1>3. d.at = v
  <2>1. At(d, c, v)
    BY ShapeKept
  <2> QED  BY <2>1 DEF At
<1> HIDE DEF d
<1> QED  BY <1>1, <1>2, <1>3 DEF Decides

LEMMA LookupDecides ==
    ASSUME NEW r \in Request, NEW c, Shaped(c), Lookup(r, c)
    PROVE  Decides(r)
<1>1. CASE CacheHit(c.npub)
  <2>1. Enter(r, c, cache[c.npub].user, cache)
    BY <1>1 DEF Lookup
  <2> QED  BY <2>1, EnterDecides
<1>2. CASE ~CacheHit(c.npub)
  <2> DEFINE d == [c EXCEPT !.at = "read", !.from = now]
  <2>1. call' = [call EXCEPT ![r] = d]
    BY <1>2 DEF Lookup
  <2>2. d.at = "read"
    <3>1. At(d, c, "read")
      BY ShapeKept
    <3> QED  BY <3>1 DEF At
  <2> HIDE DEF d
  <2> QED  BY <2>1, <2>2 DEF Decides
<1> QED  BY <1>1, <1>2

LEMMA GotoDecides ==
    ASSUME EdgeInv, NEW r \in Request, NEW at, at # "denied", Goto(r, at)
    PROVE  Decides(r)
<1> DEFINE d == [call[r] EXCEPT !.at = at]
<1>1. Shaped(call[r])
  BY DEF EdgeInv, Sound
<1>2. At(d, call[r], at)
  BY <1>1, ShapeKept
<1>3. call' = [call EXCEPT ![r] = d]
  BY DEF Goto, EdgeInv
<1> HIDE DEF d
<1> QED  BY <1>2, <1>3 DEF Decides, At

LEMMA SawDecides ==
    ASSUME EdgeInv, NEW r \in Request, NEW at, NEW s, at # "denied", Saw(r, at, s)
    PROVE  Decides(r)
<1> DEFINE d == [call[r] EXCEPT !.at = at, !.seen = s]
<1>1. Shaped(call[r])
  BY DEF EdgeInv, Sound
<1>2. At(d, call[r], at)
  BY <1>1, ShapeKept
<1>3. call' = [call EXCEPT ![r] = d]
  BY DEF Saw, EdgeInv
<1> HIDE DEF d
<1> QED  BY <1>2, <1>3 DEF Decides, At

LEMMA RereadDecides ==
    ASSUME EdgeInv, NEW r \in Request, Reread(r)
    PROVE  Decides(r)
<1>1. Shaped(call[r])
  BY DEF EdgeInv, Sound
<1>2. CASE Permits(GetUser(call[r].npub))
  <2>1. Enter(r, call[r], GetUser(call[r].npub), cache)
    BY <1>2 DEF Reread
  <2> QED  BY <1>1, <2>1, EnterDecides
<1>3. CASE ~Permits(GetUser(call[r].npub))
  <2> DEFINE d == [call[r] EXCEPT !.at = "denied"]
  <2>1. call[r].at = "reread" /\ UNCHANGED accountVars /\ Goto(r, "denied")
    BY <1>3 DEF Reread
  <2>2. call' = [call EXCEPT ![r] = d]
    BY <2>1 DEF Goto, EdgeInv
  <2>3. d.npub = call[r].npub
    BY <1>1 DEF Shaped
  <2> HIDE DEF d
  <2> QED  BY <1>3, <2>1, <2>2, <2>3 DEF Decides
<1> QED  BY <1>2, <1>3

LEMMA ProxyDecides ==
    ASSUME EdgeInv, NEW r \in Request, Proxy(r)
    PROVE  Decides(r)
<1>1. Shaped(call[r]) /\ NoCall.at = "idle"
  BY DEF EdgeInv, Sound, NoCall
<1>2. CASE ReadRow(r)
  BY <1>2, SawDecides DEF ReadRow
<1>3. CASE Arrived(r)
  <2>1. PICK s, cached : Enter(r, call[r], s, cached)
    BY <1>3 DEF Arrived
  <2> QED  BY <1>1, <2>1, EnterDecides
<1>4. CASE Reread(r)
  BY <1>4, RereadDecides
<1>5. CASE Receive(r)
  <2> DEFINE c == [call[r] EXCEPT !.kind = "body"]
  <2>1. Shaped(c)
    BY <1>1, ShapeKept
  <2>2. Lookup(r, c)
    BY <1>5 DEF Receive
  <2> HIDE DEF c
  <2> QED  BY <2>1, <2>2, LookupDecides
<1>6. CASE CreateRow(r)
  BY <1>6, GotoDecides DEF CreateRow
<1>7. CASE Created(r)
  BY <1>7, GotoDecides DEF Created
<1>8. CASE End(r) \/ Wrote(r) \/ Served(r)
  <2>1. call' = [call EXCEPT ![r] = NoCall]
    BY <1>8 DEF End, Wrote, Served, Done
  <2> QED  BY <1>1, <2>1 DEF Decides
<1>9. CASE Readable(r)
  <2>1. PICK at \in {"serve", "refuse"} : Saw(r, at, NULL)
    BY <1>9 DEF Readable
  <2> QED  BY <2>1, SawDecides
<1> QED  BY <1>2, <1>3, <1>4, <1>5, <1>6, <1>7, <1>8, <1>9 DEF Proxy

LEMMA ArriveDecides ==
    ASSUME NEW r \in Request, Arrive(r)
    PROVE  Decides(r)
<1>1. ASSUME NEW kind, NEW n, NEW h, Submit(r, kind, n, h)
      PROVE  Decides(r)
  BY <1>1, NoCallShape, LookupDecides DEF Submit
<1>2. ASSUME NEW n, Start(r, [NoCall EXCEPT !.at = "wrote", !.kind = "write", !.npub = n])
      PROVE  Decides(r)
  <2> DEFINE c == [NoCall EXCEPT !.at = "wrote", !.kind = "write", !.npub = n]
  <2>1. c.at = "wrote"
    BY DEF NoCall
  <2>2. call' = [call EXCEPT ![r] = c]
    BY <1>2 DEF Start
  <2> HIDE DEF c
  <2> QED  BY <2>1, <2>2 DEF Decides
<1>3. ASSUME NEW h, Get(r, h)
      PROVE  Decides(r)
  <2> DEFINE c == [NoCall EXCEPT !.at = "owners", !.kind = "get", !.hash = h,
                                 !.seen = Owners(h)]
  <2>1. c.at = "owners"
    BY DEF NoCall
  <2>2. call' = [call EXCEPT ![r] = c]
    BY <1>3 DEF Get, Start
  <2> HIDE DEF c
  <2> QED  BY <2>1, <2>2 DEF Decides
<1>4. ASSUME NEW n \in Npub, NEW h \in Hash, DeleteRow(r, n, h)
      PROVE  Decides(r)
  BY <1>2, <1>4 DEF DeleteRow
<1>5. ASSUME NEW n \in Npub, NEW bytes \in Allowance, Assign(r, n, bytes)
      PROVE  Decides(r)
  BY <1>2, <1>5 DEF Assign
<1> QED  BY <1>1, <1>3, <1>4, <1>5 DEF Arrive

\* The verdict stays with the slot, and the history with it.
LEMMA DecisionKeeps ==
    ASSUME EdgeInv, DecidedInTime, NEW r \in Request, Decides(r), EdgeHistory
    PROVE  DecidedInTime'
<1>1. PICK c : /\ call' = [call EXCEPT ![r] = c]
               /\ c.at = "denied" => /\ call[r].at = "reread" /\ c.npub = call[r].npub
                                     /\ ~Permits(GetUser(call[r].npub))
                                     /\ UNCHANGED accountVars
  BY DEF Decides
<1>2. call'[r] = c /\ \A q \in Request \ {r} : call'[q] = call[q]
  BY <1>1 DEF EdgeInv
<1>3. ASSUME NEW q \in Request, q # r, call'[q].at = "denied"
      PROVE  ~always'[q]
  <2>1. call[q].at = "denied" /\ ~always[q]
    BY <1>2, <1>3 DEF DecidedInTime
  <2> QED  BY <2>1 DEF EdgeHistory
<1>4. ASSUME call'[r].at = "denied"
      PROVE  ~always'[r]
  <2>1. PICK n : n = call[r].npub
    OBVIOUS
  <2>2. call'[r].npub = n /\ ~Permits(GetUser(n)) /\ UNCHANGED accountVars
    BY <1>1, <1>2, <1>4, <2>1
  <2>3. ~Permits(GetUser(n))'
    BY <2>2 DEF accountVars, Permits, GetUser, CanUpload, Used
  <2>4. ~PermitsCall(r)'
    BY <2>2, <2>3 DEF PermitsCall
  <2> QED  BY <2>4 DEF EdgeHistory
<1> QED  BY <1>3, <1>4 DEF DecidedInTime

\* Whatever the cache holds, whatever is written or invalidated meanwhile, no
\* request is refused whose row permitted it from beginning to end
\* (loadAccessForDenialCheck).
THEOREM NobodyDeniedInError == EdgeSpec => []DecidedInTime
<1>1. EdgeInit => EdgeInv /\ DecidedInTime
  BY EdgeStarts DEF EdgeInit, DecidedInTime, NoCall
<1>2. EdgeInv /\ DecidedInTime /\ [EdgeNext]_<<accountVars, edgeVars>> => EdgeInv' /\ DecidedInTime'
  <2> SUFFICES ASSUME EdgeInv, DecidedInTime, [EdgeNext]_<<accountVars, edgeVars>>
               PROVE  DecidedInTime'
    BY EdgeSteps
  <2>1. CASE UNCHANGED <<accountVars, edgeVars>>
    BY <2>1 DEF edgeVars, DecidedInTime
  <2>2. CASE (\E r \in Request : Proxy(r) \/ Arrive(r)) /\ EdgeHistory
    BY <2>2, ProxyDecides, ArriveDecides, DecisionKeeps
  <2>3. CASE UNCHANGED call /\ EdgeHistory
    BY <2>3 DEF EdgeHistory, DecidedInTime
  <2> QED  BY <2>1, <2>2, <2>3 DEF EdgeNext
<1> QED  BY <1>1, <1>2, PTL DEF EdgeSpec

-----------------------------------------------------------------------------
(***************************************************************************)
(* Signer.  The invariant says that, while no two handlers of a list       *)
(* overlapped, the one under way has read the list as it still is, and the *)
(* list is what the popup asked for.                                       *)
(***************************************************************************)

KeyReads == {"import", "remove", "unlock"}
KeyCall == [at : KeyEdits, arg : SignerKey, list : SUBSET SignerKey]
SiteCall == [at : SiteEdits, arg : SiteOrigin, list : SUBSET SiteOrigin]

\* While no two handlers of a list overlapped, the one that is under way has
\* read the list as it still is.
KeysCurrent ==
    /\ \A c, d \in PopupCall : handler[c].at \in KeyEdits /\ handler[d].at \in KeyEdits => c = d
    /\ \A c \in PopupCall : handler[c].at \in KeyReads => handler[c].list = storedKeys
    /\ storedKeys = wanted \cap SignerKey
    /\ \/ activeKey \in storedKeys \cup {NoKey}
       \/ \E c \in PopupCall : handler[c].at = "removed" /\ activeKey = handler[c].arg

SitesCurrent ==
    /\ \A c, d \in PopupCall : handler[c].at \in SiteEdits /\ handler[d].at \in SiteEdits => c = d
    /\ \A c \in PopupCall : handler[c].at \in SiteEdits => handler[c].list = allowlist
    /\ allowlist = wanted \cap SiteOrigin

SignerTypeOK ==
    /\ handler \in [PopupCall -> {IdleCall} \cup KeyCall \cup SiteCall]
    /\ storedKeys \in SUBSET SignerKey
    /\ allowlist \in SUBSET SiteOrigin

SignerInv ==
    /\ SignerTypeOK
    /\ KeyEdits \notin crossed => KeysCurrent
    /\ SiteEdits \notin crossed => SitesCurrent

LEMMA EditsDiffer == KeyEdits # SiteEdits /\ KeyEdits \cap SiteEdits = {}
BY DEF KeyEdits, SiteEdits

\* What a handler in progress is, by where it stands.
LEMMA HandlerCases ==
    ASSUME SignerTypeOK, NEW c \in PopupCall
    PROVE  /\ handler[c].at = "idle" \/ handler[c].at \in KeyEdits \/ handler[c].at \in SiteEdits
           /\ handler[c].at \in KeyEdits => handler[c] \in KeyCall
           /\ handler[c].at \in SiteEdits => handler[c] \in SiteCall
<1>1. handler[c] \in {IdleCall} \/ handler[c] \in KeyCall \/ handler[c] \in SiteCall
  BY DEF SignerTypeOK
<1>2. IdleCall.at = "idle" /\ "idle" \notin KeyEdits \cup SiteEdits
  BY DEF IdleCall, KeyEdits, SiteEdits
<1>3. handler[c] \in KeyCall => handler[c].at \in KeyEdits
  BY DEF KeyCall
<1>4. handler[c] \in SiteCall => handler[c].at \in SiteEdits
  BY DEF SiteCall
<1> QED  BY <1>1, <1>2, <1>3, <1>4, EditsDiffer

\* A handler starts: c holds what it has read.
LEMMA ReadTyped ==
    ASSUME SignerInv, NEW c \in PopupCall, NEW what \in KeyEdits \cup SiteEdits, NEW x, ReadStore(c, what, x),
           what \in KeyEdits => x \in SignerKey, what \in SiteEdits => x \in SiteOrigin
    PROVE  /\ SignerTypeOK'
           /\ handler'[c].at = what /\ handler[c].at = "idle"
           /\ what \in KeyEdits => handler'[c].list = storedKeys
           /\ what \in SiteEdits => handler'[c].list = allowlist
           /\ \A d \in PopupCall \ {c} : handler'[d] = handler[d]
<1> DEFINE v == [at |-> what, arg |-> x, list |-> IF what \in KeyEdits THEN storedKeys ELSE allowlist]
<1>1. v \in KeyCall \cup SiteCall
  BY EditsDiffer DEF KeyCall, SiteCall, SignerInv, SignerTypeOK
<1>2. v.at = what /\ v.list = IF what \in KeyEdits THEN storedKeys ELSE allowlist
  OBVIOUS
<1>3. handler' = [handler EXCEPT ![c] = v] /\ handler[c].at = "idle" /\ UNCHANGED <<storedKeys, allowlist>>
  BY DEF ReadStore
<1> HIDE DEF v
<1>4. handler'[c] = v /\ \A d \in PopupCall \ {c} : handler'[d] = handler[d]
  BY <1>3 DEF SignerInv, SignerTypeOK
<1>5. SignerTypeOK'
  BY <1>1, <1>3 DEF SignerInv, SignerTypeOK
<1> QED  BY <1>2, <1>3, <1>4, <1>5, EditsDiffer

LEMMA ReadKeepsKeys ==
    ASSUME SignerInv, NEW c \in PopupCall, NEW k \in SignerKey, NEW what \in KeyEdits \ {"removed"},
           ReadStore(c, what, k)
    PROVE  SignerInv'
<1>1. /\ SignerTypeOK' /\ handler'[c].at = what /\ handler[c].at = "idle" /\ handler'[c].list = storedKeys
      /\ \A d \in PopupCall \ {c} : handler'[d] = handler[d]
  BY ReadTyped, EditsDiffer
<1>2. UNCHANGED <<storedKeys, allowlist, activeKey, wanted>> /\ crossed \subseteq crossed'
  BY DEF ReadStore
<1>3. what \in KeyReads /\ what \notin SiteEdits
  BY EditsDiffer DEF KeyEdits, KeyReads
<1>4. KeyEdits \notin crossed' => \A d \in PopupCall : handler[d].at \notin KeyEdits
  BY DEF ReadStore
<1>5. ASSUME KeyEdits \notin crossed'
      PROVE  KeysCurrent'
  <2>1. KeysCurrent /\ \A d \in PopupCall : handler[d].at \notin KeyEdits
    BY <1>2, <1>4, <1>5 DEF SignerInv
  <2>2. \A d \in PopupCall \ {c} : handler'[d].at \notin KeyEdits
    BY <1>1, <2>1
  <2>3. \A d \in PopupCall : handler[d].at # "removed"
    BY <2>1 DEF KeyEdits
  <2>4. activeKey \in storedKeys \cup {NoKey}
    BY <2>1, <2>3 DEF KeysCurrent
  <2>5. KeyReads \subseteq KeyEdits
    BY DEF KeyReads, KeyEdits
  <2> QED  BY <1>1, <1>2, <2>1, <2>2, <2>4, <2>5 DEF KeysCurrent
<1>6. ASSUME SiteEdits \notin crossed'
      PROVE  SitesCurrent'
  <2>1. SitesCurrent
    BY <1>2, <1>6 DEF SignerInv
  <2>2. handler'[c].at \notin SiteEdits
    BY <1>1, <1>3
  <2> QED  BY <1>1, <1>2, <2>1, <2>2 DEF SitesCurrent
<1> QED  BY <1>1, <1>5, <1>6 DEF SignerInv

LEMMA ReadKeepsSites ==
    ASSUME SignerInv, NEW c \in PopupCall, NEW o \in SiteOrigin, NEW what \in SiteEdits, ReadStore(c, what, o)
    PROVE  SignerInv'
<1>1. /\ SignerTypeOK' /\ handler'[c].at = what /\ handler[c].at = "idle" /\ handler'[c].list = allowlist
      /\ \A d \in PopupCall \ {c} : handler'[d] = handler[d]
  BY ReadTyped, EditsDiffer
<1>2. UNCHANGED <<storedKeys, allowlist, activeKey, wanted>> /\ crossed \subseteq crossed'
  BY DEF ReadStore
<1>3. what \notin KeyEdits /\ what \notin KeyReads
  BY EditsDiffer DEF KeyEdits, KeyReads
<1>4. SiteEdits \notin crossed' => \A d \in PopupCall : handler[d].at \notin SiteEdits
  BY <1>3 DEF ReadStore
<1>5. ASSUME KeyEdits \notin crossed'
      PROVE  KeysCurrent'
  <2>1. KeysCurrent
    BY <1>2, <1>5 DEF SignerInv
  <2>2. handler'[c].at \notin KeyEdits /\ handler'[c].at \notin KeyReads
    BY <1>1, <1>3
  <2>3. \A d \in PopupCall : handler[d].at = "removed" => handler'[d] = handler[d]
    BY <1>1
  <2> QED  BY <1>1, <1>2, <2>1, <2>2, <2>3 DEF KeysCurrent
<1>6. ASSUME SiteEdits \notin crossed'
      PROVE  SitesCurrent'
  <2>1. SitesCurrent /\ \A d \in PopupCall \ {c} : handler'[d].at \notin SiteEdits
    BY <1>1, <1>2, <1>4, <1>6 DEF SignerInv
  <2> QED  BY <1>1, <1>2, <2>1 DEF SitesCurrent
<1> QED  BY <1>1, <1>5, <1>6 DEF SignerInv

\* A handler of one list ends, or writes and goes on: the others do not move.
LEMMA EndTyped ==
    ASSUME SignerTypeOK, NEW c \in PopupCall, NEW v \in {IdleCall} \cup KeyCall,
           handler' = [handler EXCEPT ![c] = v]
    PROVE  /\ handler' \in [PopupCall -> {IdleCall} \cup KeyCall \cup SiteCall]
           /\ handler'[c] = v /\ \A d \in PopupCall \ {c} : handler'[d] = handler[d]
BY DEF SignerTypeOK

\* Handlers of keys leave the list of sites and its handlers alone.
LEMMA SitesUntouched ==
    ASSUME SignerInv, NEW c \in PopupCall, UNCHANGED <<allowlist, crossed>>,
           wanted' \cap SiteOrigin = wanted \cap SiteOrigin,
           handler'[c].at \notin SiteEdits, \A d \in PopupCall \ {c} : handler'[d] = handler[d],
           SiteEdits \notin crossed'
    PROVE  SitesCurrent'
<1>1. SitesCurrent
  BY DEF SignerInv
<1> QED  BY <1>1 DEF SitesCurrent

LEMMA NotASite == "idle" \notin SiteEdits /\ "removed" \notin SiteEdits /\ IdleCall.at = "idle"
BY DEF SiteEdits, IdleCall

LEMMA ImportKeeps ==
    ASSUME SignerInv, NEW c \in PopupCall, ImportKey(c)
    PROVE  SignerInv'
<1>1. handler[c].at = "import" /\ handler[c] \in KeyCall
  BY HandlerCases DEF SignerInv, ImportKey, KeyEdits
<1>2. PICK k \in SignerKey, l \in SUBSET SignerKey : k = handler[c].arg /\ l = handler[c].list
  BY <1>1 DEF KeyCall
<1>3. handler' = [handler EXCEPT ![c] = IdleCall] /\ UNCHANGED <<allowlist, activeKey, crossed>>
  BY DEF ImportKey, Finish
<1>4. \/ k \in l /\ UNCHANGED <<storedKeys, wanted>>
      \/ k \notin l /\ storedKeys' = l \cup {k} /\ wanted' = wanted \cup {k}
  BY <1>2 DEF ImportKey
<1>5. /\ handler' \in [PopupCall -> {IdleCall} \cup KeyCall \cup SiteCall]
      /\ handler'[c] = IdleCall /\ \A d \in PopupCall \ {c} : handler'[d] = handler[d]
  BY <1>3, EndTyped DEF SignerInv
<1>6. SignerTypeOK'
  BY <1>2, <1>3, <1>4, <1>5 DEF SignerTypeOK, SignerInv
<1>7. ASSUME KeyEdits \notin crossed'
      PROVE  KeysCurrent'
  <2>1. KeysCurrent
    BY <1>3, <1>7 DEF SignerInv
  <2>2. l = storedKeys /\ \A d \in PopupCall \ {c} : handler'[d].at \notin KeyEdits
    BY <1>1, <1>2, <1>5, <2>1 DEF KeysCurrent, KeyEdits, KeyReads
  <2>3. \A d \in PopupCall : handler'[d].at \notin KeyEdits
    BY <1>5, <2>2, NotASite DEF KeyEdits
  <2>4. activeKey \in storedKeys \cup {NoKey}
    <3>1. \A d \in PopupCall : handler[d].at # "removed"
      BY <1>1, <2>1 DEF KeysCurrent, KeyEdits
    <3> QED  BY <2>1, <3>1 DEF KeysCurrent
  <2>5. storedKeys' = wanted' \cap SignerKey
    BY <1>2, <1>4, <2>1, <2>2 DEF KeysCurrent
  <2>6. activeKey' \in storedKeys' \cup {NoKey}
    BY <1>3, <1>4, <2>2, <2>4
  <2>7. KeyReads \subseteq KeyEdits
    BY DEF KeyReads, KeyEdits
  <2> QED  BY <2>3, <2>5, <2>6, <2>7 DEF KeysCurrent
<1>8. wanted' \cap SiteOrigin = wanted \cap SiteOrigin
  BY <1>2, <1>4, SignerAssumption
<1>9. SiteEdits \notin crossed' => SitesCurrent'
  BY <1>3, <1>5, <1>8, SitesUntouched, NotASite
<1> QED  BY <1>6, <1>7, <1>9 DEF SignerInv

LEMMA RemoveKeeps ==
    ASSUME SignerInv, NEW c \in PopupCall, RemoveProfile(c)
    PROVE  SignerInv'
<1>1. handler[c].at = "remove" /\ handler[c] \in KeyCall
  BY HandlerCases DEF SignerInv, RemoveProfile, KeyEdits
<1>2. PICK k \in SignerKey, l \in SUBSET SignerKey : k = handler[c].arg /\ l = handler[c].list
  BY <1>1 DEF KeyCall
<1> DEFINE v == [handler[c] EXCEPT !.at = "removed"]
<1>3. v \in KeyCall /\ v.at = "removed" /\ v.arg = k
  BY <1>1, <1>2 DEF KeyCall, KeyEdits
<1>4. /\ handler' = [handler EXCEPT ![c] = v] /\ UNCHANGED <<allowlist, activeKey, crossed>>
      /\ storedKeys' = l \ {k} /\ wanted' = wanted \ {k}
  BY <1>2 DEF RemoveProfile
<1> HIDE DEF v
<1>5. /\ handler' \in [PopupCall -> {IdleCall} \cup KeyCall \cup SiteCall]
      /\ handler'[c] = v /\ \A d \in PopupCall \ {c} : handler'[d] = handler[d]
  BY <1>3, <1>4, EndTyped DEF SignerInv
<1>6. SignerTypeOK'
  BY <1>2, <1>4, <1>5 DEF SignerTypeOK, SignerInv
<1>7. ASSUME KeyEdits \notin crossed'
      PROVE  KeysCurrent'
  <2>1. KeysCurrent
    BY <1>4, <1>7 DEF SignerInv
  <2>2. l = storedKeys /\ \A d \in PopupCall \ {c} : handler[d].at \notin KeyEdits
    BY <1>1, <1>2, <2>1 DEF KeysCurrent, KeyEdits, KeyReads
  <2>3. activeKey \in storedKeys \cup {NoKey}
    <3>1. \A d \in PopupCall : handler[d].at # "removed"
      BY <1>1, <2>2 DEF KeyEdits
    <3> QED  BY <2>1, <3>1 DEF KeysCurrent
  <2>4. storedKeys' = wanted' \cap SignerKey
    BY <1>4, <2>1, <2>2 DEF KeysCurrent
  <2>5. activeKey' \in storedKeys' \cup {NoKey} \/ activeKey' = handler'[c].arg
    BY <1>3, <1>4, <1>5, <2>2, <2>3
  <2>6. \A d \in PopupCall : handler'[d].at \in KeyEdits => d = c
    BY <1>5, <2>2
  <2>7. \A d \in PopupCall : handler'[d].at \notin KeyReads
    BY <1>3, <1>5, <2>2 DEF KeyReads, KeyEdits
  <2> QED  BY <1>3, <1>5, <2>4, <2>5, <2>6, <2>7 DEF KeysCurrent
<1>8. wanted' \cap SiteOrigin = wanted \cap SiteOrigin
  BY <1>2, <1>4, SignerAssumption
<1>9. SiteEdits \notin crossed' => SitesCurrent'
  BY <1>3, <1>4, <1>5, <1>8, SitesUntouched, NotASite
<1> QED  BY <1>6, <1>7, <1>9 DEF SignerInv

\* LockRemoved and Unlock end and change the decrypted key only.
LEMMA ActiveKeeps ==
    ASSUME SignerInv, NEW c \in PopupCall, handler[c].at \in KeyEdits, Finish(c),
           UNCHANGED <<storedKeys, allowlist, wanted, crossed>>,
           ASSUME KeysCurrent PROVE activeKey' \in storedKeys \cup {NoKey}
    PROVE  SignerInv'
<1>1. /\ handler' \in [PopupCall -> {IdleCall} \cup KeyCall \cup SiteCall]
      /\ handler'[c] = IdleCall /\ \A d \in PopupCall \ {c} : handler'[d] = handler[d]
  BY EndTyped DEF SignerInv, Finish
<1>2. SignerTypeOK'
  BY <1>1 DEF SignerTypeOK, SignerInv
<1>3. ASSUME KeyEdits \notin crossed'
      PROVE  KeysCurrent'
  <2>1. KeysCurrent
    BY <1>3 DEF SignerInv
  <2>2. activeKey' \in storedKeys \cup {NoKey}
    BY <2>1
  <2>3. \A d \in PopupCall : handler'[d].at \notin KeyEdits
    BY <1>1, <2>1, NotASite DEF KeysCurrent, KeyEdits
  <2>4. KeyReads \subseteq KeyEdits
    BY DEF KeyReads, KeyEdits
  <2> QED  BY <2>1, <2>2, <2>3, <2>4 DEF KeysCurrent
<1>4. SiteEdits \notin crossed' => SitesCurrent'
  BY <1>1, SitesUntouched, NotASite
<1> QED  BY <1>2, <1>3, <1>4 DEF SignerInv

LEMMA LockRemovedKeeps ==
    ASSUME SignerInv, NEW c \in PopupCall, LockRemoved(c)
    PROVE  SignerInv'
<1>1. handler[c].at = "removed" /\ handler[c].at \in KeyEdits
  BY DEF LockRemoved, KeyEdits
<1>2. ASSUME KeysCurrent
      PROVE  activeKey' \in storedKeys \cup {NoKey}
  <2>1. \A d \in PopupCall : handler[d].at = "removed" => d = c
    BY <1>1, <1>2 DEF KeysCurrent
  <2>2. activeKey \in storedKeys \cup {NoKey} \/ activeKey = handler[c].arg
    BY <1>2, <2>1 DEF KeysCurrent
  <2> QED  BY <2>2 DEF LockRemoved
<1>3. Finish(c) /\ UNCHANGED <<storedKeys, allowlist, wanted, crossed>>
  BY DEF LockRemoved
<1> QED  BY <1>1, <1>2, <1>3, ActiveKeeps

LEMMA UnlockKeeps ==
    ASSUME SignerInv, NEW c \in PopupCall, Unlock(c)
    PROVE  SignerInv'
<1>1. handler[c].at = "unlock" /\ handler[c].at \in KeyEdits
  BY DEF Unlock, KeyEdits
<1>2. ASSUME KeysCurrent
      PROVE  activeKey' \in storedKeys \cup {NoKey}
  <2>1. \A d \in PopupCall : handler[d].at # "removed"
    BY <1>1, <1>2 DEF KeysCurrent, KeyEdits
  <2>2. activeKey \in storedKeys \cup {NoKey} /\ handler[c].list = storedKeys
    BY <1>1, <1>2, <2>1 DEF KeysCurrent, KeyReads
  <2> QED  BY <2>2 DEF Unlock
<1>3. Finish(c) /\ UNCHANGED <<storedKeys, allowlist, wanted, crossed>>
  BY DEF Unlock
<1> QED  BY <1>1, <1>2, <1>3, ActiveKeeps

LEMMA SetOriginKeeps ==
    ASSUME SignerInv, NEW c \in PopupCall, SetOriginAllowed(c)
    PROVE  SignerInv'
<1>1. handler[c].at \in SiteEdits /\ handler[c] \in SiteCall
  BY HandlerCases DEF SignerInv, SetOriginAllowed, SiteEdits
<1>2. PICK o \in SiteOrigin, l \in SUBSET SiteOrigin : o = handler[c].arg /\ l = handler[c].list
  BY <1>1 DEF SiteCall
<1>3. Finish(c) /\ UNCHANGED <<storedKeys, activeKey, crossed>>
  BY DEF SetOriginAllowed
<1>4. \/ allowlist' = l \cup {o} /\ wanted' = wanted \cup {o}
      \/ allowlist' = l \ {o} /\ wanted' = wanted \ {o}
  BY <1>2 DEF SetOriginAllowed
<1>5. /\ handler' \in [PopupCall -> {IdleCall} \cup KeyCall \cup SiteCall]
      /\ handler'[c] = IdleCall /\ \A d \in PopupCall \ {c} : handler'[d] = handler[d]
  BY <1>3, EndTyped DEF SignerInv, Finish
<1>6. SignerTypeOK'
  BY <1>2, <1>3, <1>4, <1>5 DEF SignerTypeOK, SignerInv
<1>7. wanted' \cap SignerKey = wanted \cap SignerKey
  BY <1>2, <1>4, SignerAssumption
<1>8. handler'[c].at \notin KeyEdits /\ handler'[c].at \notin SiteEdits /\ handler[c].at \notin KeyEdits
  BY <1>1, <1>5, NotASite, EditsDiffer DEF KeyEdits
<1>9. ASSUME KeyEdits \notin crossed'
      PROVE  KeysCurrent'
  <2>1. KeysCurrent
    BY <1>3, <1>9 DEF SignerInv
  <2>2. \A d \in PopupCall : handler[d].at = "removed" => handler'[d] = handler[d]
    BY <1>5, <1>8 DEF KeyEdits
  <2>3. KeyReads \subseteq KeyEdits
    BY DEF KeyReads, KeyEdits
  <2> QED  BY <1>3, <1>5, <1>7, <1>8, <2>1, <2>2, <2>3 DEF KeysCurrent
<1>10. ASSUME SiteEdits \notin crossed'
       PROVE  SitesCurrent'
  <2>1. SitesCurrent
    BY <1>3, <1>10 DEF SignerInv
  <2>2. l = allowlist /\ \A d \in PopupCall \ {c} : handler[d].at \notin SiteEdits
    BY <1>1, <1>2, <2>1 DEF SitesCurrent
  <2>3. \A d \in PopupCall : handler'[d].at \notin SiteEdits
    BY <1>5, <1>8, <2>2
  <2>4. allowlist' = wanted' \cap SiteOrigin
    BY <1>2, <1>4, <2>1, <2>2 DEF SitesCurrent
  <2> QED  BY <2>3, <2>4 DEF SitesCurrent
<1> QED  BY <1>6, <1>9, <1>10 DEF SignerInv

LEMMA SignerStep ==
    ASSUME SignerInv, [SignerNext]_signerVars
    PROVE  SignerInv'
<1>1. CASE LockSigner
  <2>1. /\ activeKey' = NoKey
        /\ UNCHANGED <<storedKeys, allowlist, handler, wanted, crossed>>
    BY <1>1 DEF LockSigner
  <2>2. SignerTypeOK' /\ (KeysCurrent => KeysCurrent') /\ (SitesCurrent => SitesCurrent')
    BY <2>1 DEF SignerInv, SignerTypeOK, KeysCurrent, SitesCurrent
  <2> QED  BY <2>1, <2>2 DEF SignerInv
<1>2. CASE UNCHANGED signerVars
  BY <1>2 DEF signerVars, SignerInv, SignerTypeOK, KeysCurrent, SitesCurrent
<1> QED  BY <1>1, <1>2, ReadKeepsKeys, ReadKeepsSites, ImportKeeps, RemoveKeeps, LockRemovedKeeps, UnlockKeeps,
            SetOriginKeeps DEF SignerNext

\* core.ts and background.ts of the signer: no edit of a list is lost, and the
\* decrypted key is a stored one, whatever messages come in and in whatever
\* order, until two handlers of the same list overlap.
THEOREM SignerKeepsEdits == SignerSpec => []EditsKept
<1>1. SignerInit => SignerInv
  <2> SUFFICES ASSUME SignerInit
               PROVE  SignerInv
    OBVIOUS
  <2>1. SignerTypeOK
    BY DEF SignerInit, SignerTypeOK
  <2>2. \A c \in PopupCall : handler[c].at = "idle"
    BY DEF SignerInit, IdleCall
  <2>3. \A c \in PopupCall : handler[c].at \notin KeyEdits \cup KeyReads \cup SiteEdits
    BY <2>2 DEF KeyEdits, KeyReads, SiteEdits
  <2>4. storedKeys = {} /\ allowlist = {} /\ wanted = {} /\ activeKey = NoKey
    BY DEF SignerInit
  <2> QED  BY <2>1, <2>3, <2>4 DEF SignerInv, KeysCurrent, SitesCurrent
<1>2. SignerInv => EditsKept
  <2> SUFFICES ASSUME SignerInv
               PROVE  EditsKept
    OBVIOUS
  <2>1. KeysCurrent =>
          activeKey \in storedKeys \cup {NoKey}
                  \cup {handler[c].arg : c \in {d \in PopupCall : handler[d].at = "removed"}}
    BY DEF KeysCurrent
  <2> QED  BY <2>1 DEF SignerInv, EditsKept, KeysCurrent, SitesCurrent
<1> QED  BY <1>1, <1>2, SignerStep, PTL DEF SignerSpec

-----------------------------------------------------------------------------
(***************************************************************************)
(* Purchase.  The invariant ties the dialog to one invoice, its socket and *)
(* the tier that was picked.                                               *)
(***************************************************************************)

FirstTier == CHOOSE t \in Tier : \A u \in Tier : t <= u
Bill == [who : Customer \cup {Nobody}, tier : Tier \cup {FirstTier}]
Buys ==
    {NotBuying} \cup [at : {"issue"}, who : Customer \cup {Nobody}, tier : Tier \cup {FirstTier}]
                \cup [at : {"qr"}, invoice : Nat \ {0}]

\* Until a dialog was closed too early, the only socket is that of the invoice
\* on the screen, and stopWatch would close it.
Watched ==
    /\ sockets \subseteq {stopWatch} \ {NoInvoice}
    /\ stopWatch \in {NoInvoice, shown}
    /\ buying.at = "qr" => shown # NoInvoice /\ buying.invoice = shown
    /\ shown # NoInvoice /\ paid = TRUE => shown \in collected

\* Until the tier was changed too late, an invoice is for the chosen tier.
TierKept ==
    /\ buying.at = "issue" => buying.tier = selected
    /\ shown # NoInvoice => invoices[shown].tier = selected

PurchaseInv ==
    /\ invoices \in Seq(Bill)
    /\ identity \in Customer \cup {Nobody}
    /\ selected \in Tier \cup {FirstTier}
    /\ buying \in Buys
    /\ shown \in Nat /\ shown <= Len(invoices)
    /\ paid \in BOOLEAN /\ early \in BOOLEAN /\ switched \in BOOLEAN
    /\ buying.at = "issue" => shown = NoInvoice
    /\ early = FALSE => Watched
    /\ switched = FALSE => TierKept

LEMMA BuyCases ==
    ASSUME PurchaseInv
    PROVE  /\ buying.at \in {"idle", "issue", "qr"}
           /\ buying.at = "issue" => buying.who \in Customer \cup {Nobody} /\ buying.tier \in Tier \cup {FirstTier}
           /\ buying.at = "qr" => buying.invoice \in Nat \ {0}
<1>1. \/ buying = NotBuying
      \/ buying \in [at : {"issue"}, who : Customer \cup {Nobody}, tier : Tier \cup {FirstTier}]
      \/ buying \in [at : {"qr"}, invoice : Nat \ {0}]
  BY DEF PurchaseInv, Buys
<1>2. NotBuying.at = "idle"
  BY DEF NotBuying
<1> QED  BY <1>1, <1>2

\* The steps that neither buy nor pay nor choose.
LEMMA AroundKeeps ==
    ASSUME PurchaseInv, identity' \in Customer \cup {Nobody}, UNCHANGED <<selected, dialog, backend, history>>
    PROVE  PurchaseInv'
BY DEF dialog, backend, history, PurchaseInv, Watched, TierKept

LEMMA ChooseKeeps ==
    ASSUME PurchaseInv, NEW t \in Tier, ChooseTier(t)
    PROVE  PurchaseInv'
<1>1. /\ shown = NoInvoice /\ selected' = t
      /\ switched' = (switched \/ buying.at # "idle")
      /\ UNCHANGED <<identity, buying, shown, paid, sockets, stopWatch, invoices, collected, early>>
  BY DEF ChooseTier, dialog, backend
<1>2. early' = FALSE => Watched'
  BY <1>1 DEF PurchaseInv, Watched
<1>3. switched' \in BOOLEAN /\ (switched' = FALSE => buying.at = "idle")
  BY <1>1 DEF PurchaseInv
<1>4. switched' = FALSE => TierKept'
  BY <1>1, <1>3 DEF TierKept
<1> QED  BY <1>1, <1>2, <1>3, <1>4 DEF PurchaseInv

LEMMA PressKeeps ==
    ASSUME PurchaseInv, PressBuy
    PROVE  PurchaseInv'
<1> DEFINE b == [at |-> "issue", who |-> identity, tier |-> selected]
<1>1. b \in Buys /\ b.at = "issue" /\ b.tier = selected
  BY DEF PurchaseInv, Buys
<1>2. /\ shown = NoInvoice /\ buying' = b
      /\ UNCHANGED <<identity, selected, shown, paid, sockets, stopWatch, invoices, collected, early, switched>>
  BY DEF PressBuy, backend, history
<1> HIDE DEF b
<1>3. early' = FALSE => Watched'
  BY <1>1, <1>2 DEF PurchaseInv, Watched
<1>4. switched' = FALSE => TierKept'
  BY <1>1, <1>2 DEF PurchaseInv, TierKept
<1> QED  BY <1>1, <1>2, <1>3, <1>4 DEF PurchaseInv

LEMMA IssuedKeeps ==
    ASSUME PurchaseInv, InvoiceIssued
    PROVE  PurchaseInv'
<1> DEFINE e == [who |-> buying.who, tier |-> buying.tier]
           b == [at |-> "qr", invoice |-> Len(invoices) + 1]
<1>1. buying.at = "issue" /\ shown = NoInvoice
  BY DEF InvoiceIssued, PurchaseInv
<1>2. e \in Bill /\ e.tier = buying.tier
  BY <1>1, BuyCases DEF Bill
<1>3. Len(invoices) \in Nat
  BY SMT DEF PurchaseInv
<1>4. b \in Buys /\ b.at = "qr" /\ b.invoice = Len(invoices) + 1
  BY <1>3, SMT DEF Buys
<1>5. /\ invoices' = Append(invoices, e) /\ shown' = Len(invoices) + 1 /\ paid' = FALSE /\ buying' = b
      /\ UNCHANGED <<identity, selected, sockets, stopWatch, collected, early, switched>>
  BY DEF InvoiceIssued, history
<1> HIDE DEF e, b
<1>6. /\ invoices' \in Seq(Bill) /\ Len(invoices') = Len(invoices) + 1
      /\ invoices'[Len(invoices) + 1] = e
  BY <1>2, <1>5, SMT DEF PurchaseInv
<1>7. early' = FALSE => Watched'
  <2> SUFFICES ASSUME early' = FALSE
               PROVE  Watched'
    OBVIOUS
  <2>1. Watched
    BY <1>5 DEF PurchaseInv
  <2>2. stopWatch = NoInvoice /\ sockets = {}
    BY <1>1, <2>1 DEF Watched
  <2> QED  BY <1>3, <1>4, <1>5, <2>2, SMT DEF Watched, NoInvoice
<1>8. switched' = FALSE => TierKept'
  <2> SUFFICES ASSUME switched' = FALSE
               PROVE  TierKept'
    OBVIOUS
  <2>1. buying.tier = selected
    BY <1>1, <1>5 DEF PurchaseInv, TierKept
  <2> QED  BY <1>2, <1>4, <1>5, <1>6, <2>1 DEF TierKept
<1>9. buying'.at = "qr" /\ shown' \in Nat /\ shown' <= Len(invoices')
  BY <1>3, <1>4, <1>5, <1>6, SMT
<1> QED  BY <1>4, <1>5, <1>6, <1>7, <1>8, <1>9 DEF PurchaseInv

\* buy() ends: refused, without a QR code, or with a socket.
LEMMA BuyEnds ==
    ASSUME PurchaseInv, InvoiceRefused \/ QrFails \/ WatchInvoice
    PROVE  PurchaseInv'
<1>1. NotBuying \in Buys /\ NotBuying.at = "idle"
  BY DEF NotBuying, Buys
<1>2. /\ buying' = NotBuying
      /\ UNCHANGED <<identity, selected, shown, paid, invoices, collected, early, switched>>
  BY DEF InvoiceRefused, QrFails, WatchInvoice, backend, history
<1>3. early' = FALSE => Watched'
  <2> SUFFICES ASSUME early = FALSE
               PROVE  Watched'
    BY <1>2
  <2>1. Watched
    BY DEF PurchaseInv
  <2>2. CASE UNCHANGED <<sockets, stopWatch>>
    BY <1>1, <1>2, <2>1, <2>2 DEF Watched
  <2>3. CASE WatchInvoice
    <3>1. buying.at = "qr" /\ buying.invoice = shown /\ shown # NoInvoice
      BY <2>1, <2>3 DEF WatchInvoice, Watched
    <3>2. stopWatch' = shown /\ sockets' = (sockets \ {stopWatch}) \cup {shown}
      BY <2>3, <3>1 DEF WatchInvoice
    <3> QED  BY <1>1, <1>2, <2>1, <3>1, <3>2 DEF Watched
  <2> QED  BY <2>2, <2>3 DEF InvoiceRefused, QrFails
<1>4. switched' = FALSE => TierKept'
  BY <1>1, <1>2 DEF PurchaseInv, TierKept
<1> QED  BY <1>1, <1>2, <1>3, <1>4 DEF PurchaseInv

LEMMA SocketKeeps ==
    ASSUME PurchaseInv, NEW i, SocketPaid(i) \/ SocketLost(i)
    PROVE  PurchaseInv'
<1>1. /\ i \in sockets /\ sockets' = sockets \ {i}
      /\ paid' = paid \/ (paid' = TRUE /\ i \in collected)
      /\ UNCHANGED <<identity, selected, buying, shown, stopWatch, invoices, collected, early, switched>>
  BY DEF SocketPaid, SocketLost, backend, history
<1>2. early' = FALSE => Watched'
  <2> SUFFICES ASSUME early = FALSE
               PROVE  Watched'
    BY <1>1
  <2>1. Watched
    BY DEF PurchaseInv
  <2>2. i = shown
    BY <1>1, <2>1 DEF Watched
  <2> QED  BY <1>1, <2>1, <2>2 DEF Watched
<1>3. switched' = FALSE => TierKept'
  BY <1>1 DEF PurchaseInv, TierKept
<1> QED  BY <1>1, <1>2, <1>3 DEF PurchaseInv

LEMMA CloseKeeps ==
    ASSUME PurchaseInv, CloseInvoice
    PROVE  PurchaseInv'
<1>1. /\ sockets' = sockets \ {stopWatch} /\ stopWatch' = NoInvoice /\ shown' = NoInvoice
      /\ early' = (early \/ buying.at = "qr")
      /\ UNCHANGED <<identity, selected, buying, paid, invoices, collected, switched>>
  BY DEF CloseInvoice, backend
<1>2. early' \in BOOLEAN /\ (early' = FALSE => early = FALSE /\ buying.at # "qr")
  BY <1>1 DEF PurchaseInv
<1>3. early' = FALSE => Watched'
  BY <1>1, <1>2 DEF PurchaseInv, Watched
<1>4. switched' = FALSE => TierKept'
  BY <1>1 DEF PurchaseInv, TierKept
<1> QED  BY <1>1, <1>2, <1>3, <1>4, SMT DEF PurchaseInv, NoInvoice

LEMMA PaidKeeps ==
    ASSUME PurchaseInv, NEW i, InvoicePaid(i)
    PROVE  PurchaseInv'
<1>1. /\ collected' = collected \cup {i}
      /\ UNCHANGED <<identity, selected, dialog, invoices, history>>
  BY DEF InvoicePaid
<1> QED  BY <1>1 DEF dialog, history, PurchaseInv, Watched, TierKept

LEMMA PurchaseStep ==
    ASSUME PurchaseInv, [PurchaseNext]_purchaseVars
    PROVE  PurchaseInv'
<1>1. CASE \/ \E who \in Customer \cup {Nobody} : ConnectSigner(who)
           \/ \E who \in Customer : AccountLoads(who)
           \/ AcceptTerms \/ UNCHANGED purchaseVars
  <2>1. identity' \in Customer \cup {Nobody} /\ UNCHANGED <<selected, dialog, backend, history>>
    BY <1>1 DEF ConnectSigner, AccountLoads, AcceptTerms, purchaseVars, dialog, backend, history, PurchaseInv
  <2> QED  BY <2>1, AroundKeeps
<1> QED  BY <1>1, ChooseKeeps, PressKeeps, IssuedKeeps, BuyEnds, SocketKeeps, CloseKeeps, PaidKeeps
         DEF PurchaseNext

\* Pricing.tsx, buy and the dialog: for any tiers, keys and number of invoices.
THEOREM DialogTellsTheTruth == PurchaseSpec => []DialogTrue
<1>1. PurchaseInit => PurchaseInv
  <2> SUFFICES ASSUME PurchaseInit
               PROVE  PurchaseInv
    OBVIOUS
  <2>1. NotBuying \in Buys /\ NotBuying.at = "idle"
    BY DEF NotBuying, Buys
  <2>2. invoices = <<>> /\ selected = FirstTier /\ buying = NotBuying
    BY DEF PurchaseInit, FirstTier
  <2>3. invoices \in Seq(Bill) /\ Len(invoices) = 0
    BY <2>2, SMT
  <2>4. /\ identity = Nobody /\ shown = NoInvoice /\ paid = FALSE /\ sockets = {}
        /\ stopWatch = NoInvoice /\ early = FALSE /\ switched = FALSE
    BY DEF PurchaseInit
  <2>5. Watched /\ TierKept
    BY <2>1, <2>2, <2>4 DEF Watched, TierKept
  <2>6. shown = 0 /\ buying.at # "issue"
    BY <2>1, <2>2, <2>4 DEF NoInvoice
  <2>7. identity \in Customer \cup {Nobody} /\ selected \in Tier \cup {FirstTier} /\ buying \in Buys
    BY <2>1, <2>2, <2>4
  <2>8. shown \in Nat /\ shown <= Len(invoices)
    BY <2>3, <2>6, SMT
  <2>9. paid \in BOOLEAN /\ early \in BOOLEAN /\ switched \in BOOLEAN
    BY <2>4
  <2> QED  BY <2>3, <2>5, <2>6, <2>7, <2>8, <2>9 DEF PurchaseInv
<1>2. PurchaseInv => DialogTrue
  BY DEF PurchaseInv, Watched, TierKept, DialogTrue, Dialog
<1> QED  BY <1>1, <1>2, PurchaseStep, PTL DEF PurchaseSpec

-----------------------------------------------------------------------------
(***************************************************************************)
(* AccountPage.  The invariant says that, as long as one key signs, all    *)
(* that is shown or on its way is for it, and that, with one refresh at a  *)
(* time, no list on its way is older than a deletion the page knows of.    *)
(***************************************************************************)

Reply == [who : Holder \cup {NoOne}, hashes : SUBSET OwnBlob]
Screen == [account : Reply, blobs : Reply, extras : SUBSET Holder, error : BOOLEAN]
Refresh == [number : Nat, account : Reply, blobs : Reply]
RemoveCall == [open : BOOLEAN, hash : OwnBlob, who : Holder, at : {"sent", "gone", "failed"}]

PageTypeOK ==
    /\ extension \in Holder
    /\ me \in Holder \cup {NoOne}
    /\ stored \in [Holder -> SUBSET OwnBlob]
    /\ dash \in Screen
    /\ refreshes \in SUBSET Refresh
    /\ extraCalls \in SUBSET Holder
    /\ removals \in SUBSET RemoveCall
    /\ refreshed \in Nat
    /\ removed \in SUBSET OwnBlob
    /\ overlapped \in BOOLEAN
    /\ mixed \in BOOLEAN

\* Before a key is connected there is nothing on the page.
Closed ==
    /\ dash = EmptyPage /\ refreshes = {} /\ extraCalls = {} /\ removed = {}
    /\ overlapped = FALSE /\ mixed = FALSE
    /\ \A c \in removals : c.open = FALSE

\* An answer is there and is for the connected key, or it is not there.
Mine(a) == a # NoAnswer => a.who = me

\* The extension has signed with the connected key all along.
Own ==
    /\ extension = me
    /\ extraCalls \subseteq {me}
    /\ dash.extras \subseteq {me}
    /\ dash.account # NoAnswer => dash.account.who = me /\ dash.blobs.who = me
    /\ \A r \in refreshes : Mine(r.account) /\ Mine(r.blobs)
    /\ \A c \in removals : c.open = TRUE => c.who = me

\* What the page was told is deleted, and what an answer on its way will tell
\* it, is gone at the proxy.
Gone ==
    /\ removed \cap stored[me] = {}
    /\ \A c \in removals : c.open = TRUE /\ c.at = "gone" => c.hash \notin stored[me]

\* With one refresh at a time, no list that is shown or on its way is older
\* than a deletion the page was told of.
Recent ==
    /\ dash.blobs.hashes \cap removed = {}
    /\ \A r \in refreshes : r.blobs.hashes \cap removed = {}

PageInv ==
    /\ PageTypeOK
    /\ me = NoOne => Closed
    /\ me # NoOne /\ mixed = FALSE => Own /\ Gone /\ (overlapped = FALSE => Recent)

LEMMA NoAnswerTyped == NoAnswer \in Reply /\ NoAnswer.hashes = {} /\ NoAnswer.who = NoOne
BY DEF NoAnswer, Reply

LEMMA EmptyPageTyped ==
    EmptyPage \in Screen /\ EmptyPage.account = NoAnswer /\ EmptyPage.blobs = NoAnswer /\ EmptyPage.extras = {}
BY NoAnswerTyped DEF EmptyPage, Screen

LEMMA StartTyped ==
    ASSUME PageTypeOK
    PROVE  StartRefresh \in Refresh /\ StartRefresh.account = NoAnswer /\ StartRefresh.blobs = NoAnswer
BY NoAnswerTyped, SMT DEF PageTypeOK, StartRefresh, Refresh

LEMMA ParsedTyped ==
    ASSUME PageTypeOK
    PROVE  Parsed \in Reply /\ Parsed.who = extension /\ Parsed.hashes = stored[extension]
BY DEF PageTypeOK, Parsed, Reply

LEMMA SwitchKeeps ==
    ASSUME PageInv, NEW k \in Holder, SwitchKey(k)
    PROVE  PageInv'
<1>1. /\ extension' = k /\ mixed' = (me # NoOne)
      /\ UNCHANGED <<me, stored, dash, refreshes, extraCalls, removals, refreshed, removed, overlapped>>
  BY DEF SwitchKey
<1>2. mixed' \in BOOLEAN /\ (me # NoOne => mixed' = TRUE) /\ (me = NoOne => mixed' = FALSE)
  BY <1>1
<1>3. PageTypeOK'
  BY <1>1, <1>2 DEF PageInv, PageTypeOK
<1>4. Closed => (me = NoOne => Closed')
  BY <1>1, <1>2 DEF Closed
<1> QED  BY <1>1, <1>2, <1>3, <1>4 DEF PageInv

LEMMA ConnectKeeps ==
    ASSUME PageInv, Connect
    PROVE  PageInv'
<1>1. me = NoOne /\ Closed /\ PageTypeOK
  BY DEF Connect, PageInv
<1>2. /\ me' = extension /\ refreshed' = refreshed + 1 /\ refreshes' = {StartRefresh} /\ extraCalls' = {extension}
      /\ UNCHANGED <<extension, stored, dash, removals, removed, overlapped, mixed>>
  BY DEF Connect
<1>3. StartRefresh \in Refresh /\ StartRefresh.account = NoAnswer /\ StartRefresh.blobs = NoAnswer
  BY <1>1, StartTyped
<1>4. PageTypeOK'
  BY <1>1, <1>2, <1>3, SMT DEF PageTypeOK
<1>5. me' # NoOne
  BY <1>1, <1>2, PageAssumption DEF PageTypeOK
<1>6. Own'
  BY <1>1, <1>2, <1>3, EmptyPageTyped DEF Own, Closed, Mine
<1>7. Gone'
  BY <1>1, <1>2 DEF Gone, Closed
<1>8. Recent'
  BY <1>1, <1>2 DEF Recent, Closed
<1> QED  BY <1>4, <1>5, <1>6, <1>7, <1>8 DEF PageInv

LEMMA DisconnectKeeps ==
    ASSUME PageInv, Disconnect
    PROVE  PageInv'
<1>1. PageTypeOK
  BY DEF PageInv
<1>2. /\ me' = NoOne /\ dash' = EmptyPage /\ refreshes' = {} /\ extraCalls' = {} /\ removed' = {}
      /\ overlapped' = FALSE /\ mixed' = FALSE /\ UNCHANGED <<extension, stored, refreshed>>
  BY DEF Disconnect
<1>3. ASSUME NEW c \in removals'
      PROVE  c \in RemoveCall /\ c.open = FALSE
  <2>1. PICK d \in removals : c = [d EXCEPT !.open = FALSE]
    BY <1>3 DEF Disconnect
  <2>2. d \in RemoveCall
    BY <1>1 DEF PageTypeOK
  <2> QED  BY <2>1, <2>2 DEF RemoveCall
<1>4. PageTypeOK'
  BY <1>1, <1>2, <1>3, EmptyPageTyped DEF PageTypeOK
<1>5. Closed'
  BY <1>2, <1>3 DEF Closed
<1> QED  BY <1>2, <1>4, <1>5 DEF PageInv

\* Steps of the open page that leave the keys and the proxy alone.
LEMMA OpenKeeps ==
    ASSUME PageInv, PageTypeOK', UNCHANGED <<extension, me, stored, mixed>>, me # NoOne,
           ASSUME mixed = FALSE, Own, Gone
           PROVE  Own' /\ Gone' /\ (overlapped' = FALSE => overlapped = FALSE /\ (Recent => Recent'))
    PROVE  PageInv'
<1>1. ASSUME mixed' = FALSE
      PROVE  Own' /\ Gone' /\ (overlapped' = FALSE => Recent')
  <2>1. mixed = FALSE /\ Own /\ Gone /\ (overlapped = FALSE => Recent)
    BY <1>1 DEF PageInv
  <2> QED  BY <2>1
<1> QED  BY <1>1 DEF PageInv

LEMMA RefreshKeeps ==
    ASSUME PageInv, RefreshPage
    PROVE  PageInv'
<1>1. PageTypeOK /\ me # NoOne
  BY DEF PageInv, RefreshPage
<1> DEFINE D == [dash EXCEPT !.error = FALSE]
<1>2. D \in Screen /\ D.account = dash.account /\ D.blobs = dash.blobs /\ D.extras = dash.extras
  BY <1>1 DEF PageTypeOK, Screen
<1>3. /\ refreshed' = refreshed + 1 /\ refreshes' = refreshes \cup {StartRefresh} /\ dash' = D
      /\ overlapped' = (overlapped \/ refreshes # {})
      /\ UNCHANGED <<extension, me, stored, extraCalls, removals, removed, mixed>>
  BY DEF RefreshPage
<1> HIDE DEF D
<1>4. StartRefresh \in Refresh /\ StartRefresh.account = NoAnswer /\ StartRefresh.blobs = NoAnswer
  BY <1>1, StartTyped
<1>5. PageTypeOK'
  BY <1>1, <1>2, <1>3, <1>4, SMT DEF PageTypeOK
<1>6. overlapped' = FALSE => overlapped = FALSE
  BY <1>1, <1>3 DEF PageTypeOK
<1>7. Own => Own'
  BY <1>2, <1>3, <1>4 DEF Own, Mine
<1>8. Gone => Gone'
  BY <1>3 DEF Gone
<1>9. Recent => Recent'
  BY <1>2, <1>3, <1>4, NoAnswerTyped DEF Recent
<1> QED  BY <1>1, <1>3, <1>5, <1>6, <1>7, <1>8, <1>9, OpenKeeps

\* An answer for one of the two calls of refresh r.
LEMMA AnswerKeeps ==
    ASSUME PageInv, NEW r \in refreshes, GetStorage(r) \/ ListBlobs(r)
    PROVE  PageInv'
<1>1. PageTypeOK /\ me # NoOne /\ r \in Refresh
  BY DEF PageInv, Closed, PageTypeOK
<1>2. Parsed \in Reply /\ Parsed.who = extension /\ Parsed.hashes = stored[extension]
  BY <1>1, ParsedTyped
<1>3. PICK q \in Refresh :
        /\ refreshes' = (refreshes \ {r}) \cup {q}
        /\ q.account \in {r.account, Parsed}
        /\ q.blobs \in {r.blobs, Parsed}
  <2>1. CASE GetStorage(r)
    <3> DEFINE q == [r EXCEPT !.account = Parsed]
    <3>1. q \in Refresh /\ q.account = Parsed /\ q.blobs = r.blobs
      BY <1>1, <1>2 DEF Refresh
    <3>2. refreshes' = (refreshes \ {r}) \cup {q}
      BY <2>1 DEF GetStorage
    <3> QED  BY <3>1, <3>2
  <2>2. CASE ListBlobs(r)
    <3> DEFINE q == [r EXCEPT !.blobs = Parsed]
    <3>1. q \in Refresh /\ q.account = r.account /\ q.blobs = Parsed
      BY <1>1, <1>2 DEF Refresh
    <3>2. refreshes' = (refreshes \ {r}) \cup {q}
      BY <2>2 DEF ListBlobs
    <3> QED  BY <3>1, <3>2
  <2> QED  BY <2>1, <2>2
<1>4. UNCHANGED <<extension, me, stored, dash, extraCalls, removals, refreshed, removed, overlapped, mixed>>
  BY DEF GetStorage, ListBlobs
<1>5. PageTypeOK'
  BY <1>1, <1>3, <1>4 DEF PageTypeOK
<1>6. Own => Own'
  <2> SUFFICES ASSUME Own
               PROVE  Own'
    OBVIOUS
  <2>1. Mine(r.account) /\ Mine(r.blobs) /\ Mine(Parsed)
    BY <1>2 DEF Own, Mine
  <2>2. Mine(q.account) /\ Mine(q.blobs)
    BY <1>3, <2>1
  <2>3. \A p \in refreshes' : Mine(p.account) /\ Mine(p.blobs)
    BY <1>3, <2>2 DEF Own
  <2> QED  BY <1>4, <2>3 DEF Own, Mine
<1>7. Gone => Gone'
  BY <1>4 DEF Gone
<1>8. Own /\ Gone /\ Recent => Recent'
  <2> SUFFICES ASSUME Own, Gone, Recent
               PROVE  Recent'
    OBVIOUS
  <2>1. q.blobs.hashes \cap removed = {}
    BY <1>2, <1>3 DEF Own, Gone, Recent
  <2> QED  BY <1>3, <1>4, <2>1 DEF Recent
<1> QED  BY <1>1, <1>4, <1>5, <1>6, <1>7, <1>8, OpenKeeps

LEMMA RefreshedKeeps ==
    ASSUME PageInv, NEW r \in refreshes, NEW ok \in BOOLEAN, Refreshed(r, ok)
    PROVE  PageInv'
<1>1. PageTypeOK /\ me # NoOne /\ r \in Refresh
  BY DEF PageInv, Closed, PageTypeOK
<1>2. PICK D \in Screen :
        /\ dash' = D /\ D.extras = dash.extras
        /\ \/ D.account = dash.account /\ D.blobs = dash.blobs
           \/ D.account = r.account /\ D.blobs = r.blobs /\ r.account # NoAnswer /\ r.blobs # NoAnswer
  <2>1. CASE ok = TRUE
    <3> DEFINE D == [dash EXCEPT !.account = r.account, !.blobs = r.blobs]
    <3>1. D \in Screen /\ D.extras = dash.extras /\ D.account = r.account /\ D.blobs = r.blobs
      BY <1>1 DEF PageTypeOK, Screen, Refresh
    <3>2. dash' = D /\ r.account # NoAnswer /\ r.blobs # NoAnswer
      BY <2>1 DEF Refreshed
    <3> QED  BY <3>1, <3>2
  <2>2. CASE ok = FALSE
    <3> DEFINE D == [dash EXCEPT !.error = TRUE]
    <3>1. D \in Screen /\ D.extras = dash.extras /\ D.account = dash.account /\ D.blobs = dash.blobs
      BY <1>1 DEF PageTypeOK, Screen
    <3>2. dash' = D
      BY <2>2 DEF Refreshed
    <3> QED  BY <3>1, <3>2
  <2> QED  BY <2>1, <2>2
<1>3. /\ refreshes' = refreshes \ {r}
      /\ UNCHANGED <<extension, me, stored, extraCalls, removals, refreshed, removed, overlapped, mixed>>
  BY DEF Refreshed
<1>4. PageTypeOK'
  BY <1>1, <1>2, <1>3 DEF PageTypeOK
<1>5. Own => Own'
  BY <1>2, <1>3 DEF Own, Mine
<1>6. Gone => Gone'
  BY <1>3 DEF Gone
<1>7. Recent => Recent'
  BY <1>2, <1>3 DEF Recent
<1> QED  BY <1>1, <1>3, <1>4, <1>5, <1>6, <1>7, OpenKeeps

LEMMA ExtrasKeep ==
    ASSUME PageInv, NEW k \in extraCalls, ExtrasArrive(k)
    PROVE  PageInv'
<1>1. PageTypeOK /\ me # NoOne /\ k \in Holder
  BY DEF PageInv, Closed, PageTypeOK
<1>2. PICK D \in Screen : dash' = D /\ D.account = dash.account /\ D.blobs = dash.blobs /\ D.extras \in {dash.extras, {k}}
  <2> DEFINE D == [dash EXCEPT !.extras = {k}]
  <2>1. D \in Screen /\ D.account = dash.account /\ D.blobs = dash.blobs /\ D.extras = {k}
    BY <1>1 DEF PageTypeOK, Screen
  <2>2. dash \in Screen /\ dash' \in {dash, D}
    BY <1>1 DEF ExtrasArrive, PageTypeOK
  <2> QED  BY <2>1, <2>2
<1>3. /\ extraCalls' = extraCalls \ {k}
      /\ UNCHANGED <<extension, me, stored, refreshes, removals, refreshed, removed, overlapped, mixed>>
  BY DEF ExtrasArrive
<1>4. PageTypeOK'
  BY <1>1, <1>2, <1>3 DEF PageTypeOK
<1>5. Own => Own'
  BY <1>2, <1>3 DEF Own, Mine
<1>6. Gone => Gone'
  BY <1>3 DEF Gone
<1>7. Recent => Recent'
  BY <1>2, <1>3 DEF Recent
<1> QED  BY <1>1, <1>3, <1>4, <1>5, <1>6, <1>7, OpenKeeps

LEMMA PressDeleteKeeps ==
    ASSUME PageInv, NEW h \in OwnBlob, PressDelete(h)
    PROVE  PageInv'
<1> DEFINE c == [open |-> TRUE, hash |-> h, who |-> extension, at |-> "sent"]
<1>1. PageTypeOK /\ me # NoOne
  BY DEF PageInv, PressDelete
<1>2. c \in RemoveCall /\ c.who = extension /\ c.at # "gone"
  BY <1>1 DEF PageTypeOK, RemoveCall
<1>3. /\ removals' = removals \cup {c}
      /\ UNCHANGED <<extension, me, stored, dash, refreshes, extraCalls, refreshed, removed, overlapped, mixed>>
  BY DEF PressDelete
<1> HIDE DEF c
<1>4. PageTypeOK'
  BY <1>1, <1>2, <1>3 DEF PageTypeOK
<1>5. Own => Own'
  BY <1>2, <1>3 DEF Own, Mine
<1>6. Gone => Gone'
  BY <1>2, <1>3 DEF Gone
<1>7. Recent => Recent'
  BY <1>3 DEF Recent
<1> QED  BY <1>1, <1>3, <1>4, <1>5, <1>6, <1>7, OpenKeeps

\* The proxy deletes for the key that signed: the connected one, when the page
\* that asked is still open.
LEMMA DeleteKeeps ==
    ASSUME PageInv, NEW c \in removals, DeleteBlob(c)
    PROVE  PageInv'
<1>1. PageTypeOK /\ c \in RemoveCall
  BY DEF PageInv, PageTypeOK
<1>2. PICK a \in {"gone", "failed"} : removals' = (removals \ {c}) \cup {[c EXCEPT !.at = a]}
  BY DEF DeleteBlob
<1> DEFINE q == [c EXCEPT !.at = a]
<1>3. q \in RemoveCall /\ q.open = c.open /\ q.who = c.who /\ q.hash = c.hash
  BY <1>1, <1>2 DEF RemoveCall
<1>4. removals' = (removals \ {c}) \cup {q}
  BY <1>2
<1> HIDE DEF q
<1>5. /\ stored' = [stored EXCEPT ![c.who] = @ \ {c.hash}]
      /\ UNCHANGED <<extension, me, dash, refreshes, extraCalls, refreshed, removed, overlapped, mixed>>
  BY DEF DeleteBlob
<1>6. c.who \in Holder /\ c.hash \in OwnBlob
  BY <1>1 DEF RemoveCall
<1>7. /\ stored' \in [Holder -> SUBSET OwnBlob]
      /\ \A k \in Holder : stored'[k] \subseteq stored[k]
      /\ c.hash \notin stored'[c.who]
  BY <1>1, <1>5, <1>6 DEF PageTypeOK
<1>8. PageTypeOK'
  BY <1>1, <1>3, <1>4, <1>5, <1>7 DEF PageTypeOK
<1>9. Closed => Closed'
  BY <1>3, <1>4, <1>5 DEF Closed
<1>10. Own => Own'
  BY <1>3, <1>4, <1>5 DEF Own, Mine
<1>11. Own /\ Gone /\ me # NoOne => Gone'
  <2> SUFFICES ASSUME Own, Gone, me # NoOne
               PROVE  Gone'
    OBVIOUS
  <2>1. me \in Holder /\ stored'[me] \subseteq stored[me]
    BY <1>1, <1>7 DEF PageTypeOK
  <2>2. q.open = TRUE => q.hash \notin stored'[me]
    BY <1>3, <1>7 DEF Own
  <2>3. removed' \cap stored'[me] = {}
    BY <1>5, <2>1 DEF Gone
  <2>4. \A d \in removals' : d.open = TRUE /\ d.at = "gone" => d.hash \notin stored'[me]
    BY <1>4, <2>1, <2>2 DEF Gone
  <2> QED  BY <1>5, <2>3, <2>4 DEF Gone
<1>12. Recent => Recent'
  BY <1>5 DEF Recent
<1> QED  BY <1>5, <1>8, <1>9, <1>10, <1>11, <1>12 DEF PageInv

\* The row goes at once, and the refresh that starts asks after the deletion.
LEMMA RemovedNowKeeps ==
    ASSUME PageInv, NEW c \in removals, Removed(c), c.at = "gone", c.open = TRUE
    PROVE  PageInv'
<1>1. PageTypeOK /\ me # NoOne /\ c \in RemoveCall
  BY DEF PageInv, PageTypeOK, Closed
<1>2. /\ removals' = removals \ {c}
      /\ dash' = RemovedNow(c) /\ removed' = removed \cup {c.hash}
      /\ refreshed' = refreshed + 1
      /\ refreshes' = refreshes \cup {StartRefresh}
      /\ overlapped' = (overlapped \/ refreshes # {})
      /\ UNCHANGED <<extension, me, stored, extraCalls, mixed>>
  BY DEF Removed
<1>3. /\ RemovedNow(c) \in Screen
      /\ RemovedNow(c).account = dash.account
      /\ RemovedNow(c).extras = dash.extras
      /\ RemovedNow(c).blobs.who = dash.blobs.who
      /\ RemovedNow(c).blobs.hashes = dash.blobs.hashes \ {c.hash}
  <2>1. dash \in Screen /\ dash.blobs \in Reply
    BY <1>1 DEF PageTypeOK, Screen
  <2> DEFINE b == [dash.blobs EXCEPT !.hashes = @ \ {c.hash}]
  <2>2. b \in Reply /\ b.who = dash.blobs.who /\ b.hashes = dash.blobs.hashes \ {c.hash}
    BY <2>1 DEF Reply
  <2>3. RemovedNow(c) = [dash EXCEPT !.blobs = b, !.error = FALSE]
    BY <2>1 DEF RemovedNow, Screen
  <2> HIDE DEF b
  <2> QED  BY <2>1, <2>2, <2>3 DEF Screen
<1>4. StartRefresh \in Refresh /\ StartRefresh.account = NoAnswer /\ StartRefresh.blobs = NoAnswer
  BY <1>1, StartTyped
<1>5. c.hash \in OwnBlob
  BY <1>1 DEF RemoveCall
<1>6. PageTypeOK'
  BY <1>1, <1>2, <1>3, <1>4, <1>5, SMT DEF PageTypeOK
<1>7. overlapped' = FALSE => overlapped = FALSE /\ refreshes = {}
  BY <1>1, <1>2 DEF PageTypeOK
<1>8. Own => Own'
  BY <1>2, <1>3, <1>4 DEF Own, Mine
<1>9. Gone => Gone'
  BY <1>2 DEF Gone
<1>10. Recent /\ overlapped' = FALSE => Recent'
  BY <1>2, <1>3, <1>4, <1>7, NoAnswerTyped DEF Recent
<1> QED  BY <1>1, <1>2, <1>6, <1>7, <1>8, <1>9, <1>10, OpenKeeps

LEMMA RemovedKeeps ==
    ASSUME PageInv, NEW c \in removals, Removed(c)
    PROVE  PageInv'
<1>1. PageTypeOK /\ c \in RemoveCall /\ c.open \in BOOLEAN
  BY DEF PageInv, PageTypeOK, RemoveCall
<1>2. CASE c.at = "gone" /\ c.open = TRUE
  BY <1>2, RemovedNowKeeps
<1>3. CASE ~(c.at = "gone" /\ c.open = TRUE)
  <2>1. /\ removals' = removals \ {c}
        /\ UNCHANGED <<extension, me, stored, dash, refreshes, extraCalls, refreshed, removed, overlapped, mixed>>
    BY <1>1, <1>3 DEF Removed
  <2>2. PageTypeOK'
    BY <1>1, <2>1 DEF PageTypeOK
  <2>3. Closed => Closed'
    BY <2>1 DEF Closed
  <2>4. Own => Own'
    BY <2>1 DEF Own, Mine
  <2>5. Gone => Gone'
    BY <2>1 DEF Gone
  <2>6. Recent => Recent'
    BY <2>1 DEF Recent
  <2> QED  BY <2>1, <2>2, <2>3, <2>4, <2>5, <2>6 DEF PageInv
<1> QED  BY <1>2, <1>3

LEMMA PageStep == PageInv /\ [PageNext]_dashVars => PageInv'
<1> SUFFICES ASSUME PageInv, [PageNext]_dashVars
             PROVE  PageInv'
  OBVIOUS
<1>1. CASE PageNext
  BY <1>1, SwitchKeeps, ConnectKeeps, DisconnectKeeps, RefreshKeeps, AnswerKeeps, RefreshedKeeps, ExtrasKeep,
     PressDeleteKeeps, DeleteKeeps, RemovedKeeps DEF PageNext
<1>2. CASE UNCHANGED dashVars
  BY <1>2 DEF dashVars, PageInv, PageTypeOK, Closed, Own, Mine, Gone, Recent
<1> QED  BY <1>1, <1>2

\* Dashboard.tsx, refresh and remove: for any keys, blobs and number of refreshes.
THEOREM DashboardTellsTheTruth == PageSpec => []DashboardTrue
<1>1. PageInit => PageInv
  <2> SUFFICES ASSUME PageInit
               PROVE  PageInv
    OBVIOUS
  <2>1. PageTypeOK
    BY EmptyPageTyped DEF PageInit, PageTypeOK
  <2>2. me = NoOne /\ Closed
    BY DEF PageInit, Closed
  <2> QED  BY <2>1, <2>2 DEF PageInv
<1>2. PageInv => DashboardTrue
  <2> SUFFICES ASSUME PageInv, me # NoOne, mixed = FALSE
               PROVE  /\ Whose \subseteq {me}
                      /\ ~overlapped => Rows \cap removed = {}
    BY DEF DashboardTrue, PageInv, PageTypeOK
  <2>1. PageTypeOK /\ Own /\ (overlapped = FALSE => Recent)
    BY DEF PageInv
  <2>2. Whose \subseteq {me}
    BY <2>1 DEF Whose, Displayed, Own
  <2>3. ~overlapped => Rows \cap removed = {}
    BY <2>1, NoAnswerTyped DEF Rows, Recent, PageTypeOK
  <2> QED  BY <2>2, <2>3
<1> QED  BY <1>1, <1>2, PageStep, PTL DEF PageSpec

-----------------------------------------------------------------------------
(***************************************************************************)
(* Notifier.  The invariant says that a notice about to be sent is one the *)
(* pass holds the claim of.                                                *)
(***************************************************************************)

\* A pass has the fields of a pass, whatever they hold.
PassShape(q) ==
    q \in [at : {q.at}, now : {q.now}, page : {q.page}, last : {q.last}, items : {q.items}, cur : {q.cur}]
Sending(p) == pass[p].at = "send"

\* What a pass is about to send is logged and not sent, and no other pass is
\* about to send it.
NotifierInv ==
    /\ pass = [p \in Pass |-> pass[p]]
    /\ \A p \in Pass : PassShape(pass[p])
    /\ sent \subseteq log /\ twice = {}
    /\ \A p \in Pass : Sending(p) => pass[p].cur \in log \ sent
    /\ \A p, q \in Pass : p # q /\ Sending(p) /\ Sending(q) => pass[p].cur # pass[q].cur

LEMMA NoPassShape == PassShape(NoPass) /\ NoPass.at = "idle"
BY DEF NoPass, PassShape

\* Whatever a pass awaits next, it is a log row, a purge or a page.
LEMMA ContinueWaits ==
    ASSUME NEW q, PassShape(q)
    PROVE  PassShape(Continue(q)) /\ Continue(q).at # "send"
<1>1. CASE q.items = <<>> /\ q.last
  <2>1. Continue(q) = NoPass
    BY <1>1 DEF Continue
  <2> QED  BY <2>1, NoPassShape
<1>2. CASE q.items = <<>> /\ ~q.last
  <2>1. Continue(q) = [q EXCEPT !.at = "list", !.page = q.page + 1, !.cur = NULL]
    BY <1>2 DEF Continue
  <2> QED  BY <2>1 DEF PassShape
<1>3. CASE q.items # <<>>
  <2>1. PICK at \in {"deliver", "purge"} : Continue(q) = [q EXCEPT !.at = at, !.cur = NULL]
    BY <1>3 DEF Continue
  <2> QED  BY <2>1 DEF PassShape
<1> QED  BY <1>1, <1>2, <1>3

LEMMA RestShape ==
    ASSUME NEW q, PassShape(q)
    PROVE  PassShape(Rest(q))
BY DEF Rest, PassShape

\* A step of pass p that sends nothing.
LEMMA PassMoves ==
    ASSUME NotifierInv, NEW p \in Pass, NEW x, PassShape(x), Set(p, x),
           UNCHANGED <<sent, twice>>,
           \/ x.at # "send" /\ log \subseteq log'
           \/ x.cur \notin log /\ log' = log \cup {x.cur}
    PROVE  NotifierInv'
<1>1. /\ pass' = [q \in Pass |-> pass'[q]] /\ pass'[p] = x
      /\ \A q \in Pass \ {p} : pass'[q] = pass[q]
  BY DEF Set, NotifierInv
<1>2. \A q \in Pass : PassShape(pass'[q])
  BY <1>1 DEF NotifierInv
<1>3. sent' \subseteq log' /\ twice' = {}
  BY DEF NotifierInv
<1>4. ASSUME NEW q \in Pass, pass'[q].at = "send"
      PROVE  pass'[q].cur \in log' \ sent'
  <2>1. CASE q = p
    BY <1>1, <1>4, <2>1 DEF NotifierInv
  <2>2. CASE q # p
    BY <1>1, <1>4, <2>2 DEF NotifierInv, Sending
  <2> QED  BY <2>1, <2>2
<1>5. ASSUME NEW q \in Pass, NEW r \in Pass, q # r, pass'[q].at = "send", pass'[r].at = "send"
      PROVE  pass'[q].cur # pass'[r].cur
  <2>1. CASE q # p /\ r # p
    BY <1>1, <1>5, <2>1 DEF NotifierInv, Sending
  <2>2. CASE q = p
    <3>1. pass'[r].cur \in log /\ pass'[q].cur = x.cur /\ x.at = "send"
      BY <1>1, <1>5, <2>2 DEF NotifierInv, Sending
    <3> QED  BY <3>1
  <2>3. CASE r = p
    <3>1. pass'[q].cur \in log /\ pass'[r].cur = x.cur /\ x.at = "send"
      BY <1>1, <1>5, <2>3 DEF NotifierInv, Sending
    <3> QED  BY <3>1
  <2> QED  BY <2>1, <2>2, <2>3
<1> QED  BY <1>1, <1>2, <1>3, <1>4, <1>5 DEF NotifierInv, Sending

LEMMA StartPassKeeps ==
    ASSUME NotifierInv, NEW p \in Pass, PassStart(p)
    PROVE  NotifierInv'
<1> DEFINE x == [NoPass EXCEPT !.at = "list", !.now = now, !.page = 1]
<1>1. PassShape(x) /\ x.at = "list"
  BY NoPassShape DEF PassShape
<1>2. Set(p, x) /\ UNCHANGED <<log, sent, twice>>
  BY DEF PassStart
<1> HIDE DEF x
<1> QED  BY <1>1, <1>2, PassMoves

LEMMA ListKeeps ==
    ASSUME NotifierInv, NEW p \in Pass, List(p)
    PROVE  NotifierInv'
<1>1. PassShape(pass[p])
  BY DEF NotifierInv
<1>2. PICK items, last : Set(p, Continue([pass[p] EXCEPT !.items = items, !.last = last]))
  BY DEF List
<1> DEFINE y == [pass[p] EXCEPT !.items = items, !.last = last]
<1>3. PassShape(y)
  BY <1>1 DEF PassShape
<1>4. Set(p, Continue(y)) /\ UNCHANGED <<log, sent, twice>>
  BY <1>2 DEF List
<1> HIDE DEF y
<1> QED  BY <1>3, <1>4, ContinueWaits, PassMoves

\* The log row is the claim: of the passes that find a message due, the one
\* whose row is new sends it.
LEMMA DeliverKeeps ==
    ASSUME NotifierInv, NEW p \in Pass, Deliver(p)
    PROVE  NotifierInv'
<1>1. PassShape(pass[p])
  BY DEF NotifierInv
<1>2. PICK key, y :
        /\ y = Rest([pass[p] EXCEPT !.items[1].todo = @ \ {key}])
        /\ \/ key \notin log /\ log' = log \cup {key} /\ Set(p, [y EXCEPT !.at = "send", !.cur = key])
           \/ Set(p, Continue(y)) /\ UNCHANGED log
  BY DEF Deliver
<1>3. PassShape(y)
  <2> DEFINE z == [pass[p] EXCEPT !.items[1].todo = @ \ {key}]
  <2>1. PassShape(z)
    BY <1>1 DEF PassShape
  <2>2. y = Rest(z)
    BY <1>2
  <2> HIDE DEF z
  <2> QED  BY <2>1, <2>2, RestShape
<1>4. UNCHANGED <<sent, twice>>
  BY DEF Deliver
<1>5. CASE key \notin log /\ log' = log \cup {key} /\ Set(p, [y EXCEPT !.at = "send", !.cur = key])
  <2> DEFINE x == [y EXCEPT !.at = "send", !.cur = key]
  <2>1. PassShape(x) /\ x.cur = key
    BY <1>3 DEF PassShape
  <2>2. Set(p, x)
    BY <1>5
  <2> HIDE DEF x
  <2> QED  BY <1>4, <1>5, <2>1, <2>2, PassMoves
<1>6. CASE Set(p, Continue(y)) /\ UNCHANGED log
  BY <1>3, <1>4, <1>6, ContinueWaits, PassMoves
<1> QED  BY <1>2, <1>5, <1>6

LEMMA SendKeeps ==
    ASSUME NotifierInv, NEW p \in Pass, Send(p)
    PROVE  NotifierInv'
<1>1. PICK x : x = Continue(pass[p]) /\ PassShape(x) /\ x.at # "send"
  BY ContinueWaits, SMT DEF NotifierInv
<1>2. PICK key : key = pass[p].cur
  OBVIOUS
<1>3. /\ pass' = [pass EXCEPT ![p] = x] /\ log' = log /\ Sending(p)
      /\ \/ UNCHANGED <<sent, twice>>
         \/ sent' = sent \cup {key} /\ twice' = IF key \in sent THEN twice \cup {key} ELSE twice
  BY <1>1, <1>2 DEF Send, Set, Sending
<1>4. key \in log \ sent
  BY <1>2, <1>3 DEF NotifierInv
<1>5. sent \subseteq log /\ sent' \subseteq sent \cup {key} /\ twice' = {}
  BY <1>3, <1>4 DEF NotifierInv
<1>6. /\ pass' = [q \in Pass |-> pass'[q]] /\ pass'[p] = x
      /\ \A q \in Pass \ {p} : pass'[q] = pass[q]
  BY <1>3 DEF NotifierInv
<1>7. \A q \in Pass : PassShape(pass'[q])
  BY <1>1, <1>6 DEF NotifierInv
<1>8. ASSUME NEW q \in Pass, pass'[q].at = "send"
      PROVE  q # p /\ pass[q].at = "send" /\ pass'[q].cur = pass[q].cur /\ pass[q].cur \in log \ sent'
  BY <1>1, <1>2, <1>3, <1>5, <1>6, <1>8 DEF NotifierInv, Sending
<1>9. sent' \subseteq log'
  BY <1>3, <1>4, <1>5
<1> QED  BY <1>3, <1>5, <1>6, <1>7, <1>8, <1>9 DEF NotifierInv, Sending

LEMMA PurgeKeeps ==
    ASSUME NotifierInv, NEW p \in Pass, Purge(p)
    PROVE  NotifierInv'
<1>1. PassShape(pass[p])
  BY DEF NotifierInv
<1>2. PICK done : Set(p, Continue(Rest([pass[p] EXCEPT !.items[1] = done])))
  BY DEF Purge
<1> DEFINE y == [pass[p] EXCEPT !.items[1] = done]
<1>3. PassShape(Rest(y))
  <2>1. PassShape(y)
    BY <1>1 DEF PassShape
  <2> QED  BY <2>1, RestShape
<1>4. Set(p, Continue(Rest(y))) /\ UNCHANGED <<log, sent, twice>>
  BY <1>2 DEF Purge
<1> HIDE DEF y
<1> QED  BY <1>3, <1>4, ContinueWaits, PassMoves

LEMMA CrashKeeps ==
    ASSUME NotifierInv, Crash
    PROVE  NotifierInv'
<1>1. pass' = [p \in Pass |-> NoPass] /\ UNCHANGED <<log, sent, twice>>
  BY DEF Crash
<1>2. \A p \in Pass : PassShape(pass'[p]) /\ pass'[p].at # "send"
  BY <1>1, NoPassShape
<1> QED  BY <1>1, <1>2 DEF NotifierInv, Sending

\* For any accounts, passes, channels and pages, however passes overlap, fail
\* and restart, no message goes out twice (runOnce, logNotification before send).
THEOREM NoticesGoOnce == NotifierSpec => []SentOnce
<1>1. NotifierInit => NotifierInv
  <2> SUFFICES ASSUME NotifierInit
               PROVE  NotifierInv
    OBVIOUS
  <2>1. pass = [p \in Pass |-> NoPass] /\ log = {} /\ sent = {} /\ twice = {}
    BY DEF NotifierInit
  <2>2. \A p \in Pass : PassShape(pass[p]) /\ pass[p].at # "send"
    BY <2>1, NoPassShape
  <2> QED  BY <2>1, <2>2 DEF NotifierInv, Sending
<1>2. NotifierInv /\ [NotifierNext]_<<accountVars, notifierVars>> => NotifierInv'
  <2> SUFFICES ASSUME NotifierInv, [NotifierNext]_<<accountVars, notifierVars>>
               PROVE  NotifierInv'
    OBVIOUS
  <2>1. CASE UNCHANGED notifierVars
    BY <2>1 DEF notifierVars, NotifierInv, Sending
  <2> QED  BY <2>1, StartPassKeeps, ListKeeps, DeliverKeeps, SendKeeps, PurgeKeeps, CrashKeeps
           DEF NotifierNext, Run
<1>3. NotifierInv => SentOnce
  BY DEF NotifierInv, SentOnce
<1> QED  BY <1>1, <1>2, <1>3, PTL DEF NotifierSpec
=============================================================================
