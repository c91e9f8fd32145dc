---------------------------- MODULE RequestGuards ----------------------------
(***************************************************************************)
(* What a signed request passes before its handler runs, at the proxy and  *)
(* at db-api: the fixed-window rate limiter, verifyNip98 with its time     *)
(* window and replay cache, then the admin gate (requireAdmin, asking      *)
(* formstr-backend through a cache) or the service gate                    *)
(* (createInternalRoleGate, createServiceAccountGate, asking every time).  *)
(***************************************************************************)
EXTENDS Integers, FiniteSets

CONSTANTS
    Signed,        \* signed events, each with its created_at
    Guarded,       \* requests that may be under way at once
    Skew,          \* maxSkewSeconds
    RateWindow, RateMax,
    AdminTTL,      \* ttlMs of createAdminIdentity
    AdminTimeout,  \* the timeout of an admin-check
    MaxSecond      \* bound on time

ASSUME GuardAssumption ==
    /\ {Skew, RateWindow, RateMax, AdminTimeout} \subseteq Nat /\ AdminTTL \in Nat \ {0}

VARIABLES
    second,    \* the server's clock
    created,   \* created_at of each event
    seen,      \* the replay cache: events and the second each was accepted
    accepted,  \* history: events accepted so far
    replayed,  \* history: events accepted again
    bucket,    \* the limiter's bucket of one client
    gate,      \* the gate of the endpoint: "admin" or "service"
    role,      \* does the signer hold the role the gate asks for
    lastHeld,  \* history: the last second it did
    known,     \* the admin cache: answer and the second it was stored
    guard,     \* the requests
    late       \* history: a handler ran long after the role was last held

guardVars == <<second, created, seen, accepted, replayed, bucket, gate, role, lastHeld,
               known, guard, late>>

NoGuard == [at |-> "idle", held |-> FALSE, until |-> 0]

GuardInit ==
    /\ second = 0
    /\ created \in [Signed -> 0..MaxSecond]
    /\ seen = {} /\ accepted = {} /\ replayed = {}
    /\ bucket = [count |-> 0, resetAt |-> 0]
    /\ gate \in {"admin", "service"} /\ role = TRUE /\ lastHeld = 0
    /\ known = [admin |-> FALSE, at |-> -AdminTTL]
    /\ guard = [r \in Guarded |-> NoGuard]
    /\ late = FALSE

-----------------------------------------------------------------------------
\* hit of the rate limiter: a bucket that is over starts anew.  Past RateMax
\* the count tells nothing more and stops.
Hit == IF second >= bucket.resetAt THEN [count |-> 1, resetAt |-> second + RateWindow]
       ELSE [bucket EXCEPT !.count = IF @ > RateMax THEN @ ELSE @ + 1]
\* Only the admin endpoints are limited.
Limited == gate = "admin" /\ Hit.count > RateMax
InWindow(e) == second - created[e] <= Skew /\ created[e] - second <= Skew
\* Bug: entries are forgotten after one window.
KeptOneWindow == {s \in seen : second - s.at <= Skew}
\* remember of the replay cache, past its sweep: entries older than two windows go.
Kept == {s \in seen : second - s.at <= 2 * Skew}
Fresh(e) == \A s \in Kept : s.id # e

\* The handler runs for a signer said to hold the role; for the history, how
\* long ago that was true.
RunIf(held) ==
    late' = (late \/ (held /\ gate = "admin" /\ second - lastHeld >= AdminTTL + AdminTimeout))

\* Bug: an entry is good for one tick too long.
ValidTooLong == second - known.at <= AdminTTL
Valid == second - known.at < AdminTTL

\* The request arrives: limiter, verifyNip98, and the gate as far as its await.
\* A cached answer decides at once; otherwise the registry is asked.
Present(r, e) ==
    /\ guard[r].at = "idle"
    /\ bucket' = IF gate = "admin" THEN Hit ELSE bucket
    /\ \/ /\ Limited \/ ~InWindow(e)
          /\ UNCHANGED <<seen, accepted, replayed, guard, late>>
       \/ /\ ~Limited /\ InWindow(e) /\ ~Fresh(e)
          /\ seen' = Kept
          /\ UNCHANGED <<accepted, replayed, guard, late>>
       \/ /\ ~Limited /\ InWindow(e) /\ Fresh(e)
          /\ seen' = Kept \cup {[id |-> e, at |-> second]}
          /\ replayed' = replayed \cup ({e} \cap accepted)
          /\ accepted' = accepted \cup {e}
          /\ IF gate = "admin" /\ Valid
             THEN RunIf(known.admin) /\ UNCHANGED guard
             ELSE /\ guard' = [guard EXCEPT ![r] = [NoGuard EXCEPT !.at = "asking",
                                                      !.until = second + AdminTimeout]]
                  /\ UNCHANGED late
    /\ UNCHANGED <<second, created, gate, role, lastHeld, known>>

\* The registry looks the signer up.
LookUpRole(r) ==
    /\ guard[r].at = "asking"
    /\ guard' = [guard EXCEPT ![r].at = "answered", ![r].held = role]
    /\ UNCHANGED <<second, created, seen, accepted, replayed, bucket, gate, role, lastHeld, known, late>>

\* The answer arrives, an admin's is cached as of now, and the handler runs or
\* 403 is sent; ...
RoleAnswered(r) ==
    /\ guard[r].at = "answered"
    /\ known' = IF gate = "admin" THEN [admin |-> guard[r].held, at |-> second] ELSE known
    /\ RunIf(guard[r].held)
    /\ guard' = [guard EXCEPT ![r] = NoGuard]
    /\ UNCHANGED <<second, created, seen, accepted, replayed, bucket, gate, role, lastHeld>>
\* ... or the check fails or times out: denied, and nothing cached.
RoleUnknown(r) ==
    /\ guard[r].at \in {"asking", "answered"}
    /\ guard' = [guard EXCEPT ![r] = NoGuard]
    /\ UNCHANGED <<second, created, seen, accepted, replayed, bucket, gate, role, lastHeld, known, late>>

\* The registry's operator gives or takes a role.
SetRole ==
    /\ role' = ~role
    /\ lastHeld' = second
    /\ UNCHANGED <<second, created, seen, accepted, replayed, bucket, gate, known, guard, late>>

\* A second passes; an admin-check does not outlast its timeout.
PassTime ==
    /\ second < MaxSecond
    /\ \A r \in Guarded : gate = "admin" /\ guard[r].at # "idle" => second < guard[r].until
    /\ second' = second + 1
    /\ lastHeld' = IF role THEN second + 1 ELSE lastHeld
    /\ UNCHANGED <<created, seen, accepted, replayed, bucket, gate, role, known, guard, late>>

GuardNext ==
    \/ \E r \in Guarded, e \in Signed : Present(r, e)
    \/ \E r \in Guarded : LookUpRole(r) \/ RoleAnswered(r) \/ RoleUnknown(r)
    \/ SetRole \/ PassTime

GuardSpec == GuardInit /\ [][GuardNext]_guardVars

-----------------------------------------------------------------------------
(***************************************************************************)
(* A signed event is accepted at most once, whatever created_at it carries *)
(* within the window: the replay cache forgets it only when verifyNip98    *)
(* refuses it as too old (the entry outlives two windows, the event one    *)
(* after a start at most one window early).                                *)
(***************************************************************************)
AcceptedOnce == replayed = {}

(***************************************************************************)
(* An admin endpoint's handler runs only for a signer that was an admin    *)
(* less than a cache lifetime and a check timeout ago, with checks of two  *)
(* requests answering in either order (createAdminIdentity stamps its      *)
(* entry when the answer arrives, not when the role was read).             *)
(***************************************************************************)
RoleRecent == ~late
=============================================================================
