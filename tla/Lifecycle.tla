----------------------------- MODULE Lifecycle -----------------------------
(***************************************************************************)
(* Accounts and time (packages/lifecycle, db-api's user rows): what an     *)
(* account may do is derived from its plan's expiry, its allowance and its *)
(* usage at the moment of asking; nothing stores it.  One unit of time     *)
(* stands for every duration of the configuration.                         *)
(***************************************************************************)
EXTENDS Integers, FiniteSets, FiniteSetsExt

CONSTANTS
    Npub,           \* accounts
    Hash,           \* blobs, each of size one
    NULL,
    GraceDays, WriteBlockedDays, ReadBlockedDays,
    Period,         \* length of a plan
    Allowance,      \* allowances on sale
    MaxTime         \* bound on the clock

ASSUME LifecycleAssumption ==
    /\ GraceDays \in Nat \ {0} /\ WriteBlockedDays \in Nat /\ ReadBlockedDays \in Nat
    /\ Period \in Nat \ {0} /\ MaxTime \in Nat /\ Allowance \subseteq Nat
    /\ NULL \notin Int

VARIABLES
    now,     \* the clock
    user,    \* user: planExpiresAt and storageBytes, NULL before a purchase
    rows     \* blob rows: pairs of hash and npub

accountVars == <<now, user, rows>>

NoPlan == [expires |-> NULL, bytes |-> NULL]

\* usedStorage, which db-api keeps equal to the sizes of the rows.
Used(n) == Cardinality({b \in rows : b[2] = n})
Owners(h) == {n \in Npub : <<h, n>> \in rows}

\* deriveAccess(user, now, config).
GraceUntil(u) == u.expires + GraceDays
WriteBlockedUntil(u) == GraceUntil(u) + WriteBlockedDays
ReadBlockedUntil(u) == WriteBlockedUntil(u) + ReadBlockedDays
OverAllowance(u, used) == u.bytes # NULL /\ used > u.bytes

Status(u, used, t) ==
    CASE u.expires = NULL -> "UNPAID"
      [] u.expires # NULL /\ t >= ReadBlockedUntil(u) -> "CLOSED"
      [] u.expires # NULL /\ t < u.expires ->
           IF OverAllowance(u, used) THEN "GRACE" ELSE "ACTIVE"
      [] u.expires # NULL /\ u.expires <= t /\ t < GraceUntil(u) -> "GRACE"
      [] u.expires # NULL /\ GraceUntil(u) <= t /\ t < WriteBlockedUntil(u)
           -> "WRITE_BLOCKED"
      [] OTHER -> "READ_BLOCKED"
CanUpload(u, used, t) == Status(u, used, t) = "ACTIVE"
CanRead(u, used, t) == Status(u, used, t) \in {"ACTIVE", "GRACE", "WRITE_BLOCKED"}

AccountInit ==
    /\ now = 0 /\ rows = {}
    /\ user = [n \in Npub |-> NoPlan]

Tick ==
    /\ now < MaxTime
    /\ now' = now + 1
    /\ UNCHANGED <<user, rows>>

\* POST /internal/users/:npub/entitlement: a plan bought or extended.
Purchase(n, bytes) ==
    /\ LET from == IF user[n].expires # NULL /\ user[n].expires > now
                   THEN user[n].expires ELSE now
       IN /\ from + Period <= MaxTime
          /\ user' = [user EXCEPT ![n] = [expires |-> from + Period, bytes |-> bytes]]
    /\ UNCHANGED <<now, rows>>
=============================================================================
