------------------------------- MODULE Ledger -------------------------------
(***************************************************************************)
(* What the blob ledger promises its callers, without transactions, locks   *)
(* or a stored counter: an account owns a set of blobs; it may add one only *)
(* while the bytes of all it owns stay within its allowance; any group of   *)
(* owners can give one blob back.  BlobLedger is shown to implement this.   *)
(***************************************************************************)
EXTENDS Integers, FiniteSets

CONSTANTS Npub, Hash, SizeOf, Allowance, NULL

VARIABLES owned,      \* the (npub, hash) pairs
          allowance   \* bytes an account may own; NULL when there is no limit

Owned(u) == {h \in Hash : <<u, h>> \in owned}
Billed(u) == Cardinality(UNION {{h} \X (1 .. SizeOf[h]) : h \in Owned(u)})

Init == owned = {} /\ allowance = [u \in Npub |-> NULL]

SetAllowance(u, q) ==
    /\ allowance' = [allowance EXCEPT ![u] = q]
    /\ UNCHANGED owned

Claim(u, h) ==
    /\ h \notin Owned(u)
    /\ allowance[u] = NULL \/ Billed(u) + SizeOf[h] <= allowance[u]
    /\ owned' = owned \cup {<<u, h>>}
    /\ UNCHANGED allowance

Release(S, h) ==
    /\ \A u \in S : h \in Owned(u)
    /\ owned' = owned \ (S \X {h})
    /\ UNCHANGED allowance

Next ==
    \/ \E u \in Npub, q \in Allowance : SetAllowance(u, q)
    \/ \E u \in Npub, h \in Hash : Claim(u, h)
    \/ \E S \in SUBSET Npub, h \in Hash : Release(S, h)

Spec == Init /\ [][Next]_<<owned, allowance>>

=============================================================================
