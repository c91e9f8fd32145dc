---------------------------- MODULE MCEntitlement ---------------------------
(* Two accounts, up to three payments and an admin grant, two at a time.      *)
EXTENDS Entitlement, TLC

CONSTANTS u1, u2, p1, p2, p3, t1, t2

Pay(p, b, m) == [hash |-> p, days |-> 1, bytes |-> b, source |-> "payment",
                 mode |-> m, force |-> FALSE, override |-> NULL]
Admin(b, f, o) == [hash |-> NULL, days |-> 2, bytes |-> b, source |-> "admin",
                   mode |-> NULL, force |-> f, override |-> o]

\* A renewal with and without a mode, an upgrade, and an admin's forced grant that also
\* sets the end of the plan.
MCRequest == {Pay(p1, 1, NULL), Pay(p1, 1, "extend"), Pay(p2, 2, "upgrade"),
              Admin(3, TRUE, 1)}

\* Purchases that differ in nothing but the payment.
MCPurchases == {Pay(p, 1, "extend") : p \in Payment}

Symmetry == Permutations(Npub) \cup Permutations(Tx)

=============================================================================
