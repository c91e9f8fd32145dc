----------------------------- MODULE MCBlobStore ----------------------------
(* Two accounts, one blob they may share, two nodes and two requests at a     *)
(* time.                                                                      *)
EXTENDS BlobStore, TLC

CONSTANTS u1, u2, h1, t1, t2, n1, n2

MCSizeOf == h1 :> 1

\* Accounts, connections and nodes are interchangeable.
Symmetry == Permutations(Npub) \cup Permutations(Tx) \cup Permutations(Node)

\* Once a hash is in raced the invariants claim nothing about it, and there is
\* only one: such states need not be explored further.
NothingRaced == raced = {}

=============================================================================
