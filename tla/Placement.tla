----------------------------- MODULE Placement -----------------------------
(***************************************************************************)
(* Where the proxy puts the copies of a blob and where it looks for them   *)
(* (proxy/blossom/src/servers.ts).  db-api lists the storages that pinged  *)
(* lately, the proxy polls that list into its own roster, an upload walks  *)
(* the roster in an order seeded by owner and hour until it has enough     *)
(* copies, and a read walks the recorded replicas.  Polls fail and answer  *)
(* late; storages come and go while an upload or a read is under way.      *)
(***************************************************************************)
EXTENDS Integers, Sequences, FiniteSets, SequencesExt

CONSTANTS
    Storage,        \* npubs, numbered in their order
    Host,           \* the address that a storage's machine has in the mesh, a
                    \* number that is no storage
    ReplicaTarget,  \* BLOSSOM_REPLICAS
    Seed,           \* values of hash(npub:timeSlot)
    MaxChanges      \* bound on what happens to the storages

VARIABLES
    row,            \* db-api's row: "new" (no address yet), "active", "silent"
                    \* (no ping within the window) or "removed"
    changes,        \* how often a row has changed
    poll,           \* the answer on its way to the proxy, NoPoll without one
    roster,         \* byId: the storages that the proxy knows an address of
    holders,        \* machines that hold the bytes
    place,          \* the upload: step, seed, storages remaining, stored, tried,
                    \* and those it started from
    pointers,       \* replicas in the blob's row: npubs, or addresses (legacy)
    look            \* the read: replicas still to try, and how it ended

placeVars == <<row, changes, poll, roster, holders, place, pointers, look>>

NoPoll == {0}   \* no storage is 0
Address == {Host[s] : s \in Storage}
NoPlace == [at |-> "idle", seed |-> 0, remaining |-> {}, stored |-> <<>>, tried |-> {}, from |-> {}]
NoLook == [at |-> "idle", left |-> <<>>]

\* Either nothing is stored yet, or a blob from before replicas were npubs is.
PlaceInit ==
    /\ row = [s \in Storage |-> "new"] /\ changes = 0
    /\ poll = NoPoll /\ roster = {}
    /\ look = NoLook
    /\ \/ place = NoPlace /\ holders = {} /\ pointers = <<>>
       \/ \E a \in Address :
             place = [NoPlace EXCEPT !.at = "legacy"] /\ holders = {a} /\ pointers = <<a>>
-----------------------------------------------------------------------------
(***************************************************************************)
(* db-api                                                                  *)
(***************************************************************************)

\* A ping, the end of the window since the last one, DELETE /storages/:npub,
\* and POST /storages for a storage that is known (its old ping still counts).
RowChanges(s, to) ==
    /\ changes < MaxChanges /\ row[s] # to
    /\ to = "active" => row[s] # "removed"
    /\ to = "silent" => row[s] # "new"
    /\ row' = [row EXCEPT ![s] = to] /\ changes' = changes + 1
    /\ UNCHANGED <<poll, roster, holders, place, pointers, look>>

\* GET /storages/active
ListActive == {s \in Storage : row[s] = "active"}

\* An address stands for a storage when one row alone has it, removed or not.
Aliases(a) == {s \in Storage : Host[s] = a /\ row[s] # "new"}
Rewrite(p) ==
    IF p \in Address /\ Cardinality(Aliases(p)) = 1 THEN CHOOSE s \in Aliases(p) : TRUE ELSE p

\* POST /storages/backfill-replicas, in one transaction.
BackfillReplicas ==
    /\ pointers' = [i \in DOMAIN pointers |-> Rewrite(pointers[i])]
    /\ pointers' # pointers
    /\ UNCHANGED <<row, changes, poll, roster, holders, place, look>>
-----------------------------------------------------------------------------
(***************************************************************************)
(* The roster of the proxy                                                 *)
(***************************************************************************)

PollStorages ==
    /\ poll = NoPoll
    /\ poll' = ListActive
    /\ UNCHANGED <<row, changes, roster, holders, place, pointers, look>>

\* The answer replaces the roster; a failure keeps the last good one.
PollDone ==
    /\ poll # NoPoll
    /\ poll' = NoPoll /\ roster' \in {poll, roster}
    /\ UNCHANGED <<row, changes, holders, place, pointers, look>>

\* An empty roster is read again before an upload; that read may fail too.
FreshCandidates == IF roster # {} THEN {roster} ELSE {roster, ListActive}

\* The machine behind a recorded replica; none if the roster lacks it.
Resolve(p) == IF p \in Address THEN {p} ELSE {Host[s] : s \in {p} \cap roster}
-----------------------------------------------------------------------------
(***************************************************************************)
(* Upload                                                                  *)
(***************************************************************************)

\* Sorted, then the one that the seed falls on.
SelectServers(seed, candidates) ==
    LET sorted == SetToSortSeq(candidates, <) IN sorted[(seed % Len(sorted)) + 1]

BeginUpload(seed) ==
    /\ place.at = "idle"
    /\ roster' \in FreshCandidates
    /\ place' = [NoPlace EXCEPT !.at = IF roster' = {} THEN "refused" ELSE "put",
                                !.seed = seed, !.remaining = roster', !.from = roster']
    /\ UNCHANGED <<row, changes, poll, holders, pointers, look>>

\* A storage that took the blob stays in the list.
PickedStays(s, took) == IF took THEN place.remaining ELSE place.remaining \ {s}

\* The storage that is picked leaves the list whether or not it takes the blob.
Picked(s, took) == place.remaining \ {s}

\* A put that fails or times out may have been stored all the same.
PutCopy(took, stored) ==
    LET s == SelectServers(place.seed, place.remaining) IN
    /\ place.at = "put" /\ place.remaining # {} /\ Len(place.stored) < ReplicaTarget
    /\ took => stored
    /\ place' = [place EXCEPT !.remaining = Picked(s, took),
                              !.stored = IF took THEN Append(@, s) ELSE @,
                              !.tried = IF took THEN @ ELSE @ \cup {s}]
    /\ holders' = IF stored THEN holders \cup {Host[s]} ELSE holders
    /\ UNCHANGED <<row, changes, poll, roster, pointers, look>>

\* One copy is enough; without any the upload fails and no row is written.
EndUpload ==
    /\ place.at = "put" /\ (place.remaining = {} \/ Len(place.stored) >= ReplicaTarget)
    /\ place' = [place EXCEPT !.at = IF place.stored = <<>> THEN "refused" ELSE "done"]
    /\ pointers' = place.stored
    /\ UNCHANGED <<row, changes, poll, roster, holders, look>>
-----------------------------------------------------------------------------
(***************************************************************************)
(* Read                                                                    *)
(***************************************************************************)

BeginRead ==
    /\ look.at # "try" /\ pointers # <<>>
    /\ look' = [at |-> "try", left |-> pointers]
    /\ UNCHANGED <<row, changes, poll, roster, holders, place, pointers>>

\* A replica the roster does not know is skipped and one that fails is passed.
OpenBlobStream ==
    /\ look.at = "try"
    /\ look' \in LET on == [at |-> IF Len(look.left) = 1 THEN "missing" ELSE "try",
                            left |-> Tail(look.left)]
                 IN {on} \cup {[on EXCEPT !.at = "found"] : a \in Resolve(Head(look.left)) \cap holders}
    /\ UNCHANGED <<row, changes, poll, roster, holders, place, pointers>>

PlaceNext ==
    \/ \E s \in Storage, to \in {"active", "silent", "removed"} : RowChanges(s, to)
    \/ BackfillReplicas
    \/ PollStorages \/ PollDone
    \/ \E seed \in Seed : BeginUpload(seed)
    \/ \E took \in BOOLEAN, stored \in BOOLEAN : PutCopy(took, stored)
    \/ EndUpload
    \/ BeginRead \/ OpenBlobStream

PlaceSpec == PlaceInit /\ [][PlaceNext]_placeVars
-----------------------------------------------------------------------------
Machine(p) == IF p \in Address THEN p ELSE Host[p]

\* An upload that ends has recorded as many copies as are wanted, each on a
\* storage of its own, or has asked every storage that the roster it started
\* from named; whatever the roster and the rows do meanwhile, and whatever a
\* backfill rewrites, every recorded replica leads to a machine that has the
\* bytes.
CopiesPlaced ==
    /\ place.at = "done" =>
          /\ IsInjective(place.stored)
          /\ \/ Len(place.stored) = ReplicaTarget
             \/ Range(place.stored) \cup place.tried = place.from
    /\ place.at = "refused" => place.tried = place.from
    /\ \A i \in DOMAIN pointers : Machine(pointers[i]) \in holders
=============================================================================
