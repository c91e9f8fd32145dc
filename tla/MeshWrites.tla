----------------------------- MODULE MeshWrites -----------------------------
(***************************************************************************)
(* How a row written at the gateway reaches the node that owns it.  A      *)
(* write is queued in pg_write_op, then placed (pgwirehandler.rs); the     *)
(* dispatcher (dispatcher.rs) takes the oldest operations, sends each to   *)
(* its row's owner and deletes it once it is acknowledged; the owner's     *)
(* agent (storage-client/pg-agent/src/apply.ts) applies an operation it    *)
(* has not recorded yet.  An answer may be lost, and the gateway may stop  *)
(* between any two steps: its queue and its placements are in Postgres.    *)
(*                                                                         *)
(* An operation is its number, in the order of createdAt; a batch is a     *)
(* set, taken in that order.                                               *)
(***************************************************************************)
EXTENDS Integers, Sequences, FiniteSetsExt

CONSTANTS
    MeshRow,     \* rows
    MeshNode,    \* database nodes
    Ring,        \* the node the hash of a row falls to among some nodes
    BatchOps,    \* operations a tick takes
    MaxOps       \* bound: operations ever queued

ASSUME WritesAssumption ==
    /\ MaxOps \in Nat
    /\ \A r \in MeshRow : \A nodes \in (SUBSET MeshNode) \ {{}} : Ring[<<r, nodes>>] \in nodes

NoNode == "none"
Op == 1..MaxOps

VARIABLES
    rowOf,       \* the row of each operation queued so far
    queued,      \* pg_write_op: the operations still in it
    placement,   \* pg_placement: the node of each row
    opKeys,      \* the "op:" rows of _mesh_pg_meta of each node
    applied,     \* history: how often each operation took effect on a node
    writer,      \* the write holding the gateway's write lock
    tick,        \* the dispatcher
    stray        \* requests the dispatcher no longer waits for

writesVars == <<rowOf, queued, placement, opKeys, applied, writer, tick, stray>>

IdleWriter == [at |-> "idle"]
IdleTick == [at |-> "idle", nodes |-> {}, batch |-> {}, to |-> NoNode]

WritesInit ==
    /\ rowOf = <<>>
    /\ queued = {}
    /\ placement = [r \in MeshRow |-> NoNode]
    /\ opKeys = [n \in MeshNode |-> {}]
    /\ applied = [n \in MeshNode |-> [o \in Op |-> 0]]
    /\ writer = IdleWriter
    /\ tick = IdleTick
    /\ stray = {}

agentTables == <<opKeys, applied>>

\* select_owner: the placed node while it is active, else the node the row's
\* hash falls to among the active ones.
SelectOwner(r, nodes, existing) ==
    IF existing \in nodes THEN existing
    ELSE Ring[<<r, nodes>>]

(***************************************************************************)
(* The write path, under the write lock                                    *)
(***************************************************************************)

\* The owner is chosen over the roster of that moment, then the operation is
\* queued; with no node the write is refused and nothing changes.
EnqueueWriteOp(r, nodes) ==
    /\ writer.at = "idle"
    /\ nodes # {}
    /\ Len(rowOf) < MaxOps
    /\ rowOf' = Append(rowOf, r)
    /\ queued' = queued \cup {Len(rowOf) + 1}
    /\ writer' = [at |-> "place", row |-> r,
                  owner |-> SelectOwner(r, nodes, placement[r])]
    /\ UNCHANGED <<placement, agentTables, tick, stray>>

PlaceRow ==
    /\ writer.at = "place"
    /\ placement' = [placement EXCEPT ![writer.row] = writer.owner]
    /\ writer' = IdleWriter
    /\ UNCHANGED <<rowOf, queued, agentTables, tick, stray>>

(***************************************************************************)
(* The dispatcher                                                          *)
(***************************************************************************)

Oldest(ops) == {o \in ops : Cardinality({p \in ops : p < o}) < BatchOps}

\* tick: a snapshot of the roster, then the oldest operations.
TakeWriteOps(nodes) ==
    /\ tick.at = "idle"
    /\ nodes # {} /\ queued # {}
    /\ tick' = [at |-> "next", nodes |-> nodes, batch |-> Oldest(queued),
                to |-> NoNode]
    /\ UNCHANGED <<rowOf, queued, placement, agentTables, writer, stray>>

Current == Min(tick.batch)

\* The next operation goes to its owner by the placement of this moment.
SendOp ==
    /\ tick.at = "next" /\ tick.batch # {}
    /\ tick' = [tick EXCEPT !.at = "sent",
           !.to = SelectOwner(rowOf[Current], tick.nodes, placement[rowOf[Current]])]
    /\ UNCHANGED <<rowOf, queued, placement, agentTables, writer, stray>>

\* The agent's transaction without the idempotency gate.
ApplyOpAgain(n, o) ==
    /\ opKeys' = [opKeys EXCEPT ![n] = @ \cup {o}]
    /\ applied' = [applied EXCEPT ![n][o] = @ + 1]

\* POST /pg/apply: the row that records the operation and its effect are one
\* transaction, and an operation recorded already is skipped.
ApplyOp(n, o) ==
    /\ opKeys' = [opKeys EXCEPT ![n] = @ \cup {o}]
    /\ applied' = IF o \in opKeys[n] THEN applied
                  ELSE [applied EXCEPT ![n][o] = @ + 1]

\* The agent applies it and says so, ...
OpApplied ==
    /\ tick.at = "sent"
    /\ ApplyOp(tick.to, Current)
    /\ tick' = [tick EXCEPT !.at = "acked"]
    /\ UNCHANGED <<rowOf, queued, placement, writer, stray>>

\* ... or fails, or is not heard of in time and may yet apply it.  Either
\* way the failure is counted and the dispatcher goes on to the next one.
OpFailed ==
    /\ tick.at = "sent"
    /\ tick' = [tick EXCEPT !.at = "next", !.batch = @ \ {Current}, !.to = NoNode]
    /\ stray' \in {stray, stray \cup {<<tick.to, Current>>}}
    /\ UNCHANGED <<rowOf, queued, placement, agentTables, writer>>

StrayApplied(n, o) ==
    /\ <<n, o>> \in stray
    /\ ApplyOp(n, o)
    /\ stray' = stray \ {<<n, o>>}
    /\ UNCHANGED <<rowOf, queued, placement, writer, tick>>

MarkPlaced ==
    /\ tick.at = "acked"
    /\ placement' = [placement EXCEPT ![rowOf[Current]] = tick.to]
    /\ tick' = [tick EXCEPT !.at = "placed"]
    /\ UNCHANGED <<rowOf, queued, agentTables, writer, stray>>

DeleteWriteOp ==
    /\ tick.at = "placed"
    /\ queued' = queued \ {Current}
    /\ tick' = [tick EXCEPT !.at = "next", !.batch = @ \ {Current}, !.to = NoNode]
    /\ UNCHANGED <<rowOf, placement, agentTables, writer, stray>>

TickEnds ==
    /\ tick.at = "next" /\ tick.batch = {}
    /\ tick' = IdleTick
    /\ UNCHANGED <<rowOf, queued, placement, agentTables, writer, stray>>

\* The gateway stops between two steps; a request already sent may still be
\* applied.
GatewayStops ==
    /\ writer.at # "idle" \/ tick.at # "idle"
    /\ writer' = IdleWriter
    /\ tick' = IdleTick
    /\ stray' = IF tick.at = "sent" THEN stray \cup {<<tick.to, Current>>} ELSE stray
    /\ UNCHANGED <<rowOf, queued, placement, agentTables>>

WritesNext ==
    \/ \E nodes \in SUBSET MeshNode :
           TakeWriteOps(nodes) \/ \E r \in MeshRow : EnqueueWriteOp(r, nodes)
    \/ PlaceRow \/ SendOp \/ OpApplied \/ OpFailed \/ MarkPlaced
    \/ DeleteWriteOp \/ TickEnds \/ GatewayStops
    \/ \E n \in MeshNode, o \in Op : StrayApplied(n, o)

WritesSpec == WritesInit /\ [][WritesNext]_writesVars

-----------------------------------------------------------------------------

\* "effectively-once over at-least-once HTTP delivery" (apply.ts): whatever
\* answers are lost and whenever the gateway stops, an operation leaves the
\* queue only when some node applied it, and no node applies it twice.
EffectivelyOnce ==
    \A o \in DOMAIN rowOf :
        /\ \A n \in MeshNode : applied[n][o] <= 1
        /\ o \in queued \/ \E n \in MeshNode : applied[n][o] = 1
=============================================================================
