----------------------------- MODULE MeshSchema -----------------------------
(***************************************************************************)
(* How a schema change reaches the database nodes of the mesh.  The        *)
(* gateway (pg-gateway/src/schema.rs over central.rs) numbers every DDL    *)
(* statement in pg_migration, pushes the PENDING ones to the nodes of its  *)
(* roster, marks its own APPLIED, and sends the nodes that missed one what *)
(* their recorded version lacks from a catch-up loop.  Each node's agent   *)
(* (storage-client/pg-agent/src/schema.ts) applies a list of migrations it *)
(* may already know, and several lists may run in it at a time.            *)
(*                                                                         *)
(* A migration is its version; a list of them is a set, since central.rs   *)
(* orders every list by version.  Its statement either runs in one         *)
(* transaction with the row that records it ("plain"), or outside of any   *)
(* transaction, before that row ("alone", CREATE INDEX CONCURRENTLY).      *)
(***************************************************************************)
EXTENDS Integers, Sequences, FiniteSetsExt

CONSTANTS
    Provider,     \* the database nodes
    DdlClient,    \* connections to the gateway that issue DDL
    MaxVersion    \* bound: migrations ever appended

\* The catch-up loop is one more task that pushes migrations.
Sweeper == "catch-up"
Pusher == DdlClient \cup {Sweeper}

VARIABLES
    migrations,   \* pg_migration, by version: [kind, state]
    ackedVersion, \* pg_migration_state: the highest version each node acked
    recorded,     \* _mesh_pg_migrations of each node
    metaVersion,  \* schema_version in _mesh_pg_meta of each node
    effects,      \* history: how often each statement took effect on each node
    push,         \* what each pushing task of the gateway is doing
    request       \* the POST /pg/schema of each task, as its agent runs it

schemaVars == <<migrations, ackedVersion, recorded, metaVersion, effects,
                push, request>>

NoPush == [at |-> "idle", own |-> 0, list |-> {}, left |-> {}]
NoRequest == [at |-> "idle", node |-> "none", list |-> {}, version |-> 0]

SchemaInit ==
    /\ migrations = <<>>
    /\ ackedVersion = [p \in Provider |-> 0]
    /\ recorded = [p \in Provider |-> {}]
    /\ metaVersion = [p \in Provider |-> 0]
    /\ effects = [p \in Provider |-> [v \in 1..MaxVersion |-> 0]]
    /\ push = [w \in Pusher |-> NoPush]
    /\ request = [w \in Pusher |-> NoRequest]

agentVars == <<recorded, metaVersion, effects, request>>

(***************************************************************************)
(* The gateway                                                             *)
(***************************************************************************)

\* create_table and append_migration: the next version, PENDING.
AppendMigration(c, kind) ==
    /\ push[c].at = "idle"
    /\ Len(migrations) < MaxVersion
    /\ migrations' = Append(migrations, [kind |-> kind, state |-> "PENDING"])
    /\ push' = [push EXCEPT ![c] = [NoPush EXCEPT !.at = "read",
                                                  !.own = Len(migrations) + 1]]
    /\ UNCHANGED <<ackedVersion, agentVars>>

Since(version) == (version + 1)..Len(migrations)

PendingMigrations == {v \in Since(0) : migrations[v].state = "PENDING"}

\* propagate_now reads what is PENDING, another client's included, then the
\* roster: the nodes the registry's last poll found active.
ReadPending(c, nodes) ==
    /\ push[c].at = "read"
    /\ push' = [push EXCEPT ![c].at = "push", ![c].list = PendingMigrations,
                            ![c].left = nodes]
    /\ UNCHANGED <<migrations, ackedVersion, agentVars>>

\* catch_up_sweep starts over the roster of that moment.
StartSweep(nodes) ==
    /\ push[Sweeper].at = "idle"
    /\ push' = [push EXCEPT ![Sweeper].at = "push", ![Sweeper].left = nodes]
    /\ UNCHANGED <<migrations, ackedVersion, agentVars>>

\* What a task sends node p: the list it read, or in a catch-up whatever is
\* past the version the node acked.
ListFor(w, p) ==
    IF w = Sweeper THEN Since(ackedVersion[p]) ELSE push[w].list

\* The next node: nothing to send or unreachable, or the request arrives.  A
\* task has at most one request running (bound): one it gave up on ends
\* before it sends another.
SkipProvider(w, p) ==
    /\ push[w].at = "push" /\ p \in push[w].left
    /\ request[w].at = "idle"
    /\ push' = [push EXCEPT ![w].left = @ \ {p}]
    /\ UNCHANGED <<migrations, ackedVersion, agentVars>>

PostMigrations(w, p) ==
    /\ push[w].at = "push" /\ p \in push[w].left
    /\ request[w].at = "idle"
    /\ ListFor(w, p) # {}
    /\ push' = [push EXCEPT ![w].at = "wait", ![w].left = @ \ {p}]
    /\ request' = [request EXCEPT
           ![w] = [at |-> "start", node |-> p, list |-> ListFor(w, p),
                   version |-> 0]]
    /\ UNCHANGED <<migrations, ackedVersion, recorded, metaVersion, effects>>

\* record_migration_state on an answer; an error is logged and skipped.
HearAnswer(w) ==
    /\ push[w].at = "wait"
    /\ request[w].at \in {"done", "failed"}
    /\ ackedVersion' =
           IF request[w].at = "done" /\ request[w].version > ackedVersion[request[w].node]
           THEN [ackedVersion EXCEPT ![request[w].node] = request[w].version]
           ELSE ackedVersion
    /\ push' = [push EXCEPT ![w].at = "push"]
    /\ request' = [request EXCEPT ![w] = NoRequest]
    /\ UNCHANGED <<migrations, recorded, metaVersion, effects>>

\* The provider timeout: the agent goes on with what it was sent.
GiveUp(w) ==
    /\ push[w].at = "wait"
    /\ request[w].at \notin {"done", "failed"}
    /\ push' = [push EXCEPT ![w].at = "push"]
    /\ UNCHANGED <<migrations, ackedVersion, agentVars>>

\* Every node was tried: propagate_now marks its own migration APPLIED
\* whatever they answered; a sweep just ends.
FinishPush(w) ==
    /\ push[w].at = "push" /\ push[w].left = {}
    /\ migrations' = IF w = Sweeper THEN migrations
                     ELSE [migrations EXCEPT ![push[w].own].state = "APPLIED"]
    /\ push' = [push EXCEPT ![w] = NoPush]
    /\ UNCHANGED <<ackedVersion, agentVars>>

\* The gateway restarts: its tasks are gone and with them the answers they
\* wait for; the central tables stay.
GatewayDies ==
    /\ \E w \in Pusher : push[w].at # "idle"
    /\ push' = [w \in Pusher |-> NoPush]
    /\ request' = [w \in Pusher |-> IF request[w].at \in {"done", "failed"}
                                    THEN NoRequest ELSE request[w]]
    /\ UNCHANGED <<migrations, ackedVersion, recorded, metaVersion, effects>>

(***************************************************************************)
(* The agent's POST /pg/schema                                             *)
(***************************************************************************)

gatewayVars == <<migrations, ackedVersion, push>>

\* An answer nobody waits for is lost.
Reply(w, at) ==
    request' = [request EXCEPT ![w] = IF push[w].at = "wait" THEN [@ EXCEPT !.at = at]
                                      ELSE NoRequest]

CurrentVersion(w) ==
    /\ request[w].at = "start"
    /\ request' = [request EXCEPT ![w].at = "next",
                                  ![w].version = metaVersion[request[w].node]]
    /\ UNCHANGED <<recorded, metaVersion, effects, gatewayVars>>

\* The next migration: already recorded ones are skipped without counting
\* towards the version; the rest go to the statement.
LookUpMigration(w) ==
    LET r == request[w] IN
    /\ r.at = "next" /\ r.list # {}
    /\ request' = [request EXCEPT ![w] =
           IF Min(r.list) \in recorded[r.node]
           THEN [r EXCEPT !.list = r.list \ {Min(r.list)}]
           ELSE [r EXCEPT !.at = "run"]]
    /\ UNCHANGED <<recorded, metaVersion, effects, gatewayVars>>

Advanced(r) ==
    [r EXCEPT !.at = "next", !.list = r.list \ {Min(r.list)},
              !.version = IF Min(r.list) > @ THEN Min(r.list) ELSE @]

Recording(w) ==
    LET r == request[w] IN
    /\ recorded' = [recorded EXCEPT ![r.node] = @ \cup {Min(r.list)}]
    /\ request' = [request EXCEPT ![w] = Advanced(r)]

\* A plain migration without the transaction: the statement's effect stays
\* when the row that records it turns out to be there.
RunPlainUnguarded(w) ==
    LET r == request[w] IN
    /\ r.at = "run"
    /\ migrations[Min(r.list)].kind = "plain"
    /\ effects' = [effects EXCEPT ![r.node][Min(r.list)] = @ + 1]
    /\ Recording(w)
    /\ UNCHANGED <<metaVersion, gatewayVars>>

\* One transaction: the statement, then the row.  A row another request
\* committed first makes the insert fail and takes the statement with it.
RunPlain(w) ==
    LET r == request[w] IN
    /\ r.at = "run"
    /\ migrations[Min(r.list)].kind = "plain"
    /\ IF Min(r.list) \in recorded[r.node]
       THEN /\ Reply(w, "failed")
            /\ UNCHANGED <<recorded, effects>>
       ELSE /\ effects' = [effects EXCEPT ![r.node][Min(r.list)] = @ + 1]
            /\ Recording(w)
    /\ UNCHANGED <<metaVersion, gatewayVars>>

\* Outside a transaction: the index is built, or "already exists" sends the
\* handler to the same insert.
RunAlone(w) ==
    LET r == request[w] IN
    /\ r.at = "run"
    /\ migrations[Min(r.list)].kind = "alone"
    /\ effects' = [effects EXCEPT ![r.node][Min(r.list)] = 1]
    /\ request' = [request EXCEPT ![w].at = "log"]
    /\ UNCHANGED <<recorded, metaVersion, gatewayVars>>

LogAlone(w) ==
    LET r == request[w] IN
    /\ r.at = "log"
    /\ IF Min(r.list) \in recorded[r.node]
       THEN Reply(w, "failed") /\ UNCHANGED recorded
       ELSE Recording(w)
    /\ UNCHANGED <<metaVersion, effects, gatewayVars>>

\* A statement fails on this node, or the agent dies: nothing after it runs
\* and the version is not written.
SchemaFails(w) ==
    /\ request[w].at \in {"next", "log"}
    /\ Reply(w, "failed")
    /\ UNCHANGED <<recorded, metaVersion, effects, gatewayVars>>

\* The version is written over whatever is there, and answered.
WriteVersion(w) ==
    LET r == request[w] IN
    /\ r.at = "next" /\ r.list = {}
    /\ metaVersion' = [metaVersion EXCEPT ![r.node] = r.version]
    /\ Reply(w, "done")
    /\ UNCHANGED <<recorded, effects, gatewayVars>>

SchemaNext ==
    \/ \E c \in DdlClient, kind \in {"plain", "alone"} : AppendMigration(c, kind)
    \/ \E nodes \in SUBSET Provider :
           StartSweep(nodes) \/ \E c \in DdlClient : ReadPending(c, nodes)
    \/ GatewayDies
    \/ \E w \in Pusher, p \in Provider : SkipProvider(w, p) \/ PostMigrations(w, p)
    \/ \E w \in Pusher :
           \/ HearAnswer(w) \/ GiveUp(w) \/ FinishPush(w)
           \/ CurrentVersion(w) \/ LookUpMigration(w) \/ WriteVersion(w)
           \/ RunPlain(w) \/ RunAlone(w) \/ LogAlone(w) \/ SchemaFails(w)

SchemaSpec == SchemaInit /\ [][SchemaNext]_schemaVars

-----------------------------------------------------------------------------

\* However pushes, the catch-up loop, timeouts and restarts overlap, the
\* statement of a migration takes effect at most once on a node: the agent's
\* transaction ties it to the row that records it (schema.ts, POST /schema).
MigratedOnce ==
    \A p \in Provider : \A v \in 1..MaxVersion : effects[p][v] <= 1

\* "Sends every migration the provider has not acked yet" (schema.rs): a
\* version acked by a node stands for every migration up to it, since the
\* catch-up starts after it.
AckedHasAll ==
    \A p \in Provider : 1..ackedVersion[p] \subseteq recorded[p]
=============================================================================
