---------------------------- MODULE ControlPlane ----------------------------
(***************************************************************************)
(* The control plane (control-plane-backend): members and their roles, the  *)
(* storages they link, and the device roster of the mesh VPN, which belongs *)
(* to the nvpn program and is changed by commands.  A request is a sequence *)
(* of calls to db-api and to nvpn.  Member changes and links run under      *)
(* admin_mutation_lock; pings, removals of a storage and the reaper do not. *)
(* One step is one call; consecutive reads under the lock are one step.     *)
(***************************************************************************)
EXTENDS Integers, FiniteSets

CONSTANTS Member,     \* npubs of people
          Device,     \* npubs of storages
          Bootstrap,  \* ADMIN_ALLOWED_PUBKEYS
          Req,        \* the requests that run at a time, the reaper included
          NoReq,      \* nobody holds the lock
          NULL,       \* no row, no device
          Faults,     \* what may go wrong in this instance
          MaxLate     \* bound on the writes overdue at a time

\* Role and status; owner, lifecycle, whether lastPingAt is set, and whether
\* createdAt is longer ago than PENDING_REAP_SECS.
MemberRow == [role : {"client", "admin"}, active : BOOLEAN]
StorageRow == [owner : Member, linked : BOOLEAN, pinged : BOOLEAN, old : BOOLEAN]

ASSUME ControlAssumption ==
    /\ IsFiniteSet(Member)
    /\ Bootstrap \subseteq Member
    /\ Bootstrap # {}
    /\ NoReq \notin Req
    /\ NULL \notin Member \cup Device \cup MemberRow \cup StorageRow
    /\ Faults \subseteq {"db", "late_member", "late_storage", "mesh", "crash"}
    /\ MaxLate \in Nat

VARIABLES
    member,   \* the member rows: role and status
    storage,  \* the storage rows: owner, lifecycle, lastPingAt, createdAt
    mesh,     \* the devices on the roster of nvpn
    late,     \* writes that timed out here and that db-api has yet to execute
    mode,     \* of the process: "start", "seed" or "serve"
    seeds,    \* bootstrap administrators still to be written
    lock,     \* the request that holds admin_mutation_lock
    pc, op,   \* what a request does next, and what it is
    on, want, \* the member it is about, and the role it asks for
    dev,      \* the storage it is at
    todo,     \* the storages it still has to remove
    dirty     \* history: storages a link raced an unlocked removal for, or
              \* for which a call failed

rows == <<member, storage>>
server == <<mode, seeds, lock>>
reqVars == <<pc, op, on, want, dev, todo>>
vars == <<rows, mesh, late, server, reqVars, dirty>>

Init ==
    /\ member = [m \in Member |-> NULL]
    /\ storage = [d \in Device |-> NULL]
    /\ mesh = {} /\ late = {}
    /\ mode = "start" /\ seeds = {}
    /\ lock = NoReq
    /\ pc = [r \in Req |-> "idle"]
    /\ op = [r \in Req |-> "none"]
    /\ on = [r \in Req |-> NULL]
    /\ want = [r \in Req |-> "client"]
    /\ dev = [r \in Req |-> NULL]
    /\ todo = [r \in Req |-> {}]
    /\ dirty = {}

-----------------------------------------------------------------------------
Active(m) == member[m] # NULL /\ member[m].active
Admin(m) == Active(m) /\ member[m].role = "admin"
ActiveAdmins == {m \in Member : Admin(m)}
Linked(d) == storage[d] # NULL /\ storage[d].linked
LinkedBy(m) == {d \in Device : Linked(d) /\ storage[d].owner = m}

Goto(r, label) == pc' = [pc EXCEPT ![r] = label]

\* The locals of the requests in R are gone, and the guard of the lock with them.
Forget(R) ==
    /\ pc' = [r \in Req |-> IF r \in R THEN "idle" ELSE pc[r]]
    /\ op' = [r \in Req |-> IF r \in R THEN "none" ELSE op[r]]
    /\ on' = [r \in Req |-> IF r \in R THEN NULL ELSE on[r]]
    /\ want' = [r \in Req |-> IF r \in R THEN "client" ELSE want[r]]
    /\ dev' = [r \in Req |-> IF r \in R THEN NULL ELSE dev[r]]
    /\ todo' = [r \in Req |-> IF r \in R THEN {} ELSE todo[r]]
    /\ lock' = IF lock \in R THEN NoReq ELSE lock

\* The response is sent.
Finish(r) == Forget({r})

\* The storages a request may still change.
Working(r) ==
    todo[r] \cup ({dev[r]} \cap Device)
        \cup (IF op[r] = "remove_member" /\ pc[r] \in {"revoke", "list"}
              THEN LinkedBy(on[r]) ELSE {})

Racing == {d \in Device : \E r, s \in Req :
              /\ op[r] = "link" /\ op[s] \in {"remove_storage", "reap"}
              /\ d \in Working(r) \cap Working(s)}

-----------------------------------------------------------------------------
(* db-api: what each write does to its table *)

PutMember(m, w) ==
    /\ member' = [member EXCEPT ![m] = [role |-> w, active |-> TRUE]]
    /\ UNCHANGED storage

RevokeMember(m) ==
    /\ member' = [member EXCEPT ![m].active = FALSE]
    /\ UNCHANGED storage

NewStorage(m) == [owner |-> m, linked |-> TRUE, pinged |-> FALSE, old |-> FALSE]

\* Mutation: an upsert, without the comparison of the owners.
CreateStorageAnyone(d, m) ==
    /\ storage' = [storage EXCEPT ![d] = NewStorage(m)]
    /\ UNCHANGED member

\* POST: refused when the row belongs to another owner.
CreateStorage(d, m) ==
    /\ storage' = [storage EXCEPT ![d] =
           CASE @ = NULL -> NewStorage(m)
             [] @ # NULL /\ @.owner = m -> [@ EXCEPT !.linked = TRUE]
             [] OTHER -> @]
    /\ UNCHANGED member

\* PATCH, as link and as ping use it.
RelinkStorage(d) ==
    /\ storage' = [storage EXCEPT ![d] = NewStorage(@.owner)]
    /\ UNCHANGED member

PingStorage(d) ==
    /\ storage' = [storage EXCEPT ![d].pinged = TRUE]
    /\ UNCHANGED member

RemoveStorage(d) ==
    /\ storage' = [storage EXCEPT ![d].linked = FALSE]
    /\ UNCHANGED member

Execute(w) ==
    \/ w.kind = "put" /\ PutMember(w.who, w.role)
    \/ w.kind = "revoke" /\ RevokeMember(w.who)
    \/ w.kind = "create" /\ CreateStorage(w.dev, w.who)
    \/ w.kind = "relink" /\ RelinkStorage(w.dev)
    \/ w.kind = "ping" /\ PingStorage(w.dev)
    \/ w.kind = "drop" /\ RemoveStorage(w.dev)

Write(k, m, w, d) == [kind |-> k, who |-> m, role |-> w, dev |-> d]
Overdue(w) == IF w.kind \in {"put", "revoke"} THEN "late_member" ELSE "late_storage"

Mark(D) == dirty' = dirty \cup D \cup Racing'

\* A write of a request that answered ...
Done(w) == Execute(w) /\ UNCHANGED late /\ Mark({})

\* ... and one that did not: executed or not, or timed out and still to come.
Failed(r, w) ==
    /\ \/ "db" \in Faults /\ (Execute(w) \/ UNCHANGED rows) /\ UNCHANGED late
       \/ /\ Overdue(w) \in Faults
          /\ Cardinality(late) < MaxLate
          /\ late' = late \cup {w}
          /\ UNCHANGED rows
    /\ Mark(Working(r))

\* db-api executes a write nobody waits for any longer.
ExecuteLate ==
    /\ \E w \in late : Execute(w) /\ late' = late \ {w}
    /\ UNCHANGED <<mesh, server, reqVars, dirty>>

-----------------------------------------------------------------------------
(* The process: initialize, and its end *)

Start ==
    /\ mode = "start"
    /\ IF \A m \in Member : member[m] = NULL
       THEN mode' = "seed" /\ seeds' = Bootstrap
       ELSE mode' = "serve" /\ UNCHANGED seeds
    /\ UNCHANGED <<rows, mesh, late, lock, reqVars, dirty>>

Seed ==
    /\ mode = "seed"
    /\ \E m \in seeds :
         /\ PutMember(m, "admin")
         /\ seeds' = seeds \ {m}
    /\ mode' = IF seeds' = {} THEN "serve" ELSE "seed"
    /\ UNCHANGED <<mesh, late, lock, reqVars, dirty>>

\* Requests, lock and cache are gone, the rows and the roster stay.
Crash ==
    /\ "crash" \in Faults
    /\ mode # "start"
    /\ mode' = "start" /\ seeds' = {}
    /\ Forget(Req)
    /\ dirty' = dirty \cup UNION {Working(r) : r \in Req}
    /\ UNCHANGED <<rows, mesh, late>>

-----------------------------------------------------------------------------
(* A request arrives: what is checked before the lock, or without it *)

Receive(r, o, label, m, d, D) ==
    /\ mode = "serve" /\ pc[r] = "idle"
    /\ Goto(r, label)
    /\ op' = [op EXCEPT ![r] = o]
    /\ on' = [on EXCEPT ![r] = m]
    /\ dev' = [dev EXCEPT ![r] = d]
    /\ todo' = [todo EXCEPT ![r] = D]
    /\ UNCHANGED <<rows, mesh, late, server>>

\* verify_admin_post
BeginUpsert(r, m, w) ==
    /\ ActiveAdmins # {}
    /\ Receive(r, "upsert", "lock", m, NULL, {})
    /\ want' = [want EXCEPT ![r] = w]
    /\ Mark({})

BeginRemoveMember(r, m) ==
    /\ ActiveAdmins \ {m} # {}
    /\ Receive(r, "remove_member", "lock", m, NULL, {})
    /\ UNCHANGED want
    /\ Mark({})

BeginLink(r, m, d) ==
    /\ Receive(r, "link", "lock", m, d, {})
    /\ UNCHANGED want
    /\ Mark({})

\* authorize_owner_or_admin: the owner, or any administrator.
BeginRemoveStorage(r, d) ==
    /\ storage[d] # NULL
    /\ ActiveAdmins # {} \/ Active(storage[d].owner)
    /\ Receive(r, "remove_storage", "drop", NULL, NULL, {d})
    /\ UNCHANGED want
    /\ Mark({})

\* cached_peers: the roster as it is, or as it was before a device that is being
\* linked again was removed.
OnRoster(d) == d \in mesh \/ \E r \in Req : op[r] = "link" /\ dev[r] = d

\* linked_storage, the first patch (measurements only) and the look-up of the
\* signer among the peers; a ping that fails any of them changes nothing here.
BeginPing(r, d) ==
    /\ Linked(d) /\ OnRoster(d)
    /\ Receive(r, "ping", "ping", NULL, d, {})
    /\ UNCHANGED want
    /\ Mark({})

Pending == {d \in Device : Linked(d) /\ ~storage[d].pinged /\ storage[d].old}

\* The list reap_pending works from; there is one reaper.
BeginReap(r) ==
    /\ Pending # {}
    /\ \A s \in Req : op[s] # "reap"
    /\ Receive(r, "reap", "drop", NULL, NULL, Pending)
    /\ UNCHANGED want
    /\ Mark({})

\* PENDING_REAP_SECS pass since createdAt.
Age(d) ==
    /\ Linked(d) /\ ~storage[d].pinged /\ ~storage[d].old
    /\ storage' = [storage EXCEPT ![d].old = TRUE]
    /\ UNCHANGED <<member, mesh, late, server, reqVars, dirty>>

-----------------------------------------------------------------------------
(* Under admin_mutation_lock *)

\* Mutation: the lock is not waited for.
LockAnyway(r) ==
    /\ pc[r] = "lock"
    /\ lock' = r
    /\ Goto(r, "check")
    /\ UNCHANGED <<rows, mesh, late, mode, seeds, op, on, want, dev, todo, dirty>>

\* admin_mutation_lock.lock().await, and the reads that follow it.
Lock(r) ==
    /\ pc[r] = "lock"
    /\ lock = NoReq
    /\ lock' = r
    /\ Goto(r, "check")
    /\ UNCHANGED <<rows, mesh, late, mode, seeds, op, on, want, dev, todo, dirty>>

\* ensure_not_last_active_admin is asked only when an active administrator
\* would lose the role.
LastAdmin(m) == Admin(m) /\ Cardinality(ActiveAdmins) <= 1

\* Mutation: link does not ask whether the caller is still active.
PermittedRevoked(r) ==
    CASE op[r] = "upsert" -> want[r] = "client" => ~LastAdmin(on[r])
      [] op[r] = "remove_member" -> member[on[r]] # NULL /\ ~LastAdmin(on[r])
      [] op[r] = "link" -> storage[dev[r]] # NULL => storage[dev[r]].owner = on[r]

Permitted(r) ==
    CASE op[r] = "upsert" -> want[r] = "client" => ~LastAdmin(on[r])
      [] op[r] = "remove_member" -> member[on[r]] # NULL /\ ~LastAdmin(on[r])
      [] op[r] = "link" -> /\ Active(on[r])
                           /\ storage[dev[r]] # NULL => storage[dev[r]].owner = on[r]

Check(r) ==
    /\ pc[r] = "check"
    /\ \/ /\ Permitted(r)
          /\ Goto(r, CASE op[r] = "upsert" -> "put"
                       [] op[r] = "remove_member" -> "revoke"
                       [] op[r] = "link" ->
                            IF storage[dev[r]] = NULL THEN "create" ELSE "relink")
          /\ UNCHANGED <<op, on, want, dev, todo, lock>>
       \/ ~Permitted(r) /\ Finish(r)
       \/ "db" \in Faults /\ Finish(r)
    /\ UNCHANGED <<rows, mesh, late, mode, seeds>>
    /\ Mark({})

\* POST answers 409.
Refused(w) == w.kind = "create" /\ storage[w.dev] # NULL /\ storage[w.dev].owner # w.who

\* The member write of upsert and of remove, the storage write of link.
WriteStep(r) ==
    /\ pc[r] \in {"put", "revoke", "create", "relink"}
    /\ LET w == Write(pc[r], on[r], want[r], dev[r]) IN
       \/ /\ ~Refused(w)
          /\ IF op[r] = "upsert"
             THEN Finish(r)
             ELSE /\ Goto(r, IF op[r] = "link" THEN "enmesh" ELSE "list")
                  /\ UNCHANGED <<op, on, want, dev, todo, lock>>
          /\ Done(w)
       \/ Refused(w) /\ Finish(r) /\ UNCHANGED <<rows, late>> /\ Mark({})
       \/ Finish(r) /\ Failed(r, w)
    /\ UNCHANGED <<mesh, mode, seeds>>

\* remove: the linked storages of the member, to be removed one by one.
List(r) ==
    /\ pc[r] = "list"
    /\ \/ /\ todo' = [todo EXCEPT ![r] = LinkedBy(on[r])]
          /\ Goto(r, "drop")
          /\ UNCHANGED <<op, on, want, dev, lock>>
          /\ Mark({})
       \/ "db" \in Faults /\ Finish(r) /\ Mark(Working(r))
    /\ UNCHANGED <<rows, mesh, late, mode, seeds>>

-----------------------------------------------------------------------------
(* The removal of storages, of remove (member and storage) and reap_pending *)

\* The row first; a failure ends all but the removal of a member.
Drop(r) ==
    /\ pc[r] = "drop"
    /\ \E d \in todo[r] :
         LET w == Write("drop", NULL, "client", d) IN
         \/ /\ dev' = [dev EXCEPT ![r] = d]
            /\ todo' = [todo EXCEPT ![r] = @ \ {d}]
            /\ Goto(r, "unmesh")
            /\ UNCHANGED <<op, on, want, lock>>
            /\ Done(w)
         \/ /\ IF op[r] = "remove_member"
               THEN /\ todo' = [todo EXCEPT ![r] = @ \ {d}]
                    /\ UNCHANGED <<pc, op, on, want, dev, lock>>
               ELSE Finish(r)
            /\ Failed(r, w)
    /\ UNCHANGED <<mesh, mode, seeds>>

\* Mutation: the reaper leaves the roster alone.
UnmeshNotReaped(r) ==
    /\ pc[r] = "unmesh"
    /\ mesh' = IF op[r] = "reap" THEN mesh ELSE mesh \ {dev[r]}
    /\ dev' = [dev EXCEPT ![r] = NULL]
    /\ Goto(r, "drop")
    /\ UNCHANGED <<rows, late, server, op, on, want, todo, dirty>>

\* Then the roster; a failure is reported and the loop goes on.
Unmesh(r) ==
    /\ pc[r] = "unmesh"
    /\ \/ mesh' = mesh \ {dev[r]} /\ UNCHANGED dirty
       \/ /\ "mesh" \in Faults
          /\ mesh' \in {mesh, mesh \ {dev[r]}}
          /\ dirty' = dirty \cup {dev[r]}
    /\ dev' = [dev EXCEPT ![r] = NULL]
    /\ Goto(r, "drop")
    /\ UNCHANGED <<rows, late, server, op, on, want, todo>>

Removed(r) ==
    /\ pc[r] = "drop"
    /\ todo[r] = {}
    /\ Finish(r)
    /\ UNCHANGED <<rows, mesh, late, mode, seeds, dirty>>

-----------------------------------------------------------------------------
(* The roster half of link, and ping *)

Enmesh(r) ==
    /\ pc[r] = "enmesh"
    /\ \/ /\ mesh' = mesh \cup {dev[r]}
          /\ Finish(r)
          /\ Mark({})
       \/ /\ "mesh" \in Faults
          /\ mesh' \in {mesh, mesh \cup {dev[r]}}
          /\ Goto(r, "unlink")
          /\ UNCHANGED <<op, on, want, dev, todo, lock>>
          /\ Mark({dev[r]})
    /\ UNCHANGED <<rows, late, mode, seeds>>

\* The rollback of a link; its own failure is only logged.
Unlink(r) ==
    /\ pc[r] = "unlink"
    /\ Finish(r)
    /\ LET w == Write("drop", NULL, "client", dev[r]) IN
       Done(w) \/ Failed(r, w)
    /\ UNCHANGED <<mesh, mode, seeds>>

\* The second patch; lifecycle is not looked at again.
Ping(r) ==
    /\ pc[r] = "ping"
    /\ Finish(r)
    /\ LET w == Write("ping", NULL, "client", dev[r]) IN
       Done(w) \/ Failed(r, w)
    /\ UNCHANGED <<mesh, mode, seeds>>

-----------------------------------------------------------------------------
Begin(r) ==
    \/ \E m \in Member, w \in {"client", "admin"} : BeginUpsert(r, m, w)
    \/ \E m \in Member : BeginRemoveMember(r, m)
    \/ \E m \in Member, d \in Device : BeginLink(r, m, d)
    \/ \E d \in Device : BeginRemoveStorage(r, d) \/ BeginPing(r, d)
    \/ BeginReap(r)

Step(r) ==
    \/ Lock(r) \/ Check(r) \/ WriteStep(r) \/ List(r)
    \/ Drop(r) \/ Unmesh(r) \/ Removed(r)
    \/ Enmesh(r) \/ Unlink(r) \/ Ping(r)

Next ==
    \/ Start \/ Seed \/ Crash \/ ExecuteLate
    \/ \E d \in Device : Age(d)
    \/ \E r \in Req : Begin(r) \/ Step(r)

Spec == Init /\ [][Next]_vars

-----------------------------------------------------------------------------
(* Properties *)

LateWrite == [kind : {"put", "revoke", "create", "relink", "ping", "drop"},
              who : Member \cup {NULL}, role : {"client", "admin"}, dev : Device \cup {NULL}]

\* Rows, locals and the lock hold what the routes put there.
TypeOK ==
    /\ member \in [Member -> MemberRow \cup {NULL}]
    /\ storage \in [Device -> StorageRow \cup {NULL}]
    /\ mesh \subseteq Device
    /\ late \subseteq LateWrite
    /\ mode \in {"start", "seed", "serve"}
    /\ seeds \subseteq Bootstrap
    /\ lock \in Req \cup {NoReq}
    /\ pc \in [Req -> {"idle", "lock", "check", "put", "revoke", "create", "relink", "list",
                       "drop", "unmesh", "enmesh", "unlink", "ping"}]
    /\ op \in [Req -> {"none", "upsert", "remove_member", "link", "remove_storage", "ping", "reap"}]
    /\ on \in [Req -> Member \cup {NULL}]
    /\ want \in [Req -> {"client", "admin"}]
    /\ dev \in [Req -> Device \cup {NULL}]
    /\ todo \in [Req -> SUBSET Device]
    /\ dirty \subseteq Device

\* Somebody can always administrate: while the service answers requests there is
\* an active administrator, whatever demotions and removals overlap, wherever the
\* process dies, in the middle of the bootstrap included, and whichever calls
\* fail.  This is what ensure_not_last_active_admin under the lock is for.
SomeAdmin == mode = "serve" => ActiveAdmins # {}

\* A revoked member keeps no linked storage, except while the removal that
\* revoked them is still on its way to it under the lock, or a call for that
\* storage failed.  A link that waited for the lock does not slip in behind.
RevokedOwnsNothing ==
    \A d \in Device \ dirty :
        Linked(d) /\ ~Active(storage[d].owner) =>
            /\ lock \in Req
            /\ op[lock] = "remove_member" /\ on[lock] = storage[d].owner
            /\ pc[lock] = "list" \/ d \in todo[lock]

\* Once no request is at a storage, it is on the roster of the mesh exactly when
\* its row is LINKED, unless a link of it overlapped a removal without the lock
\* or a call for it failed.
MeshMatches ==
    \A d \in Device \ dirty :
        (\A r \in Req : d \notin Working(r)) => (Linked(d) <=> d \in mesh)

\* A storage is never reassigned, also not by a create that is executed late.
OwnerFixed ==
    [][\A d \in Device : storage[d] # NULL =>
          storage'[d] # NULL /\ storage'[d].owner = storage[d].owner]_vars

=============================================================================
