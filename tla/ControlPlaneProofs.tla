------------------------- MODULE ControlPlaneProofs -------------------------
(***************************************************************************)
(* TypeOK, SomeAdmin, OwnerFixed, MeshMatches and RevokedOwnsNothing for    *)
(* every set of members, storages and concurrent requests.                  *)
(***************************************************************************)
EXTENDS ControlPlane, FiniteSetTheorems, TLAPS

\* Leaves that name no prover are for Zenon.
USE Zenon

\* What a write finds when it is executed: the rows it updates exist.
Executable(w) ==
    /\ w.kind \in {"put", "revoke", "create"} => w.who \in Member
    /\ w.kind = "revoke" => member[w.who] # NULL
    /\ w.kind \in {"create", "relink", "ping", "drop"} => w.dev \in Device
    /\ w.kind \in {"relink", "ping", "drop"} => storage[w.dev] # NULL

\* Rows are never deleted, so what a request has seen of them stays.
Sound(r) ==
    /\ op[r] \in {"upsert", "remove_member", "link"} => on[r] \in Member
    /\ op[r] \in {"link", "ping"} => dev[r] \in Device
    /\ pc[r] = "put" => op[r] = "upsert"
    /\ pc[r] \in {"revoke", "list"} => op[r] = "remove_member"
    /\ pc[r] = "revoke" => member[on[r]] # NULL
    /\ pc[r] \in {"create", "relink", "enmesh", "unlink"} => op[r] = "link"
    /\ pc[r] = "ping" => op[r] = "ping"
    /\ pc[r] \in {"relink", "enmesh", "unlink", "ping"} => storage[dev[r]] # NULL
    /\ pc[r] \in {"lock", "check"} => op[r] \in {"upsert", "remove_member", "link"}
    /\ pc[r] \in {"drop", "unmesh"} => op[r] \in {"remove_member", "remove_storage", "reap"}
    /\ pc[r] = "unmesh" => dev[r] \in Device
    /\ \A d \in todo[r] : storage[d] # NULL

IInv ==
    /\ TypeOK
    /\ \A w \in late : Executable(w)
    /\ \A r \in Req : Sound(r)

\* The member table is empty, or it has an active administrator; a request that
\* is about to take the role from one holds the lock, and leaves another.
Staffed == ActiveAdmins # {} \/ \A m \in Member : member[m] = NULL

Admins ==
    /\ Staffed
    /\ mode = "serve" => ActiveAdmins # {}
    /\ mode = "seed" => seeds # {}
    /\ mode # "serve" => \A r \in Req : pc[r] = "idle"
    /\ \A w \in late : w.kind \notin {"put", "revoke"}
    /\ \A r \in Req :
         /\ pc[r] \in {"check", "put", "revoke"} => lock = r
         /\ pc[r] = "revoke" \/ (pc[r] = "put" /\ want[r] = "client")
               => ActiveAdmins \ {on[r]} # {}

-----------------------------------------------------------------------------
(* Writes *)

RowTypes ==
    /\ member \in [Member -> MemberRow \cup {NULL}]
    /\ storage \in [Device -> StorageRow \cup {NULL}]

\* Nothing a write does deletes a row or changes an owner.
Kept ==
    /\ \A m \in Member : member[m] # NULL => member'[m] # NULL
    /\ \A d \in Device : storage[d] # NULL =>
          storage'[d] # NULL /\ storage'[d].owner = storage[d].owner

LEMMA MemberWritten ==
    ASSUME RowTypes, NEW m \in Member, NEW row \in MemberRow,
           member' = [member EXCEPT ![m] = row], storage' = storage
    PROVE  RowTypes' /\ Kept
BY ControlAssumption DEF RowTypes, Kept

LEMMA StorageWritten ==
    ASSUME RowTypes, NEW d \in Device, NEW row \in StorageRow,
           storage[d] # NULL => row.owner = storage[d].owner,
           storage' = [storage EXCEPT ![d] = row], member' = member
    PROVE  RowTypes' /\ Kept
BY ControlAssumption DEF RowTypes, Kept

LEMMA ExecuteKeeps ==
    ASSUME RowTypes, NEW w \in LateWrite, Executable(w), Execute(w)
    PROVE  RowTypes' /\ Kept
<1>1. CASE w.kind = "put" /\ PutMember(w.who, w.role)
  <2> DEFINE row == [role |-> w.role, active |-> TRUE]
  <2>1. w.who \in Member /\ row \in MemberRow
    BY <1>1 DEF Executable, LateWrite, MemberRow
  <2>2. member' = [member EXCEPT ![w.who] = row] /\ storage' = storage
    BY <1>1 DEF PutMember
  <2> QED BY <2>1, <2>2, MemberWritten
<1>2. CASE w.kind = "revoke" /\ RevokeMember(w.who)
  <2> DEFINE row == [member[w.who] EXCEPT !.active = FALSE]
  <2>1. w.who \in Member /\ member[w.who] \in MemberRow
    BY <1>2 DEF Executable, RowTypes
  <2>2. row \in MemberRow
    BY <2>1 DEF MemberRow
  <2>3. member' = [member EXCEPT ![w.who] = row] /\ storage' = storage
    BY <1>2 DEF RevokeMember
  <2> QED BY <2>1, <2>2, <2>3, MemberWritten
<1>3. CASE w.kind = "create" /\ CreateStorage(w.dev, w.who)
  <2> DEFINE s == storage[w.dev]
  <2>1. w.who \in Member /\ w.dev \in Device /\ s \in StorageRow \cup {NULL}
    BY <1>3 DEF Executable, RowTypes
  <2>2. storage' = [storage EXCEPT ![w.dev] =
                      CASE s = NULL -> NewStorage(w.who)
                        [] s # NULL /\ s.owner = w.who -> [s EXCEPT !.linked = TRUE]
                        [] OTHER -> s]
        /\ member' = member
    BY <1>3 DEF CreateStorage
  <2>3. CASE s = NULL
    <3>1. NewStorage(w.who) \in StorageRow
      BY <2>1 DEF NewStorage, StorageRow
    <3> QED BY <2>1, <2>2, <2>3, <3>1, StorageWritten
  <2>4. CASE s # NULL /\ s.owner = w.who
    <3>1. [s EXCEPT !.linked = TRUE] \in StorageRow /\ [s EXCEPT !.linked = TRUE].owner = s.owner
      BY <2>1, <2>4 DEF StorageRow
    <3> QED BY <2>1, <2>2, <2>4, <3>1, StorageWritten
  <2>5. CASE s # NULL /\ s.owner # w.who
    BY <2>1, <2>2, <2>5, StorageWritten
  <2> QED BY <2>3, <2>4, <2>5
<1>4. CASE w.kind = "relink" /\ RelinkStorage(w.dev)
  <2> DEFINE row == NewStorage(storage[w.dev].owner)
  <2>1. w.dev \in Device /\ storage[w.dev] \in StorageRow
    BY <1>4 DEF Executable, RowTypes
  <2>2. row \in StorageRow /\ row.owner = storage[w.dev].owner
    BY <2>1 DEF StorageRow, NewStorage
  <2>3. storage' = [storage EXCEPT ![w.dev] = row] /\ member' = member
    BY <1>4 DEF RelinkStorage
  <2> QED BY <2>1, <2>2, <2>3, StorageWritten
<1>5. CASE w.kind = "ping" /\ PingStorage(w.dev)
  <2> DEFINE row == [storage[w.dev] EXCEPT !.pinged = TRUE]
  <2>1. w.dev \in Device /\ storage[w.dev] \in StorageRow
    BY <1>5 DEF Executable, RowTypes
  <2>2. row \in StorageRow /\ row.owner = storage[w.dev].owner
    BY <2>1 DEF StorageRow
  <2>3. storage' = [storage EXCEPT ![w.dev] = row] /\ member' = member
    BY <1>5 DEF PingStorage
  <2> QED BY <2>1, <2>2, <2>3, StorageWritten
<1>6. CASE w.kind = "drop" /\ RemoveStorage(w.dev)
  <2> DEFINE row == [storage[w.dev] EXCEPT !.linked = FALSE]
  <2>1. w.dev \in Device /\ storage[w.dev] \in StorageRow
    BY <1>6 DEF Executable, RowTypes
  <2>2. row \in StorageRow /\ row.owner = storage[w.dev].owner
    BY <2>1 DEF StorageRow
  <2>3. storage' = [storage EXCEPT ![w.dev] = row] /\ member' = member
    BY <1>6 DEF RemoveStorage
  <2> QED BY <2>1, <2>2, <2>3, StorageWritten
<1> QED BY <1>1, <1>2, <1>3, <1>4, <1>5, <1>6 DEF Execute

LEMMA ExecutableKept ==
    ASSUME Kept, NEW w, Executable(w)
    PROVE  Executable(w)'
BY DEF Kept, Executable

-----------------------------------------------------------------------------
(* The parts of the invariant that a step of one request touches *)

LateOK == late \subseteq LateWrite /\ \A w \in late : Executable(w)

LocalTypes ==
    /\ lock \in Req \cup {NoReq}
    /\ pc \in [Req -> {"idle", "lock", "check", "put", "revoke", "create", "relink", "list",
                       "drop", "unmesh", "enmesh", "unlink", "ping"}]
    /\ op \in [Req -> {"none", "upsert", "remove_member", "link", "remove_storage", "ping", "reap"}]
    /\ on \in [Req -> Member \cup {NULL}]
    /\ want \in [Req -> {"client", "admin"}]
    /\ dev \in [Req -> Device \cup {NULL}]
    /\ todo \in [Req -> SUBSET Device]

OtherTypes ==
    /\ mesh \subseteq Device
    /\ mode \in {"start", "seed", "serve"}
    /\ seeds \subseteq Bootstrap
    /\ dirty \subseteq Device

LEMMA Parts ==
    IInv <=> RowTypes /\ LateOK /\ LocalTypes /\ OtherTypes /\ \A r \in Req : Sound(r)
BY DEF IInv, TypeOK, RowTypes, LateOK, LocalTypes, OtherTypes

\* The locals of a request are left alone.
Same(r) ==
    /\ pc'[r] = pc[r] /\ op'[r] = op[r] /\ on'[r] = on[r]
    /\ want'[r] = want[r] /\ dev'[r] = dev[r] /\ todo'[r] = todo[r]

LEMMA SoundKept ==
    ASSUME LocalTypes, Kept, NEW r \in Req, Sound(r), Same(r)
    PROVE  Sound(r)'
<1>1. \A d \in todo[r] : storage'[d] # NULL
  BY DEF LocalTypes, Kept, Sound
<1>2. pc[r] = "revoke" => member'[on[r]] # NULL
  BY DEF Kept, Sound
<1>3. pc[r] \in {"relink", "enmesh", "unlink", "ping"} => storage'[dev[r]] # NULL
  BY DEF Kept, Sound
<1> QED BY <1>1, <1>2, <1>3 DEF Sound, Same

LEMMA Unwritten ==
    ASSUME RowTypes, LateOK, UNCHANGED <<rows, late>>
    PROVE  RowTypes' /\ Kept /\ LateOK'
BY DEF RowTypes, LateOK, Kept, rows, Executable

LEMMA WorkingType ==
    ASSUME LocalTypes, NEW r \in Req
    PROVE  Working(r) \subseteq Device
BY DEF LocalTypes, Working, LinkedBy

LEMMA MarkType ==
    ASSUME dirty \subseteq Device, NEW D, D \subseteq Device, Mark(D)
    PROVE  dirty' \subseteq Device
BY DEF Mark, Racing

LEMMA Written ==
    ASSUME RowTypes, LateOK, LocalTypes, dirty \subseteq Device, NEW r \in Req,
           NEW w \in LateWrite, Executable(w), Done(w) \/ Failed(r, w)
    PROVE  RowTypes' /\ Kept /\ LateOK' /\ dirty' \subseteq Device
<1>1. RowTypes' /\ Kept
  <2>1. CASE Execute(w)
    BY <2>1, ExecuteKeeps
  <2>2. CASE UNCHANGED rows
    BY <2>2 DEF RowTypes, Kept, rows
  <2> QED BY <2>1, <2>2 DEF Done, Failed
<1>2. late' \subseteq late \cup {w}
  BY DEF Done, Failed
<1>3. \A v \in late' : Executable(v)'
  BY <1>1, <1>2, ExecutableKept DEF LateOK
<1>4. dirty' \subseteq Device
  BY MarkType, WorkingType DEF Done, Failed
<1> QED BY <1>1, <1>2, <1>3, <1>4 DEF LateOK

LEMMA ForgetLocals ==
    ASSUME LocalTypes, NEW R \in SUBSET Req, Forget(R)
    PROVE  /\ LocalTypes'
           /\ \A r \in R : Sound(r)'
           /\ \A r \in Req \ R : Same(r)
<1>1. LocalTypes'
  BY DEF LocalTypes, Forget
<1>2. \A r \in Req \ R : Same(r)
  BY DEF Forget, Same
<1>3. ASSUME NEW r \in R PROVE Sound(r)'
  BY <1>3 DEF Forget, Sound
<1> QED BY <1>1, <1>2, <1>3

\* A step of one request keeps the invariant when it keeps the parts.
LEMMA Assemble ==
    ASSUME IInv, NEW r \in Req, RowTypes', Kept, LateOK', LocalTypes', OtherTypes',
           Sound(r)', \A q \in Req \ {r} : Same(q)
    PROVE  IInv' /\ Kept
<1>1. \A q \in Req : Sound(q)'
  BY SoundKept, Parts
<1>2. RowTypes' /\ LateOK' /\ LocalTypes' /\ OtherTypes' /\ (\A q \in Req : Sound(q)')
  BY <1>1
<1> QED BY <1>2 DEF IInv, TypeOK, RowTypes, LateOK, LocalTypes, OtherTypes

-----------------------------------------------------------------------------
(* The induction *)

LEMMA InitIInv == Init => IInv
BY SMT DEF Init, IInv, TypeOK, Sound, LateWrite

\* The fields a request has when it arrives.
LEMMA Received ==
    ASSUME IInv, NEW r \in Req, NEW o, NEW label, NEW m \in Member \cup {NULL},
           NEW d \in Device \cup {NULL}, NEW D \in SUBSET Device,
           o \in {"upsert", "remove_member", "link", "remove_storage", "ping", "reap"},
           label \in {"lock", "drop", "ping"},
           o \in {"upsert", "remove_member", "link"} => m \in Member,
           o \in {"link", "ping"} => d \in Device,
           label = "ping" => o = "ping" /\ storage[d] # NULL,
           label = "lock" => o \in {"upsert", "remove_member", "link"},
           label = "drop" => o \in {"remove_storage", "reap"},
           \A x \in D : storage[x] # NULL,
           Receive(r, o, label, m, d, D), want' \in [Req -> {"client", "admin"}],
           \A q \in Req \ {r} : want'[q] = want[q], Mark({})
    PROVE  IInv' /\ Kept
<1>1. RowTypes' /\ Kept /\ LateOK'
  BY Parts, Unwritten DEF Receive, rows
<1>2. OtherTypes'
  BY Parts, MarkType DEF OtherTypes, Receive, server
<1>3. LocalTypes'
  BY Parts DEF LocalTypes, Receive, server, Goto
<1>4. \A q \in Req \ {r} : Same(q)
  BY Parts DEF LocalTypes, Same, Receive, Goto
<1>5. Sound(r)'
  BY Parts DEF LocalTypes, Sound, Receive, Goto, rows
<1> QED BY <1>1, <1>2, <1>3, <1>4, <1>5, Assemble

LEMMA BeginIInv ==
    ASSUME IInv, NEW r \in Req, Begin(r)
    PROVE  IInv' /\ Kept
<1> USE DEF LocalTypes
<1>1. ASSUME NEW m \in Member, NEW w \in {"client", "admin"}, BeginUpsert(r, m, w) PROVE IInv' /\ Kept
  BY <1>1, Parts, Received, SMT DEF BeginUpsert
<1>2. ASSUME NEW m \in Member, BeginRemoveMember(r, m) PROVE IInv' /\ Kept
  BY <1>2, Parts, Received, SMT DEF BeginRemoveMember
<1>3. ASSUME NEW m \in Member, NEW d \in Device, BeginLink(r, m, d) PROVE IInv' /\ Kept
  BY <1>3, Parts, Received, SMT DEF BeginLink
<1>4. ASSUME NEW d \in Device, BeginRemoveStorage(r, d) PROVE IInv' /\ Kept
  BY <1>4, Parts, Received, SMT DEF BeginRemoveStorage
<1>5. ASSUME NEW d \in Device, BeginPing(r, d) PROVE IInv' /\ Kept
  BY <1>5, Parts, Received, SMT DEF BeginPing, Linked
<1>6. ASSUME BeginReap(r) PROVE IInv' /\ Kept
  BY <1>6, Parts, Received, SMT DEF BeginReap, Pending, Linked
<1> QED BY <1>1, <1>2, <1>3, <1>4, <1>5, <1>6 DEF Begin

\* A request that ends leaves nothing to show but its writes.
LEMMA Finished ==
    ASSUME IInv, NEW r \in Req, Finish(r), RowTypes', Kept, LateOK', OtherTypes'
    PROVE  IInv' /\ Kept
<1>1. LocalTypes' /\ Sound(r)' /\ \A q \in Req \ {r} : Same(q)
  BY Parts, ForgetLocals DEF Finish
<1> QED BY <1>1, Assemble

LEMMA LockIInv ==
    ASSUME IInv, NEW r \in Req, Lock(r)
    PROVE  IInv' /\ Kept
<1>1. RowTypes' /\ Kept /\ LateOK'
  BY Parts, Unwritten DEF Lock, rows
<1>2. OtherTypes' /\ LocalTypes' /\ Sound(r)' /\ \A q \in Req \ {r} : Same(q)
  BY Parts DEF OtherTypes, LocalTypes, Sound, Same, Lock, Goto, rows
<1> QED BY <1>1, <1>2, Assemble

LEMMA CheckIInv ==
    ASSUME IInv, NEW r \in Req, Check(r)
    PROVE  IInv' /\ Kept
<1>1. RowTypes' /\ Kept /\ LateOK'
  BY Parts, Unwritten DEF Check, rows
<1>2. OtherTypes'
  BY Parts, MarkType DEF OtherTypes, Check
<1>3. CASE Finish(r)
  BY <1>1, <1>2, <1>3, Finished
<1>4. CASE /\ Permitted(r)
           /\ Goto(r, CASE op[r] = "upsert" -> "put"
                        [] op[r] = "remove_member" -> "revoke"
                        [] op[r] = "link" ->
                             IF storage[dev[r]] = NULL THEN "create" ELSE "relink")
           /\ UNCHANGED <<op, on, want, dev, todo, lock>>
  <2>1. /\ Sound(r) /\ op[r] \in {"upsert", "remove_member", "link"}
        /\ member' = member /\ storage' = storage
    BY Parts DEF Sound, Check, rows
  <2>2. /\ LocalTypes'
        /\ \A q \in Req \ {r} : Same(q)
    BY <1>4, <2>1, Parts DEF LocalTypes, Same, Goto
  <2>3. CASE op[r] = "upsert"
    <3>1. pc'[r] = "put"
      BY <1>4, <2>3, Parts DEF LocalTypes, Goto
    <3>2. Sound(r)'
      BY <1>4, <2>1, <2>3, <3>1 DEF Sound
    <3> QED BY <1>1, <1>2, <2>2, <3>2, Assemble
  <2>4. CASE op[r] = "remove_member"
    <3>1. member[on[r]] # NULL /\ pc'[r] = "revoke"
      BY <1>4, <2>4, Parts DEF LocalTypes, Permitted, Goto
    <3>2. Sound(r)'
      BY <1>4, <2>1, <2>4, <3>1 DEF Sound
    <3> QED BY <1>1, <1>2, <2>2, <3>2, Assemble
  <2>5. CASE op[r] = "link"
    <3>1. pc'[r] \in {"create", "relink"} /\ (pc'[r] = "relink" => storage[dev[r]] # NULL)
      BY <1>4, <2>5, Parts DEF LocalTypes, Goto
    <3>2. Sound(r)'
      BY <1>4, <2>1, <2>5, <3>1 DEF Sound
    <3> QED BY <1>1, <1>2, <2>2, <3>2, Assemble
  <2> QED BY <2>1, <2>3, <2>4, <2>5
<1> QED BY <1>3, <1>4 DEF Check

\* The write a request makes under the lock finds the rows it needs.
LEMMA RequestWrite ==
    ASSUME IInv, NEW r \in Req, pc[r] \in {"put", "revoke", "create", "relink"}
    PROVE  /\ Write(pc[r], on[r], want[r], dev[r]) \in LateWrite
           /\ Executable(Write(pc[r], on[r], want[r], dev[r]))
BY Parts DEF LocalTypes, Sound, Write, LateWrite, Executable

LEMMA DropWrite ==
    ASSUME NEW d \in Device, NEW k \in {"drop", "ping"}, storage[d] # NULL
    PROVE  /\ Write(k, NULL, "client", d) \in LateWrite
           /\ Executable(Write(k, NULL, "client", d))
BY DEF Write, LateWrite, Executable

LEMMA WriteStepIInv ==
    ASSUME IInv, NEW r \in Req, WriteStep(r)
    PROVE  IInv' /\ Kept
<1> DEFINE w == Write(pc[r], on[r], want[r], dev[r])
<1>1. /\ w \in LateWrite /\ Executable(w)
      /\ pc[r] \in {"put", "revoke", "create", "relink"}
      /\ mesh' = mesh /\ mode' = mode /\ seeds' = seeds
  BY RequestWrite DEF WriteStep
<1>2. CASE (Done(w) \/ Failed(r, w)) /\ Finish(r)
  <2>1. RowTypes' /\ Kept /\ LateOK' /\ OtherTypes'
    BY <1>1, <1>2, Parts, Written DEF OtherTypes
  <2> QED BY <1>2, <2>1, Finished
<1>3. CASE Finish(r) /\ UNCHANGED <<rows, late>> /\ Mark({})
  <2>1. RowTypes' /\ Kept /\ LateOK' /\ OtherTypes'
    BY <1>1, <1>3, Parts, Unwritten, MarkType DEF OtherTypes
  <2> QED BY <1>3, <2>1, Finished
<1>4. CASE /\ op[r] # "upsert" /\ ~Refused(w) /\ Done(w)
           /\ Goto(r, IF op[r] = "link" THEN "enmesh" ELSE "list")
           /\ UNCHANGED <<op, on, want, dev, todo, lock>>
  <2>1. RowTypes' /\ Kept /\ LateOK' /\ OtherTypes'
    BY <1>1, <1>4, Parts, Written DEF OtherTypes
  <2>2. LocalTypes' /\ \A q \in Req \ {r} : Same(q)
    BY <1>4, Parts DEF LocalTypes, Same, Goto
  <2>3. Sound(r) /\ \A d \in todo[r] : storage'[d] # NULL
    BY <2>1, Parts DEF LocalTypes, Kept, Sound
  <2>4. CASE op[r] = "link"
    <3>1. pc'[r] = "enmesh" /\ pc[r] \in {"create", "relink"} /\ dev[r] \in Device
      BY <1>1, <1>4, <2>3, <2>4, Parts DEF LocalTypes, Goto, Sound
    <3>2. storage'[dev[r]] # NULL
      <4>1. CASE pc[r] = "relink"
        BY <2>1, <2>3, <3>1, <4>1 DEF Kept, Sound
      <4>2. CASE pc[r] = "create"
        <5>1. CreateStorage(dev[r], on[r])
          BY <1>4, <4>2 DEF Done, Execute, Write
        <5>2. on[r] \in Member /\ storage \in [Device -> StorageRow \cup {NULL}]
          BY <2>3, <2>4, Parts DEF Sound, RowTypes
        <5>3. CASE storage[dev[r]] # NULL
          BY <2>1, <3>1, <5>3 DEF Kept
        <5>4. CASE storage[dev[r]] = NULL
          <6>1. storage'[dev[r]] = NewStorage(on[r])
            BY <3>1, <5>1, <5>2, <5>4 DEF CreateStorage
          <6>2. NewStorage(on[r]) \in StorageRow
            BY <5>2 DEF NewStorage, StorageRow
          <6> QED BY <6>1, <6>2, ControlAssumption
        <5> QED BY <5>3, <5>4
      <4> QED BY <3>1, <4>1, <4>2
    <3>3. Sound(r)'
      BY <1>4, <2>3, <2>4, <3>1, <3>2 DEF Sound
    <3> QED BY <2>1, <2>2, <3>3, Assemble
  <2>5. CASE op[r] # "link"
    <3>1. pc'[r] = "list" /\ op[r] = "remove_member"
      BY <1>1, <1>4, <2>3, <2>5, Parts DEF LocalTypes, Goto, Sound
    <3>2. Sound(r)'
      BY <1>4, <2>3, <3>1 DEF Sound
    <3> QED BY <2>1, <2>2, <3>2, Assemble
  <2> QED BY <2>4, <2>5
<1> QED BY <1>2, <1>3, <1>4 DEF WriteStep

LEMMA ListIInv ==
    ASSUME IInv, NEW r \in Req, List(r)
    PROVE  IInv' /\ Kept
<1>1. RowTypes' /\ Kept /\ LateOK'
  BY Parts, Unwritten DEF List, rows
<1>2. OtherTypes'
  BY Parts, MarkType, WorkingType DEF OtherTypes, List
<1>3. CASE Finish(r)
  BY <1>1, <1>2, <1>3, Finished
<1>4. CASE /\ todo' = [todo EXCEPT ![r] = LinkedBy(on[r])]
           /\ Goto(r, "drop")
           /\ UNCHANGED <<op, on, want, dev, lock>>
  <2>1. LinkedBy(on[r]) \subseteq Device /\ \A d \in LinkedBy(on[r]) : storage'[d] # NULL
    BY DEF LinkedBy, Linked, List, rows
  <2>2. LocalTypes' /\ \A q \in Req \ {r} : Same(q)
    BY <1>4, <2>1, Parts DEF LocalTypes, Same, Goto
  <2>3. Sound(r)'
    BY <1>4, <2>1, Parts DEF LocalTypes, Sound, Goto, List
  <2> QED BY <1>1, <1>2, <2>2, <2>3, Assemble
<1> QED BY <1>3, <1>4 DEF List

LEMMA DropIInv ==
    ASSUME IInv, NEW r \in Req, Drop(r)
    PROVE  IInv' /\ Kept
<1>1. PICK d \in todo[r] :
         LET w == Write("drop", NULL, "client", d) IN
         \/ /\ dev' = [dev EXCEPT ![r] = d]
            /\ todo' = [todo EXCEPT ![r] = @ \ {d}]
            /\ Goto(r, "unmesh")
            /\ UNCHANGED <<op, on, want, lock>>
            /\ Done(w)
         \/ /\ IF op[r] = "remove_member"
               THEN /\ todo' = [todo EXCEPT ![r] = @ \ {d}]
                    /\ UNCHANGED <<pc, op, on, want, dev, lock>>
               ELSE Finish(r)
            /\ Failed(r, w)
  BY DEF Drop
<1> DEFINE w == Write("drop", NULL, "client", d)
<1>2. d \in Device /\ storage[d] # NULL /\ todo[r] \subseteq Device
  BY Parts DEF LocalTypes, Sound
<1>3. w \in LateWrite /\ Executable(w)
  BY <1>2, DropWrite
<1>4. RowTypes' /\ Kept /\ LateOK' /\ OtherTypes'
  BY <1>1, <1>3, Parts, Written DEF OtherTypes, Drop
<1>5. pc[r] = "drop" /\ Sound(r) /\ \A x \in todo[r] : storage'[x] # NULL
  BY <1>2, <1>4, Parts DEF Kept, Sound, Drop
<1>6. CASE /\ dev' = [dev EXCEPT ![r] = d]
           /\ todo' = [todo EXCEPT ![r] = @ \ {d}]
           /\ Goto(r, "unmesh")
           /\ UNCHANGED <<op, on, want, lock>>
  <2>1. LocalTypes' /\ \A q \in Req \ {r} : Same(q)
    BY <1>2, <1>6, Parts DEF LocalTypes, Same, Goto
  <2>2. pc'[r] = "unmesh" /\ dev'[r] = d /\ todo'[r] \subseteq todo[r]
    BY <1>6, Parts DEF LocalTypes, Goto
  <2>3. Sound(r)'
    BY <1>2, <1>5, <1>6, <2>2 DEF Sound
  <2> QED BY <1>4, <2>1, <2>3, Assemble
<1>7. CASE /\ todo' = [todo EXCEPT ![r] = @ \ {d}]
           /\ UNCHANGED <<pc, op, on, want, dev, lock>>
  <2>1. LocalTypes' /\ \A q \in Req \ {r} : Same(q)
    BY <1>2, <1>7, Parts DEF LocalTypes, Same
  <2>2. todo'[r] \subseteq todo[r]
    BY <1>7, Parts DEF LocalTypes
  <2>3. Sound(r)'
    BY <1>5, <1>7, <2>2 DEF Sound
  <2> QED BY <1>4, <2>1, <2>3, Assemble
<1>8. CASE Finish(r)
  BY <1>4, <1>8, Finished
<1> QED BY <1>1, <1>6, <1>7, <1>8

LEMMA UnmeshIInv ==
    ASSUME IInv, NEW r \in Req, Unmesh(r)
    PROVE  IInv' /\ Kept
<1>1. RowTypes' /\ Kept /\ LateOK'
  BY Parts, Unwritten DEF Unmesh, rows
<1>2. pc[r] = "unmesh" /\ dev[r] \in Device /\ Sound(r) /\ storage' = storage
  BY Parts DEF Sound, Unmesh, rows
<1>3. OtherTypes'
  BY <1>2, Parts DEF OtherTypes, Unmesh, server
<1>4. LocalTypes' /\ \A q \in Req \ {r} : Same(q)
  BY Parts DEF LocalTypes, Same, Unmesh, Goto, server
<1>5. /\ pc'[r] = "drop" /\ dev'[r] = NULL
      /\ op'[r] = op[r] /\ on'[r] = on[r] /\ todo'[r] = todo[r]
  BY Parts DEF LocalTypes, Unmesh, Goto
<1>6. Sound(r)'
  BY <1>2, <1>5 DEF Sound
<1> QED BY <1>1, <1>3, <1>4, <1>6, Assemble

LEMMA RemovedIInv ==
    ASSUME IInv, NEW r \in Req, Removed(r)
    PROVE  IInv' /\ Kept
<1>1. RowTypes' /\ Kept /\ LateOK' /\ OtherTypes'
  BY Parts, Unwritten DEF Removed, rows, OtherTypes
<1> QED BY <1>1, Finished DEF Removed

LEMMA EnmeshIInv ==
    ASSUME IInv, NEW r \in Req, Enmesh(r)
    PROVE  IInv' /\ Kept
<1>1. RowTypes' /\ Kept /\ LateOK'
  BY Parts, Unwritten DEF Enmesh, rows
<1>2. /\ pc[r] = "enmesh" /\ op[r] = "link" /\ dev[r] \in Device
      /\ Sound(r) /\ storage' = storage
  BY Parts DEF Sound, Enmesh, rows
<1>3. OtherTypes'
  BY <1>2, Parts, MarkType DEF OtherTypes, Enmesh
<1>4. CASE Finish(r)
  BY <1>1, <1>3, <1>4, Finished
<1>5. CASE Goto(r, "unlink") /\ UNCHANGED <<op, on, want, dev, todo, lock>>
  <2>1. LocalTypes' /\ pc'[r] = "unlink" /\ \A q \in Req \ {r} : Same(q)
    BY <1>5, Parts DEF LocalTypes, Same, Goto
  <2>2. Sound(r)'
    BY <1>2, <1>5, <2>1 DEF Sound
  <2> QED BY <1>1, <1>3, <2>1, <2>2, Assemble
<1> QED BY <1>4, <1>5 DEF Enmesh

LEMMA UnlinkIInv ==
    ASSUME IInv, NEW r \in Req, Unlink(r)
    PROVE  IInv' /\ Kept
<1> DEFINE w == Write("drop", NULL, "client", dev[r])
<1>1. dev[r] \in Device /\ storage[dev[r]] # NULL
  BY Parts DEF Sound, Unlink
<1>2. w \in LateWrite /\ Executable(w)
  BY <1>1, DropWrite
<1>3. RowTypes' /\ Kept /\ LateOK' /\ OtherTypes'
  BY <1>2, Parts, Written DEF OtherTypes, Unlink
<1> QED BY <1>3, Finished DEF Unlink

LEMMA PingIInv ==
    ASSUME IInv, NEW r \in Req, Ping(r)
    PROVE  IInv' /\ Kept
<1> DEFINE w == Write("ping", NULL, "client", dev[r])
<1>1. dev[r] \in Device /\ storage[dev[r]] # NULL
  BY Parts DEF Sound, Ping
<1>2. w \in LateWrite /\ Executable(w)
  BY <1>1, DropWrite
<1>3. RowTypes' /\ Kept /\ LateOK' /\ OtherTypes'
  BY <1>2, Parts, Written DEF OtherTypes, Ping
<1> QED BY <1>3, Finished DEF Ping

\* The steps of the process, of the clock and of db-api: locals are left alone.
LEMMA Undisturbed ==
    ASSUME IInv, RowTypes', Kept, LateOK', OtherTypes', UNCHANGED <<reqVars, lock>>
    PROVE  IInv' /\ Kept
<1>1. LocalTypes' /\ \A q \in Req : Same(q)
  BY Parts DEF LocalTypes, Same, reqVars
<1>2. \A q \in Req : Sound(q)'
  BY <1>1, Parts, SoundKept
<1> QED BY <1>1, <1>2 DEF IInv, TypeOK, RowTypes, LateOK, LocalTypes, OtherTypes

LEMMA ProcessIInv ==
    ASSUME IInv, Start \/ Seed \/ Crash \/ ExecuteLate \/ \E d \in Device : Age(d)
    PROVE  IInv' /\ Kept
<1>1. CASE Start
  <2>1. RowTypes' /\ Kept /\ LateOK' /\ OtherTypes'
    BY <1>1, Parts, Unwritten, ControlAssumption DEF Start, OtherTypes
  <2> QED BY <1>1, <2>1, Undisturbed DEF Start
<1>2. CASE Seed
  <2>1. PICK m \in seeds : PutMember(m, "admin") /\ seeds' = seeds \ {m}
    BY <1>2 DEF Seed
  <2> DEFINE w == Write("put", m, "admin", NULL)
  <2>2. m \in Member /\ w \in LateWrite /\ Executable(w) /\ Execute(w)
    BY <2>1, Parts, ControlAssumption DEF OtherTypes, Write, LateWrite, Executable, Execute
  <2>3. RowTypes' /\ Kept
    BY <2>2, Parts, ExecuteKeeps
  <2>4. LateOK' /\ OtherTypes'
    BY <1>2, <2>1, <2>3, Parts, ExecutableKept DEF LateOK, OtherTypes, Seed
  <2> QED BY <1>2, <2>3, <2>4, Undisturbed DEF Seed
<1>3. CASE Crash
  <2>1. RowTypes' /\ Kept /\ LateOK'
    BY <1>3, Parts, Unwritten DEF Crash
  <2>2. OtherTypes'
    BY <1>3, Parts, WorkingType DEF Crash, OtherTypes
  <2>3. LocalTypes' /\ \A q \in Req : Sound(q)'
    BY <1>3, Parts, ForgetLocals DEF Crash
  <2> QED BY <2>1, <2>2, <2>3 DEF IInv, TypeOK, RowTypes, LateOK, LocalTypes, OtherTypes
<1>4. CASE ExecuteLate
  <2>1. PICK w \in late : Execute(w) /\ late' = late \ {w}
    BY <1>4 DEF ExecuteLate
  <2>2. RowTypes' /\ Kept
    BY <2>1, Parts, ExecuteKeeps DEF LateOK
  <2>3. LateOK' /\ OtherTypes'
    BY <1>4, <2>1, <2>2, Parts, ExecutableKept DEF LateOK, OtherTypes, ExecuteLate, server
  <2> QED BY <1>4, <2>2, <2>3, Undisturbed DEF ExecuteLate, server
<1>5. ASSUME NEW d \in Device, Age(d) PROVE IInv' /\ Kept
  <2> DEFINE row == [storage[d] EXCEPT !.old = TRUE]
  <2>1. storage[d] \in StorageRow
    BY <1>5, Parts DEF Age, Linked, RowTypes
  <2>2. row \in StorageRow /\ row.owner = storage[d].owner
    BY <2>1 DEF StorageRow
  <2>3. RowTypes' /\ Kept
    BY <1>5, <2>2, Parts, StorageWritten DEF Age
  <2>4. LateOK' /\ OtherTypes'
    BY <1>5, <2>3, Parts, ExecutableKept DEF LateOK, OtherTypes, Age, server
  <2> QED BY <1>5, <2>3, <2>4, Undisturbed DEF Age, server
<1> QED BY <1>1, <1>2, <1>3, <1>4, <1>5

LEMMA NextIInv ==
    ASSUME IInv, [Next]_vars
    PROVE  IInv' /\ Kept
<1>1. ASSUME NEW r \in Req, Step(r) PROVE IInv' /\ Kept
  BY <1>1, LockIInv, CheckIInv, WriteStepIInv, ListIInv, DropIInv, UnmeshIInv,
     RemovedIInv, EnmeshIInv, UnlinkIInv, PingIInv DEF Step
<1>2. CASE UNCHANGED vars
  <2>1. RowTypes' /\ Kept /\ LateOK' /\ OtherTypes'
    BY <1>2, Parts, Unwritten DEF vars, OtherTypes, server
  <2> QED BY <1>2, <2>1, Undisturbed DEF vars, server
<1> QED BY <1>1, <1>2, BeginIInv, ProcessIInv DEF Next

\* The rows, the locals and the lock always hold values of their types: every
\* route finds the rows it goes on to update.
THEOREM TypesHold == Spec => []TypeOK
<1>1. IInv /\ [Next]_vars => IInv'
  BY NextIInv
<1>2. IInv => TypeOK
  BY DEF IInv
<1> QED BY InitIInv, <1>1, <1>2, PTL DEF Spec

\* No step deletes a storage row or gives it another owner, not even a create
\* that db-api executes after the control plane gave up on it.
THEOREM OwnersFixed == Spec => OwnerFixed
<1>1. IInv /\ [Next]_vars => IInv'
  BY NextIInv
<1>2. IInv /\ [Next]_vars =>
        [\A d \in Device : storage[d] # NULL =>
            storage'[d] # NULL /\ storage'[d].owner = storage[d].owner]_vars
  BY NextIInv DEF Kept
<1> QED BY InitIInv, <1>1, <1>2, PTL DEF Spec, OwnerFixed

-----------------------------------------------------------------------------
(* Somebody can always administrate *)

LEMMA Survives ==
    ASSUME NEW m, \A x \in Member \ {m} : member'[x] = member[x]
    PROVE  ActiveAdmins \ {m} \subseteq ActiveAdmins'
BY DEF ActiveAdmins, Admin, Active

\* Who passes ensure_not_last_active_admin leaves an administrator behind.
LEMMA NotLast ==
    ASSUME NEW m \in Member, ActiveAdmins # {}, ~LastAdmin(m)
    PROVE  ActiveAdmins \ {m} # {}
<1>1. CASE ~Admin(m)
  BY <1>1 DEF ActiveAdmins
<1>2. CASE Admin(m) /\ ~(Cardinality(ActiveAdmins) <= 1)
  <2>1. SUFFICES ASSUME ActiveAdmins \ {m} = {} PROVE FALSE
    OBVIOUS
  <2>2. ActiveAdmins = {m}
    BY <1>2, <2>1 DEF ActiveAdmins
  <2>3. Cardinality(ActiveAdmins) = 1
    BY <2>2, FS_Singleton
  <2> QED BY <1>2, <2>3, SMT
<1> QED BY <1>1, <1>2 DEF LastAdmin

LEMMA StorageWrite ==
    ASSUME NEW w, Execute(w), w.kind \notin {"put", "revoke"}
    PROVE  member' = member
BY DEF Execute, CreateStorage, RelinkStorage, PingStorage, RemoveStorage,
       PutMember, RevokeMember

\* No write to the members is overdue.
NoLate(L) == \A w \in L : w.kind \notin {"put", "revoke"}

\* A step of a request that is not about to change a member, before or after.
LEMMA Uninvolved ==
    ASSUME Admins, NEW r \in Req, mode = "serve", UNCHANGED <<member, mode, seeds>>,
           NoLate(late'), \A q \in Req \ {r} : Same(q),
           pc'[r] \notin {"check", "put", "revoke"}, lock' = lock \/ lock = r
    PROVE  Admins'
<1>1. ActiveAdmins' = ActiveAdmins /\ Staffed'
  BY DEF ActiveAdmins, Admin, Active, Admins, Staffed
<1>2. ASSUME NEW q \in Req \ {r} PROVE
        /\ pc'[q] \in {"check", "put", "revoke"} => lock' = q
        /\ pc'[q] = "revoke" \/ (pc'[q] = "put" /\ want'[q] = "client")
              => ActiveAdmins' \ {on'[q]} # {}
  BY <1>1 DEF Admins, Same
<1> QED BY <1>1, <1>2 DEF Admins, NoLate

LEMMA Busy ==
    ASSUME Admins, NEW r \in Req, pc[r] # "idle"
    PROVE  mode = "serve"
BY DEF Admins

LEMMA FinishUninvolved ==
    ASSUME Admins, LocalTypes, NEW r \in Req, Finish(r), pc[r] # "idle",
           UNCHANGED <<member, mode, seeds>>, NoLate(late')
    PROVE  Admins'
<1>1. (\A q \in Req \ {r} : Same(q)) /\ pc'[r] = "idle" /\ (lock' = lock \/ lock = r)
  BY DEF Finish, Forget, Same
<1> QED BY <1>1, Busy, Uninvolved

\* A storage write, answered or not.
LEMMA StorageOutcome ==
    ASSUME Admins, NEW r, NEW w, w.kind \notin {"put", "revoke"}, Done(w) \/ Failed(r, w)
    PROVE  member' = member /\ NoLate(late')
<1>1. member' = member
  BY StorageWrite DEF Done, Failed, rows
<1>2. late' \subseteq late \cup {w}
  BY DEF Done, Failed
<1> QED BY <1>1, <1>2 DEF Admins, NoLate

LEMMA BeginAdmins ==
    ASSUME IInv, Admins, NEW r \in Req, Begin(r)
    PROVE  Admins'
<1>1. ASSUME NEW o, NEW label, NEW m, NEW d, NEW D, label \in {"lock", "drop", "ping"},
             Receive(r, o, label, m, d, D), \A q \in Req \ {r} : want'[q] = want[q]
      PROVE  Admins'
  <2>1. /\ mode = "serve" /\ UNCHANGED <<member, mode, seeds, late, lock>>
        /\ pc'[r] = label /\ \A q \in Req \ {r} : Same(q)
    BY <1>1, Parts DEF Receive, Goto, Same, LocalTypes, rows, server
  <2> QED BY <1>1, <2>1, Uninvolved DEF Admins, NoLate
<1>2. ASSUME NEW m \in Member, NEW w \in {"client", "admin"}, BeginUpsert(r, m, w) PROVE Admins'
  BY <1>1, <1>2, Parts, SMT DEF BeginUpsert, LocalTypes
<1>3. ASSUME NEW m \in Member, BeginRemoveMember(r, m) PROVE Admins'
  BY <1>1, <1>3, SMT DEF BeginRemoveMember
<1>4. ASSUME NEW m \in Member, NEW d \in Device, BeginLink(r, m, d) PROVE Admins'
  BY <1>1, <1>4, SMT DEF BeginLink
<1>5. ASSUME NEW d \in Device, BeginRemoveStorage(r, d) PROVE Admins'
  BY <1>1, <1>5, SMT DEF BeginRemoveStorage
<1>6. ASSUME NEW d \in Device, BeginPing(r, d) PROVE Admins'
  BY <1>1, <1>6, SMT DEF BeginPing
<1>7. ASSUME BeginReap(r) PROVE Admins'
  BY <1>1, <1>7, SMT DEF BeginReap
<1> QED BY <1>2, <1>3, <1>4, <1>5, <1>6, <1>7 DEF Begin

LEMMA LockAdmins ==
    ASSUME IInv, Admins, NEW r \in Req, Lock(r)
    PROVE  Admins'
<1>1. mode = "serve" /\ UNCHANGED <<member, mode, seeds, late, want, on>>
  BY Busy DEF Lock, rows
<1>2. ActiveAdmins' = ActiveAdmins /\ Staffed'
  BY <1>1 DEF ActiveAdmins, Admin, Active, Admins, Staffed
<1>3. \A q \in Req : pc[q] \notin {"check", "put", "revoke"}
  BY ControlAssumption DEF Admins, Lock
<1>4. lock' = r /\ pc'[r] = "check" /\ \A q \in Req \ {r} : pc'[q] = pc[q]
  BY Parts DEF LocalTypes, Lock, Goto
<1> QED BY <1>1, <1>2, <1>3, <1>4 DEF Admins

LEMMA CheckAdmins ==
    ASSUME IInv, Admins, NEW r \in Req, Check(r)
    PROVE  Admins'
<1>1. mode = "serve" /\ pc[r] = "check" /\ UNCHANGED <<member, mode, seeds, late>>
  BY Busy DEF Check, rows
<1>2. CASE Finish(r)
  BY <1>1, <1>2, Parts, FinishUninvolved DEF Admins, NoLate
<1>3. CASE Permitted(r) /\ UNCHANGED <<op, on, want, dev, todo, lock>>
           /\ Goto(r, CASE op[r] = "upsert" -> "put"
                        [] op[r] = "remove_member" -> "revoke"
                        [] op[r] = "link" ->
                             IF storage[dev[r]] = NULL THEN "create" ELSE "relink")
  <2>1. /\ op[r] \in {"upsert", "remove_member", "link"} /\ on[r] \in Member
        /\ lock = r /\ ActiveAdmins # {}
    BY <1>1, Parts DEF Sound, Admins
  <2>2. ActiveAdmins' = ActiveAdmins /\ Staffed'
    BY <1>1 DEF ActiveAdmins, Admin, Active, Admins, Staffed
  <2>3. \A q \in Req \ {r} : pc'[q] = pc[q]
    BY <1>3, Parts DEF LocalTypes, Goto
  <2>4. pc'[r] = "revoke" \/ (pc'[r] = "put" /\ want[r] = "client")
            => ActiveAdmins \ {on[r]} # {}
    <3>1. CASE op[r] = "upsert"
      <4>1. pc'[r] = "put" /\ (want[r] = "client" => ~LastAdmin(on[r]))
        BY <1>3, <3>1, Parts DEF LocalTypes, Goto, Permitted
      <4> QED BY <2>1, <4>1, NotLast
    <3>2. CASE op[r] = "remove_member"
      <4>1. ~LastAdmin(on[r])
        BY <1>3, <3>2 DEF Permitted
      <4> QED BY <2>1, <4>1, NotLast
    <3>3. CASE op[r] = "link"
      BY <1>3, <3>3, Parts DEF LocalTypes, Goto
    <3> QED BY <2>1, <3>1, <3>2, <3>3
  <2>5. \A w \in late' : w.kind \notin {"put", "revoke"}
    BY <1>1 DEF Admins
  <2>6. lock' = lock /\ on' = on /\ want' = want
    BY <1>3
  <2>7. \A q \in Req :
          /\ pc'[q] \in {"check", "put", "revoke"} => lock' = q
          /\ pc'[q] = "revoke" \/ (pc'[q] = "put" /\ want'[q] = "client")
                => ActiveAdmins' \ {on'[q]} # {}
    BY <2>1, <2>2, <2>3, <2>4, <2>6 DEF Admins
  <2> QED BY <1>1, <2>1, <2>2, <2>5, <2>7 DEF Admins
<1> QED BY <1>2, <1>3 DEF Check

\* The write of a member under the lock: an administrator remains, and nobody
\* else is about to write one.
LEMMA MemberWrite ==
    ASSUME IInv, Admins, NEW r \in Req, pc[r] \in {"put", "revoke"},
           Execute(Write(pc[r], on[r], want[r], dev[r])),
           UNCHANGED <<mode, seeds>>, NoLate(late'),
           pc'[r] \notin {"check", "put", "revoke"}, \A q \in Req \ {r} : Same(q)
    PROVE  Admins'
<1> DEFINE w == Write(pc[r], on[r], want[r], dev[r])
<1>1. mode = "serve" /\ lock = r /\ on[r] \in Member
  BY Busy, Parts DEF Admins, Sound
<1>2. \A q \in Req \ {r} : pc[q] \notin {"check", "put", "revoke"}
  BY <1>1 DEF Admins
<1>3. ActiveAdmins' # {}
  <2>1. CASE pc[r] = "put"
    <3>1. member' = [member EXCEPT ![on[r]] = [role |-> want[r], active |-> TRUE]]
      BY <2>1 DEF Execute, PutMember, Write
    <3>2. CASE want[r] = "client"
      BY <2>1, <3>1, <3>2, Survives, Parts, ZenonT(30) DEF Admins, RowTypes
    <3>3. CASE want[r] = "admin"
      <4>1. member'[on[r]] = [role |-> "admin", active |-> TRUE]
        BY <1>1, <3>1, <3>3, Parts DEF RowTypes
      <4>2. [role |-> "admin", active |-> TRUE] \in MemberRow
        BY DEF MemberRow
      <4>3. on[r] \in ActiveAdmins'
        BY <1>1, <4>1, <4>2, ControlAssumption, SMT DEF ActiveAdmins, Admin, Active
      <4> QED BY <4>3
    <3> QED BY <3>2, <3>3, Parts DEF LocalTypes
  <2>2. CASE pc[r] = "revoke"
    <3>1. member' = [member EXCEPT ![on[r]].active = FALSE]
      BY <2>2 DEF Execute, RevokeMember, Write
    <3>2. \A x \in Member \ {on[r]} : member'[x] = member[x]
      BY <3>1, Parts DEF RowTypes
    <3>3. ActiveAdmins \ {on[r]} # {}
      BY <2>2 DEF Admins
    <3> QED BY <3>2, <3>3, Survives
  <2> QED BY <2>1, <2>2
<1>4. \A q \in Req : pc'[q] \notin {"check", "put", "revoke"}
  BY <1>2 DEF Same
<1> QED BY <1>1, <1>3, <1>4 DEF Admins, Staffed, NoLate

LEMMA WriteStepAdmins ==
    ASSUME IInv, Admins, "late_member" \notin Faults, NEW r \in Req, WriteStep(r)
    PROVE  Admins'
<1> DEFINE w == Write(pc[r], on[r], want[r], dev[r])
<1>1. /\ pc[r] \in {"put", "revoke", "create", "relink"}
      /\ mode = "serve" /\ UNCHANGED <<mode, seeds>> /\ w.kind = pc[r]
  BY Busy DEF WriteStep, Write
<1>2. /\ \A q \in Req \ {r} : Same(q)
      /\ pc'[r] \notin {"check", "put", "revoke"}
      /\ lock' = lock \/ lock = r
  <2>1. CASE Finish(r)
    BY <2>1, Parts DEF Finish, Forget, Same, LocalTypes
  <2>2. CASE /\ Goto(r, IF op[r] = "link" THEN "enmesh" ELSE "list")
             /\ UNCHANGED <<op, on, want, dev, todo, lock>>
    <3>1. pc'[r] \in {"enmesh", "list"} /\ \A q \in Req \ {r} : Same(q)
      BY <2>2, Parts DEF Goto, Same, LocalTypes
    <3> QED BY <2>2, <3>1
  <2> QED BY <2>1, <2>2 DEF WriteStep
<1>3. Done(w) \/ Failed(r, w) \/ UNCHANGED <<rows, late>>
  BY DEF WriteStep
<1>4. CASE UNCHANGED <<rows, late>>
  BY <1>1, <1>2, <1>4, Uninvolved DEF rows, Admins, NoLate
<1>5. CASE (Done(w) \/ Failed(r, w)) /\ pc[r] \in {"create", "relink"}
  BY <1>1, <1>2, <1>5, StorageOutcome, Uninvolved
<1>6. CASE (Done(w) \/ Failed(r, w)) /\ pc[r] \in {"put", "revoke"}
  <2>1. late' = late /\ (Execute(w) \/ UNCHANGED rows)
    BY <1>1, <1>6 DEF Done, Failed, Overdue
  <2>2. NoLate(late')
    BY <2>1 DEF Admins, NoLate
  <2>3. CASE Execute(w)
    BY <1>1, <1>2, <1>6, <2>2, <2>3, MemberWrite
  <2>4. CASE UNCHANGED rows
    BY <1>1, <1>2, <2>2, <2>4, Uninvolved DEF rows
  <2> QED BY <2>1, <2>3, <2>4
<1> QED BY <1>1, <1>3, <1>4, <1>5, <1>6

LEMMA RemovalAdmins ==
    ASSUME IInv, Admins, NEW r \in Req, List(r) \/ Drop(r) \/ Unmesh(r) \/ Removed(r)
    PROVE  Admins'
<1>1. CASE List(r)
  <2>1. UNCHANGED <<member, mode, seeds, late>> /\ pc[r] = "list" /\ NoLate(late')
    BY <1>1 DEF List, rows, Admins, NoLate
  <2>2. CASE Finish(r)
    BY <2>1, <2>2, Parts, FinishUninvolved
  <2>3. CASE /\ todo' = [todo EXCEPT ![r] = LinkedBy(on[r])]
             /\ Goto(r, "drop")
             /\ UNCHANGED <<op, on, want, dev, lock>>
    <3>1. pc'[r] = "drop" /\ \A q \in Req \ {r} : Same(q)
      BY <2>3, Parts DEF Goto, Same, LocalTypes
    <3> QED BY <2>1, <2>3, <3>1, Busy, Uninvolved
  <2> QED BY <1>1, <2>2, <2>3 DEF List
<1>2. CASE Drop(r)
  <2>1. PICK d \in todo[r] :
          LET w == Write("drop", NULL, "client", d) IN
          \/ /\ dev' = [dev EXCEPT ![r] = d]
             /\ todo' = [todo EXCEPT ![r] = @ \ {d}]
             /\ Goto(r, "unmesh")
             /\ UNCHANGED <<op, on, want, lock>>
             /\ Done(w)
          \/ /\ IF op[r] = "remove_member"
                THEN /\ todo' = [todo EXCEPT ![r] = @ \ {d}]
                     /\ UNCHANGED <<pc, op, on, want, dev, lock>>
                ELSE Finish(r)
             /\ Failed(r, w)
    BY <1>2 DEF Drop
  <2> DEFINE w == Write("drop", NULL, "client", d)
  <2>2. (Done(w) \/ Failed(r, w)) /\ w.kind = "drop"
    BY <2>1 DEF Write
  <2>3. member' = member /\ NoLate(late')
    BY <2>2, StorageOutcome
  <2>4. UNCHANGED <<mode, seeds>> /\ pc[r] = "drop"
    BY <1>2 DEF Drop
  <2>5. CASE Finish(r)
    BY <2>3, <2>4, <2>5, Parts, FinishUninvolved
  <2>6. CASE /\ dev' = [dev EXCEPT ![r] = d]
             /\ todo' = [todo EXCEPT ![r] = @ \ {d}]
             /\ Goto(r, "unmesh")
             /\ UNCHANGED <<op, on, want, lock>>
    <3>1. pc'[r] = "unmesh" /\ \A q \in Req \ {r} : Same(q)
      BY <2>6, Parts DEF Goto, Same, LocalTypes
    <3> QED BY <2>3, <2>4, <2>6, <3>1, Busy, Uninvolved
  <2>7. CASE /\ todo' = [todo EXCEPT ![r] = @ \ {d}]
             /\ UNCHANGED <<pc, op, on, want, dev, lock>>
    <3>1. pc'[r] = "drop" /\ \A q \in Req \ {r} : Same(q)
      BY <2>4, <2>7, Parts DEF Same, LocalTypes
    <3> QED BY <2>3, <2>4, <2>7, <3>1, Busy, Uninvolved
  <2> QED BY <2>1, <2>5, <2>6, <2>7
<1>3. CASE Unmesh(r)
  <2>1. /\ UNCHANGED <<member, mode, seeds, late>> /\ mode = "serve"
        /\ \A q \in Req \ {r} : Same(q)
        /\ pc'[r] \notin {"check", "put", "revoke"} /\ (lock' = lock \/ lock = r)
    BY <1>3, Busy, Parts DEF Unmesh, rows, server, Goto, Same, LocalTypes
  <2> QED BY <2>1, Uninvolved DEF Admins, NoLate
<1>4. CASE Removed(r)
  BY <1>4, Parts, FinishUninvolved DEF Removed, rows, Admins, NoLate
<1> QED BY <1>1, <1>2, <1>3, <1>4

LEMMA RosterAdmins ==
    ASSUME IInv, Admins, NEW r \in Req, Enmesh(r) \/ Unlink(r) \/ Ping(r)
    PROVE  Admins'
<1>1. CASE Enmesh(r)
  <2>1. UNCHANGED <<member, mode, seeds, late>> /\ pc[r] = "enmesh" /\ NoLate(late')
    BY <1>1 DEF Enmesh, rows, Admins, NoLate
  <2>2. CASE Finish(r)
    BY <2>1, <2>2, Parts, FinishUninvolved
  <2>3. CASE Goto(r, "unlink") /\ UNCHANGED <<op, on, want, dev, todo, lock>>
    <3>1. pc'[r] = "unlink" /\ \A q \in Req \ {r} : Same(q)
      BY <2>3, Parts DEF Goto, Same, LocalTypes
    <3> QED BY <2>1, <2>3, <3>1, Busy, Uninvolved
  <2> QED BY <1>1, <2>2, <2>3 DEF Enmesh
<1>2. CASE Unlink(r)
  <2> DEFINE w == Write("drop", NULL, "client", dev[r])
  <2>1. (Done(w) \/ Failed(r, w)) /\ w.kind = "drop"
    BY <1>2 DEF Unlink, Write
  <2>2. member' = member /\ NoLate(late')
    BY <2>1, StorageOutcome
  <2> QED BY <1>2, <2>2, Parts, FinishUninvolved DEF Unlink
<1>3. CASE Ping(r)
  <2> DEFINE w == Write("ping", NULL, "client", dev[r])
  <2>1. (Done(w) \/ Failed(r, w)) /\ w.kind = "ping"
    BY <1>3 DEF Ping, Write
  <2>2. member' = member /\ NoLate(late')
    BY <2>1, StorageOutcome
  <2> QED BY <1>3, <2>2, Parts, FinishUninvolved DEF Ping
<1> QED BY <1>1, <1>2, <1>3

LEMMA ProcessAdmins ==
    ASSUME IInv, Admins, Start \/ Seed \/ Crash \/ ExecuteLate \/ \E d \in Device : Age(d)
    PROVE  Admins'
<1>1. CASE Start
  <2>1. UNCHANGED <<member, late, reqVars, lock>> /\ \A r \in Req : pc[r] = "idle"
    BY <1>1 DEF Start, rows, Admins
  <2>2. ActiveAdmins' = ActiveAdmins /\ Staffed'
    BY <2>1 DEF ActiveAdmins, Admin, Active, Admins, Staffed
  <2>3. /\ mode' = "serve" => ActiveAdmins' # {}
        /\ mode' = "seed" => seeds' # {}
    BY <1>1, <2>2, ControlAssumption DEF Start, Admins, Staffed
  <2> QED BY <2>1, <2>2, <2>3 DEF Admins, reqVars
<1>2. CASE Seed
  <2>1. PICK m \in seeds : PutMember(m, "admin")
    BY <1>2 DEF Seed
  <2>2. m \in Member
    BY Parts, ControlAssumption DEF OtherTypes
  <2>3. member'[m] = [role |-> "admin", active |-> TRUE]
    BY <2>1, <2>2, Parts DEF PutMember, RowTypes
  <2>4. [role |-> "admin", active |-> TRUE] \in MemberRow
    BY DEF MemberRow
  <2>5. ActiveAdmins' # {}
    BY <2>2, <2>3, <2>4, ControlAssumption, SMT DEF ActiveAdmins, Admin, Active
  <2>6. UNCHANGED <<late, reqVars, lock>> /\ \A r \in Req : pc[r] = "idle"
    BY <1>2 DEF Seed, Admins
  <2>7. mode' = "seed" => seeds' # {}
    BY <1>2 DEF Seed
  <2> QED BY <2>5, <2>6, <2>7 DEF Admins, reqVars, Staffed
<1>3. CASE Crash
  <2>1. UNCHANGED <<member, late>> /\ mode' = "start" /\ \A r \in Req : pc'[r] = "idle"
    BY <1>3 DEF Crash, rows, Forget
  <2>2. Staffed'
    BY <2>1 DEF ActiveAdmins, Admin, Active, Admins, Staffed
  <2> QED BY <2>1, <2>2 DEF Admins
<1>4. CASE ExecuteLate \/ \E d \in Device : Age(d)
  <2>1. member' = member /\ UNCHANGED <<reqVars, mode, seeds, lock>> /\ late' \subseteq late
    BY <1>4, StorageWrite DEF ExecuteLate, Age, server, Admins
  <2>2. ActiveAdmins' = ActiveAdmins /\ Staffed'
    BY <2>1 DEF ActiveAdmins, Admin, Active, Admins, Staffed
  <2> QED BY <2>1, <2>2 DEF Admins, reqVars
<1> QED BY <1>1, <1>2, <1>3, <1>4

LEMMA NextAdmins ==
    ASSUME IInv, Admins, "late_member" \notin Faults, [Next]_vars
    PROVE  Admins'
<1>1. ASSUME NEW r \in Req, Step(r) PROVE Admins'
  BY <1>1, LockAdmins, CheckAdmins, WriteStepAdmins, RemovalAdmins, RosterAdmins DEF Step
<1>2. CASE UNCHANGED vars
  <2>1. ActiveAdmins' = ActiveAdmins /\ Staffed'
    BY <1>2 DEF ActiveAdmins, Admin, Active, Admins, Staffed, vars, rows
  <2> QED BY <1>2, <2>1 DEF Admins, vars, reqVars, server
<1> QED BY <1>1, <1>2, BeginAdmins, ProcessAdmins DEF Next

\* While the service answers, an active administrator exists: for any number of
\* members and of concurrent requests, with crashes and failing calls anywhere,
\* as long as no write to a member is executed after its timeout.
THEOREM AlwaysSomeAdmin ==
    ASSUME "late_member" \notin Faults
    PROVE  Spec => []SomeAdmin
<1>1. Init => IInv /\ Admins
  BY InitIInv, SMT DEF Init, Admins, Staffed
<1>2. IInv /\ Admins /\ [Next]_vars => (IInv /\ Admins)'
  BY NextIInv, NextAdmins
<1>3. IInv /\ Admins => SomeAdmin
  BY DEF Admins, SomeAdmin
<1> QED BY <1>1, <1>2, <1>3, PTL DEF Spec

-----------------------------------------------------------------------------
(* The roster of the mesh, and what a revoked member keeps *)

\* Who holds the lock, and what stands still before it is taken.
Turn(r) ==
    /\ pc[r] \in {"check", "put", "revoke", "list", "create", "relink", "enmesh", "unlink"} => lock = r
    /\ op[r] = "remove_member" /\ pc[r] \in {"drop", "unmesh"} => lock = r
    /\ pc[r] \in {"lock", "check", "revoke"} => todo[r] = {}
    /\ pc[r] = "unlink" => dev[r] \in dirty
    /\ pc[r] = "idle" => op[r] = "none"

\* The history has every race of a link there is, and every overdue write that
\* would link or unlink.
RacesMarked == Racing \subseteq dirty
LateMarked == \A w \in late : w.kind \in {"create", "relink", "drop"} => w.dev \in dirty

Order == RacesMarked /\ LateMarked /\ \A r \in Req : Turn(r)

\* A row is LINKED when its link comes to the roster, and not LINKED when its
\* removal does.
Halfway(r) ==
    /\ pc[r] = "enmesh" /\ dev[r] \notin dirty => Linked(dev[r])
    /\ pc[r] = "unmesh" /\ dev[r] \notin dirty => ~Linked(dev[r])

\* Row and roster differ only while a request stands between the two.
Between(d) ==
    /\ Linked(d) /\ d \notin mesh => \E r \in Req : pc[r] = "enmesh" /\ dev[r] = d
    /\ ~Linked(d) /\ d \in mesh => \E r \in Req : pc[r] = "unmesh" /\ dev[r] = d

MeshInv ==
    /\ \A d \in Device \ dirty : Between(d)
    /\ \A r \in Req : Halfway(r)

\* A link under way is one of an active member, for a storage of their own.
LinkMeant(r) ==
    /\ pc[r] \in {"create", "relink"} => Active(on[r])
    /\ pc[r] = "relink" => storage[dev[r]].owner = on[r]

RevokedInv ==
    /\ RevokedOwnsNothing
    /\ NoLate(late)
    /\ \A r \in Req : LinkMeant(r)

\* What a step of request r leaves alone.
Frame(r) ==
    /\ \A q \in Req \ {r} : Same(q)
    /\ dirty \subseteq dirty'
    /\ lock' = lock \/ lock \in {r, NoReq}

LEMMA OrderKept ==
    ASSUME Order, NEW r \in Req, Frame(r), Turn(r)', RacesMarked', LateMarked'
    PROVE  Order'
<1>1. ASSUME NEW q \in Req \ {r} PROVE Turn(q)'
  BY ControlAssumption, SMT DEF Order, Frame, Same, Turn
<1> QED BY <1>1 DEF Order

\* Requests that only shed work start no race.
LEMMA RacesShrink ==
    ASSUME RacesMarked, dirty \subseteq dirty',
           \A q \in Req : /\ op'[q] \in {op[q], "none"}
                          /\ todo'[q] \subseteq todo[q]
                          /\ dev'[q] \in {dev[q], NULL}
    PROVE  RacesMarked'
<1>1. ASSUME NEW q \in Req, op'[q] \in {"link", "remove_storage", "reap"}
      PROVE  op'[q] = op[q] /\ Working(q)' \subseteq Working(q)
  BY <1>1, ControlAssumption DEF Working
<1>2. ASSUME NEW d \in Racing' PROVE d \in Racing
  <2>1. PICK q \in Req, s \in Req :
          /\ op'[q] = "link" /\ op'[s] \in {"remove_storage", "reap"}
          /\ d \in Working(q)' /\ d \in Working(s)'
    BY <1>2 DEF Racing
  <2>2. d \in Working(q) /\ d \in Working(s) /\ op[q] = "link" /\ op[s] \in {"remove_storage", "reap"}
    BY <1>1, <2>1
  <2>3. d \in Device
    BY <1>2 DEF Racing
  <2> QED BY <2>2, <2>3 DEF Racing
<1> QED BY <1>2 DEF RacesMarked

LEMMA Marks ==
    ASSUME NEW D, Mark(D)
    PROVE  dirty \subseteq dirty' /\ D \subseteq dirty' /\ RacesMarked'
BY DEF Mark, RacesMarked

\* A write that may still be executed is about a storage its request works on.
LEMMA WriteMarks ==
    ASSUME LateMarked, NEW r, NEW w, Done(w) \/ Failed(r, w),
           w.kind \in {"create", "relink", "drop"} => w.dev \in Working(r)
    PROVE  dirty \subseteq dirty' /\ RacesMarked' /\ LateMarked'
<1>1. CASE Done(w)
  BY <1>1, Marks DEF Done, LateMarked
<1>2. CASE Failed(r, w)
  <2>1. dirty \subseteq dirty' /\ Working(r) \subseteq dirty' /\ RacesMarked' /\ late' \subseteq late \cup {w}
    BY <1>2, Marks DEF Failed
  <2> QED BY <2>1 DEF LateMarked
<1> QED BY <1>1, <1>2

LEMMA FinishFrame ==
    ASSUME LocalTypes, NEW r \in Req, Finish(r), dirty \subseteq dirty'
    PROVE  /\ Frame(r) /\ Turn(r)'
           /\ pc'[r] = "idle" /\ op'[r] = "none" /\ dev'[r] = NULL /\ todo'[r] = {}
<1>1. /\ pc'[r] = "idle" /\ op'[r] = "none" /\ dev'[r] = NULL /\ todo'[r] = {}
      /\ lock' = lock \/ lock \in {r, NoReq}
  BY DEF Finish, Forget
<1>2. \A q \in Req \ {r} : Same(q)
  BY DEF Finish, Forget, Same
<1> QED BY <1>1, <1>2 DEF Frame, Turn

-----------------------------------------------------------------------------
(* Order is kept *)

\* What a request that arrives looks like.
LEMMA Arrives ==
    ASSUME IInv, NEW r \in Req, NEW o, NEW label, NEW m, NEW d, NEW D,
           Receive(r, o, label, m, d, D), \A q \in Req \ {r} : want'[q] = want[q], Mark({})
    PROVE  /\ Frame(r) /\ RacesMarked' /\ UNCHANGED <<rows, mesh, late, lock>>
           /\ pc[r] = "idle" /\ pc'[r] = label /\ op'[r] = o /\ on'[r] = m
           /\ dev'[r] = d /\ todo'[r] = D
<1>1. /\ pc[r] = "idle" /\ pc'[r] = label /\ op'[r] = o /\ on'[r] = m
      /\ dev'[r] = d /\ todo'[r] = D
      /\ \A q \in Req \ {r} : Same(q)
  BY Parts DEF Receive, Goto, Same, LocalTypes
<1>2. UNCHANGED <<rows, mesh, late, lock>>
  BY DEF Receive, server
<1>3. dirty \subseteq dirty' /\ RacesMarked'
  BY Marks
<1> QED BY <1>1, <1>2, <1>3 DEF Frame

\* All requests arrive in one of three ways: to wait for the lock, to remove
\* storages without it, or to ping.
Arrived(r) ==
    /\ Frame(r) /\ RacesMarked' /\ UNCHANGED <<rows, mesh, late, lock>>
    /\ pc[r] = "idle"
    /\ \/ pc'[r] = "lock" /\ todo'[r] = {}
       \/ pc'[r] = "drop" /\ op'[r] \in {"remove_storage", "reap"}
       \/ pc'[r] = "ping"

LEMMA BeginArrives ==
    ASSUME IInv, NEW r \in Req, Begin(r)
    PROVE  Arrived(r)
<1>1. ASSUME NEW m \in Member, NEW w \in {"client", "admin"}, BeginUpsert(r, m, w) PROVE Arrived(r)
  <2>1. /\ Receive(r, "upsert", "lock", m, NULL, {}) /\ Mark({})
        /\ \A q \in Req \ {r} : want'[q] = want[q]
    BY <1>1, Parts DEF BeginUpsert, LocalTypes
  <2> QED BY <2>1, Arrives, SMT DEF Arrived
<1>2. ASSUME NEW m \in Member, BeginRemoveMember(r, m) PROVE Arrived(r)
  <2>1. /\ Receive(r, "remove_member", "lock", m, NULL, {}) /\ Mark({})
        /\ \A q \in Req \ {r} : want'[q] = want[q]
    BY <1>2 DEF BeginRemoveMember
  <2> QED BY <2>1, Arrives, SMT DEF Arrived
<1>3. ASSUME NEW m \in Member, NEW d \in Device, BeginLink(r, m, d) PROVE Arrived(r)
  <2>1. /\ Receive(r, "link", "lock", m, d, {}) /\ Mark({})
        /\ \A q \in Req \ {r} : want'[q] = want[q]
    BY <1>3 DEF BeginLink
  <2> QED BY <2>1, Arrives, SMT DEF Arrived
<1>4. ASSUME NEW d \in Device, BeginRemoveStorage(r, d) PROVE Arrived(r)
  <2>1. /\ Receive(r, "remove_storage", "drop", NULL, NULL, {d}) /\ Mark({})
        /\ \A q \in Req \ {r} : want'[q] = want[q]
    BY <1>4 DEF BeginRemoveStorage
  <2> QED BY <2>1, Arrives DEF Arrived
<1>5. ASSUME NEW d \in Device, BeginPing(r, d) PROVE Arrived(r)
  <2>1. /\ Receive(r, "ping", "ping", NULL, d, {}) /\ Mark({})
        /\ \A q \in Req \ {r} : want'[q] = want[q]
    BY <1>5 DEF BeginPing
  <2> QED BY <2>1, Arrives DEF Arrived
<1>6. ASSUME BeginReap(r) PROVE Arrived(r)
  <2>1. /\ Receive(r, "reap", "drop", NULL, NULL, Pending) /\ Mark({})
        /\ \A q \in Req \ {r} : want'[q] = want[q]
    BY <1>6 DEF BeginReap
  <2> QED BY <2>1, Arrives DEF Arrived
<1> QED BY <1>1, <1>2, <1>3, <1>4, <1>5, <1>6 DEF Begin

LEMMA BeginOrder ==
    ASSUME IInv, Order, NEW r \in Req, Begin(r)
    PROVE  Order'
<1>1. Arrived(r)
  BY BeginArrives
<1>2. Turn(r)' /\ LateMarked' /\ Frame(r) /\ RacesMarked'
  BY <1>1 DEF Arrived, Turn, Order, LateMarked, Frame
<1> QED BY <1>2, OrderKept

LEMMA LockOrder ==
    ASSUME IInv, Order, NEW r \in Req, Lock(r)
    PROVE  Order' /\ Frame(r) /\ pc[r] = "lock" /\ pc'[r] = "check"
<1>1. /\ pc[r] = "lock" /\ pc'[r] = "check" /\ lock' = r /\ todo[r] = {}
      /\ UNCHANGED <<op, dev, todo, late, dirty>>
      /\ \A q \in Req \ {r} : Same(q)
  BY Parts DEF Lock, Goto, Same, LocalTypes, Order, Turn
<1>2. Frame(r)
  BY <1>1 DEF Frame, Lock
<1>3. RacesMarked'
  BY <1>1, RacesShrink DEF Order
<1>4. Turn(r)' /\ LateMarked'
  BY <1>1 DEF Turn, Order, LateMarked
<1> QED BY <1>1, <1>2, <1>3, <1>4, OrderKept

\* Check ends the request, or sends it to its first write.
Checked(r) ==
    /\ Frame(r) /\ UNCHANGED <<rows, mesh, late>> /\ pc[r] = "check" /\ todo[r] = {}
    /\ \/ pc'[r] = "idle"
       \/ /\ op'[r] = op[r] /\ on'[r] = on[r] /\ dev'[r] = dev[r] /\ todo'[r] = {} /\ lock' = r
          /\ \/ pc'[r] = "put" /\ op[r] = "upsert"
             \/ pc'[r] = "revoke" /\ op[r] = "remove_member"
             \/ /\ pc'[r] \in {"create", "relink"} /\ op[r] = "link" /\ Active(on[r])
                /\ pc'[r] = "relink" => storage[dev[r]].owner = on[r]

LEMMA CheckOrder ==
    ASSUME IInv, Order, NEW r \in Req, Check(r)
    PROVE  Order' /\ Checked(r)
<1>1. /\ pc[r] = "check" /\ UNCHANGED <<rows, mesh, late>> /\ todo[r] = {} /\ lock = r
      /\ dirty \subseteq dirty' /\ RacesMarked' /\ LateMarked'
  <2>1. pc[r] = "check" /\ UNCHANGED <<rows, mesh, late>> /\ Mark({})
    BY DEF Check
  <2> QED BY <2>1, Marks DEF Order, Turn, LateMarked
<1>2. CASE Finish(r)
  <2>1. Frame(r) /\ Turn(r)' /\ pc'[r] = "idle"
    BY <1>1, <1>2, Parts, FinishFrame
  <2>2. Order'
    BY <1>1, <2>1, OrderKept
  <2> QED BY <1>1, <2>1, <2>2 DEF Checked
<1>3. CASE /\ Permitted(r)
           /\ Goto(r, CASE op[r] = "upsert" -> "put"
                        [] op[r] = "remove_member" -> "revoke"
                        [] op[r] = "link" ->
                             IF storage[dev[r]] = NULL THEN "create" ELSE "relink")
           /\ UNCHANGED <<op, on, want, dev, todo, lock>>
  <2>1. \A q \in Req \ {r} : Same(q)
    BY <1>3, Parts DEF Goto, Same, LocalTypes
  <2>2. Frame(r)
    BY <1>1, <1>3, <2>1 DEF Frame
  <2>3. op[r] \in {"upsert", "remove_member", "link"}
    BY <1>1, Parts DEF Sound
  <2>4. \/ pc'[r] = "put" /\ op[r] = "upsert"
        \/ pc'[r] = "revoke" /\ op[r] = "remove_member"
        \/ /\ pc'[r] \in {"create", "relink"} /\ op[r] = "link" /\ Active(on[r])
           /\ pc'[r] = "relink" => storage[dev[r]].owner = on[r]
    <3>1. CASE op[r] = "upsert"
      BY <1>3, <3>1, Parts DEF Goto, LocalTypes
    <3>2. CASE op[r] = "remove_member"
      BY <1>3, <3>2, Parts DEF Goto, LocalTypes
    <3>3. CASE op[r] = "link"
      <4>1. Active(on[r]) /\ (storage[dev[r]] # NULL => storage[dev[r]].owner = on[r])
        BY <1>3, <3>3 DEF Permitted
      <4>2. pc'[r] = IF storage[dev[r]] = NULL THEN "create" ELSE "relink"
        BY <1>3, <3>3, Parts DEF Goto, LocalTypes
      <4> QED BY <3>3, <4>1, <4>2
    <3> QED BY <2>3, <3>1, <3>2, <3>3
  <2>5. Checked(r)
    BY <1>1, <1>3, <2>2, <2>4 DEF Checked
  <2>6. Turn(r)'
    BY <1>1, <1>3, <2>4 DEF Turn
  <2> QED BY <1>1, <2>2, <2>5, <2>6, OrderKept
<1> QED BY <1>2, <1>3 DEF Check

\* The write of a request under the lock ends it, or sends it on to the roster
\* or to the storages of the member.
ItsWrite(r) == Write(pc[r], on[r], want[r], dev[r])

Wrote(r) ==
    /\ Frame(r) /\ mesh' = mesh /\ lock = r
    /\ pc[r] \in {"put", "revoke", "create", "relink"}
    /\ \/ pc'[r] = "idle" /\ pc[r] = "put" /\ Execute(ItsWrite(r)) /\ late' = late
       \/ pc'[r] = "idle" /\ UNCHANGED <<rows, late>>
       \/ pc'[r] = "idle" /\ Failed(r, ItsWrite(r))
       \/ /\ Execute(ItsWrite(r)) /\ ~Refused(ItsWrite(r)) /\ late' = late /\ lock' = r
          /\ op'[r] = op[r] /\ on'[r] = on[r] /\ dev'[r] = dev[r] /\ todo'[r] = todo[r]
          /\ \/ pc[r] \in {"create", "relink"} /\ pc'[r] = "enmesh" /\ op[r] = "link"
             \/ pc[r] = "revoke" /\ pc'[r] = "list" /\ op[r] = "remove_member"

LEMMA WriteStepOrder ==
    ASSUME IInv, Order, NEW r \in Req, WriteStep(r)
    PROVE  Order' /\ Wrote(r)
<1> DEFINE w == ItsWrite(r)
<1>1. /\ pc[r] \in {"put", "revoke", "create", "relink"} /\ lock = r /\ mesh' = mesh
      /\ w.kind = pc[r] /\ w.dev = dev[r]
  BY DEF WriteStep, Order, Turn, ItsWrite, Write
<1>2. w.kind \in {"create", "relink", "drop"} => w.dev \in Working(r)
  BY <1>1, Parts DEF Sound, Working
<1>3. CASE Finish(r) /\ Done(w) /\ op[r] = "upsert"
  <2>1. dirty \subseteq dirty' /\ RacesMarked' /\ LateMarked'
    BY <1>2, <1>3, WriteMarks DEF Order
  <2>2. Frame(r) /\ Turn(r)' /\ pc'[r] = "idle"
    BY <1>3, <2>1, Parts, FinishFrame
  <2>3. pc[r] = "put"
    BY <1>1, <1>3, Parts DEF Sound
  <2> QED BY <1>1, <1>3, <2>1, <2>2, <2>3, OrderKept DEF Wrote, Done
<1>4. CASE Finish(r) /\ UNCHANGED <<rows, late>> /\ Mark({})
  <2>1. dirty \subseteq dirty' /\ RacesMarked' /\ LateMarked'
    BY <1>4, Marks DEF Order, LateMarked
  <2>2. Frame(r) /\ Turn(r)' /\ pc'[r] = "idle"
    BY <1>4, <2>1, Parts, FinishFrame
  <2> QED BY <1>1, <1>4, <2>1, <2>2, OrderKept DEF Wrote
<1>5. CASE Finish(r) /\ Failed(r, w)
  <2>1. dirty \subseteq dirty' /\ RacesMarked' /\ LateMarked'
    BY <1>2, <1>5, WriteMarks DEF Order
  <2>2. Frame(r) /\ Turn(r)' /\ pc'[r] = "idle"
    BY <1>5, <2>1, Parts, FinishFrame
  <2> QED BY <1>1, <1>5, <2>1, <2>2, OrderKept DEF Wrote
<1>6. CASE /\ op[r] # "upsert" /\ ~Refused(w) /\ Done(w)
           /\ Goto(r, IF op[r] = "link" THEN "enmesh" ELSE "list")
           /\ UNCHANGED <<op, on, want, dev, todo, lock>>
  <2>1. dirty \subseteq dirty' /\ RacesMarked' /\ LateMarked'
    BY <1>2, <1>6, WriteMarks DEF Order
  <2>2. pc'[r] = (IF op[r] = "link" THEN "enmesh" ELSE "list") /\ \A q \in Req \ {r} : Same(q)
    BY <1>6, Parts DEF Goto, Same, LocalTypes
  <2>3. \/ pc[r] \in {"create", "relink"} /\ pc'[r] = "enmesh" /\ op[r] = "link"
        \/ pc[r] = "revoke" /\ pc'[r] = "list" /\ op[r] = "remove_member"
    BY <1>1, <1>6, <2>2, Parts DEF Sound
  <2>4. Frame(r)
    BY <1>6, <2>1, <2>2 DEF Frame
  <2>5. Turn(r)'
    BY <1>1, <1>6, <2>3 DEF Turn
  <2>6. Wrote(r)
    BY <1>1, <1>6, <2>3, <2>4 DEF Wrote, Done
  <2> QED BY <2>1, <2>4, <2>5, <2>6, OrderKept
<1> QED BY <1>3, <1>4, <1>5, <1>6 DEF WriteStep, ItsWrite

Listed(r) ==
    /\ Frame(r) /\ UNCHANGED <<rows, mesh, late>> /\ pc[r] = "list" /\ lock = r
    /\ \/ pc'[r] = "idle" /\ Working(r) \subseteq dirty'
       \/ /\ pc'[r] = "drop" /\ op'[r] = op[r] /\ on'[r] = on[r] /\ lock' = r
          /\ todo'[r] = LinkedBy(on[r])

LEMMA ListOrder ==
    ASSUME IInv, Order, NEW r \in Req, List(r)
    PROVE  Order' /\ Listed(r)
<1>1. /\ pc[r] = "list" /\ UNCHANGED <<rows, mesh, late>> /\ lock = r
  BY DEF List, Order, Turn
<1>2. dirty \subseteq dirty' /\ RacesMarked' /\ LateMarked'
  <2>1. Mark({}) \/ Mark(Working(r))
    BY DEF List
  <2>2. dirty \subseteq dirty' /\ RacesMarked'
    BY <2>1, Marks
  <2> QED BY <1>1, <2>2 DEF Order, LateMarked
<1>3. CASE Finish(r) /\ Mark(Working(r))
  <2>1. Frame(r) /\ Turn(r)' /\ pc'[r] = "idle" /\ Working(r) \subseteq dirty'
    BY <1>2, <1>3, Parts, FinishFrame, Marks
  <2> QED BY <1>1, <1>2, <2>1, OrderKept DEF Listed
<1>4. CASE /\ todo' = [todo EXCEPT ![r] = LinkedBy(on[r])]
           /\ Goto(r, "drop")
           /\ UNCHANGED <<op, on, want, dev, lock>>
  <2>1. /\ pc'[r] = "drop" /\ todo'[r] = LinkedBy(on[r])
        /\ \A q \in Req \ {r} : Same(q)
    BY <1>4, Parts DEF Goto, Same, LocalTypes
  <2>2. Frame(r) /\ Turn(r)'
    BY <1>1, <1>2, <1>4, <2>1 DEF Frame, Turn
  <2> QED BY <1>1, <1>2, <1>4, <2>1, <2>2, OrderKept DEF Listed
<1> QED BY <1>3, <1>4 DEF List

\* The removal of one storage: done, or given up.
DropOf(d) == Write("drop", NULL, "client", d)

Dropped(r, d) ==
    /\ Frame(r) /\ mesh' = mesh /\ pc[r] = "drop" /\ d \in todo[r] /\ d \in Device /\ storage[d] # NULL
    /\ \/ /\ pc'[r] = "unmesh" /\ dev'[r] = d /\ todo'[r] = todo[r] \ {d}
          /\ op'[r] = op[r] /\ on'[r] = on[r] /\ lock' = lock
          /\ Execute(DropOf(d)) /\ late' = late
       \/ /\ pc'[r] = "drop" /\ todo'[r] = todo[r] \ {d}
          /\ op'[r] = op[r] /\ on'[r] = on[r] /\ lock' = lock
          /\ Failed(r, DropOf(d))
       \/ pc'[r] = "idle" /\ op[r] # "remove_member" /\ Failed(r, DropOf(d))

LEMMA DropOrder ==
    ASSUME IInv, Order, NEW r \in Req, Drop(r)
    PROVE  Order' /\ \E d \in Device : Dropped(r, d)
<1>1. PICK d \in todo[r] :
         \/ /\ dev' = [dev EXCEPT ![r] = d]
            /\ todo' = [todo EXCEPT ![r] = @ \ {d}]
            /\ Goto(r, "unmesh")
            /\ UNCHANGED <<op, on, want, lock>>
            /\ Done(DropOf(d))
         \/ /\ IF op[r] = "remove_member"
               THEN /\ todo' = [todo EXCEPT ![r] = @ \ {d}]
                    /\ UNCHANGED <<pc, op, on, want, dev, lock>>
               ELSE Finish(r)
            /\ Failed(r, DropOf(d))
  BY DEF Drop, DropOf
<1>2. /\ pc[r] = "drop" /\ mesh' = mesh /\ d \in Device /\ storage[d] # NULL
      /\ DropOf(d).kind = "drop" /\ DropOf(d).dev = d /\ d \in Working(r)
  BY Parts DEF Drop, LocalTypes, Sound, DropOf, Write, Working
<1>3. dirty \subseteq dirty' /\ RacesMarked' /\ LateMarked'
  BY <1>1, <1>2, WriteMarks DEF Order
<1>4. CASE /\ dev' = [dev EXCEPT ![r] = d]
           /\ todo' = [todo EXCEPT ![r] = @ \ {d}]
           /\ Goto(r, "unmesh")
           /\ UNCHANGED <<op, on, want, lock>>
           /\ Done(DropOf(d))
  <2>1. /\ pc'[r] = "unmesh" /\ dev'[r] = d /\ todo'[r] = todo[r] \ {d}
        /\ \A q \in Req \ {r} : Same(q)
    BY <1>4, Parts DEF Goto, Same, LocalTypes
  <2>2. Frame(r) /\ Turn(r)'
    BY <1>2, <1>3, <1>4, <2>1 DEF Frame, Turn, Order
  <2>3. Dropped(r, d)
    BY <1>2, <1>4, <2>1, <2>2 DEF Dropped, Done
  <2> QED BY <1>2, <1>3, <2>2, <2>3, OrderKept
<1>5. CASE /\ todo' = [todo EXCEPT ![r] = @ \ {d}]
           /\ UNCHANGED <<pc, op, on, want, dev, lock>>
           /\ Failed(r, DropOf(d))
  <2>1. /\ pc'[r] = "drop" /\ todo'[r] = todo[r] \ {d}
        /\ \A q \in Req \ {r} : Same(q)
    BY <1>2, <1>5, Parts DEF Same, LocalTypes
  <2>2. Frame(r) /\ Turn(r)'
    BY <1>2, <1>3, <1>5, <2>1 DEF Frame, Turn, Order
  <2>3. Dropped(r, d)
    BY <1>2, <1>5, <2>1, <2>2 DEF Dropped
  <2> QED BY <1>2, <1>3, <2>2, <2>3, OrderKept
<1>6. CASE Finish(r) /\ op[r] # "remove_member" /\ Failed(r, DropOf(d))
  <2>1. Frame(r) /\ Turn(r)' /\ pc'[r] = "idle"
    BY <1>3, <1>6, Parts, FinishFrame
  <2>2. Dropped(r, d)
    BY <1>2, <1>6, <2>1 DEF Dropped
  <2> QED BY <1>2, <1>3, <2>1, <2>2, OrderKept
<1> QED BY <1>1, <1>4, <1>5, <1>6

Unmeshed(r) ==
    /\ Frame(r) /\ UNCHANGED <<rows, late, lock>> /\ pc[r] = "unmesh" /\ pc'[r] = "drop"
    /\ op'[r] = op[r] /\ on'[r] = on[r] /\ todo'[r] = todo[r] /\ dev'[r] = NULL
    /\ \/ mesh' = mesh \ {dev[r]}
       \/ mesh' = mesh /\ dev[r] \in dirty'

LEMMA UnmeshOrder ==
    ASSUME IInv, Order, NEW r \in Req, Unmesh(r)
    PROVE  Order' /\ Unmeshed(r)
<1>1. /\ UNCHANGED <<rows, late, lock>> /\ pc[r] = "unmesh"
      /\ mesh' = mesh \ {dev[r]} \/ (mesh' = mesh /\ dev[r] \in dirty')
      /\ dirty \subseteq dirty'
  BY DEF Unmesh, server
<1>2. /\ pc'[r] = "drop" /\ dev'[r] = NULL
      /\ op' = op /\ on' = on /\ todo' = todo
      /\ \A q \in Req \ {r} : Same(q)
  BY Parts DEF Unmesh, Goto, Same, LocalTypes
<1>3. \A q \in Req : dev'[q] \in {dev[q], NULL}
  BY <1>2 DEF Same
<1>4. RacesMarked'
  BY <1>1, <1>2, <1>3, RacesShrink DEF Order
<1>5. Frame(r) /\ Turn(r)' /\ LateMarked'
  BY <1>1, <1>2 DEF Frame, Turn, Order, LateMarked
<1> QED BY <1>1, <1>2, <1>4, <1>5, OrderKept DEF Unmeshed

LEMMA RemovedOrder ==
    ASSUME IInv, Order, NEW r \in Req, Removed(r)
    PROVE  Order' /\ Frame(r) /\ pc'[r] = "idle"
<1>1. UNCHANGED <<late, dirty>> /\ Finish(r)
  BY DEF Removed
<1>2. /\ Frame(r) /\ Turn(r)' /\ pc'[r] = "idle" /\ op'[r] = "none"
      /\ dev'[r] = NULL /\ todo'[r] = {}
  BY <1>1, Parts, FinishFrame
<1>3. \A q \in Req : /\ op'[q] \in {op[q], "none"} /\ todo'[q] \subseteq todo[q]
                     /\ dev'[q] \in {dev[q], NULL}
  BY <1>2 DEF Frame, Same
<1>4. RacesMarked'
  BY <1>1, <1>3, RacesShrink DEF Order
<1> QED BY <1>1, <1>2, <1>4, OrderKept DEF Order, LateMarked

Enmeshed(r) ==
    /\ Frame(r) /\ UNCHANGED <<rows, late>> /\ pc[r] = "enmesh" /\ op[r] = "link"
    /\ \/ pc'[r] = "idle" /\ mesh' = mesh \cup {dev[r]}
       \/ /\ pc'[r] = "unlink" /\ mesh' \in {mesh, mesh \cup {dev[r]}}
          /\ dev[r] \in dirty'

LEMMA EnmeshOrder ==
    ASSUME IInv, Order, NEW r \in Req, Enmesh(r)
    PROVE  Order' /\ Enmeshed(r)
<1>1. /\ UNCHANGED <<rows, late>> /\ pc[r] = "enmesh" /\ op[r] = "link" /\ lock = r
  BY Parts DEF Enmesh, Sound, Order, Turn
<1>2. dirty \subseteq dirty' /\ RacesMarked' /\ LateMarked'
  <2>1. Mark({}) \/ Mark({dev[r]})
    BY DEF Enmesh
  <2>2. dirty \subseteq dirty' /\ RacesMarked'
    BY <2>1, Marks
  <2> QED BY <1>1, <2>2 DEF Order, LateMarked
<1>3. CASE mesh' = mesh \cup {dev[r]} /\ Finish(r)
  <2>1. Frame(r) /\ Turn(r)' /\ pc'[r] = "idle"
    BY <1>2, <1>3, Parts, FinishFrame
  <2> QED BY <1>1, <1>2, <1>3, <2>1, OrderKept DEF Enmeshed
<1>4. CASE /\ mesh' \in {mesh, mesh \cup {dev[r]}}
           /\ Goto(r, "unlink")
           /\ UNCHANGED <<op, on, want, dev, todo, lock>>
           /\ Mark({dev[r]})
  <2>1. /\ pc'[r] = "unlink" /\ dev[r] \in dirty'
        /\ \A q \in Req \ {r} : Same(q)
    BY <1>4, Parts, Marks DEF Goto, Same, LocalTypes
  <2>2. Frame(r) /\ Turn(r)'
    BY <1>1, <1>2, <1>4, <2>1 DEF Frame, Turn
  <2> QED BY <1>1, <1>2, <1>4, <2>1, <2>2, OrderKept DEF Enmeshed
<1> QED BY <1>3, <1>4 DEF Enmesh

\* The last write of a request that is not under way to the roster.
Ended(r, w) ==
    /\ Frame(r) /\ mesh' = mesh /\ pc'[r] = "idle" /\ pc[r] \in {"unlink", "ping"}
    /\ op[r] # "remove_member"
    /\ w \in LateWrite /\ Executable(w) /\ w.kind \in {"drop", "ping"}
    /\ w.kind = "drop" => w.dev \in dirty
    /\ Done(w) \/ Failed(r, w)

LEMMA UnlinkOrder ==
    ASSUME IInv, Order, NEW r \in Req, Unlink(r)
    PROVE  Order' /\ \E w \in LateWrite : Ended(r, w)
<1> DEFINE w == Write("drop", NULL, "client", dev[r])
<1>1. /\ pc[r] = "unlink" /\ op[r] = "link" /\ mesh' = mesh /\ Finish(r)
      /\ dev[r] \in Device /\ storage[dev[r]] # NULL /\ dev[r] \in dirty
      /\ Done(w) \/ Failed(r, w)
  BY Parts DEF Unlink, Sound, Order, Turn
<1>2. w \in LateWrite /\ Executable(w) /\ w.kind = "drop" /\ w.dev = dev[r]
  BY <1>1, DropWrite DEF Write
<1>3. dirty \subseteq dirty' /\ RacesMarked' /\ LateMarked'
  <2>1. w.dev \in Working(r)
    BY <1>1, <1>2 DEF Working
  <2> QED BY <1>1, <2>1, WriteMarks DEF Order
<1>4. Frame(r) /\ Turn(r)' /\ pc'[r] = "idle"
  BY <1>1, <1>3, Parts, FinishFrame
<1>5. Ended(r, w)
  BY <1>1, <1>2, <1>4 DEF Ended
<1> QED BY <1>2, <1>3, <1>4, <1>5, OrderKept

LEMMA PingOrder ==
    ASSUME IInv, Order, NEW r \in Req, Ping(r)
    PROVE  Order' /\ \E w \in LateWrite : Ended(r, w)
<1> DEFINE w == Write("ping", NULL, "client", dev[r])
<1>1. /\ pc[r] = "ping" /\ op[r] = "ping" /\ mesh' = mesh /\ Finish(r)
      /\ dev[r] \in Device /\ storage[dev[r]] # NULL
      /\ Done(w) \/ Failed(r, w)
  BY Parts DEF Ping, Sound
<1>2. w \in LateWrite /\ Executable(w) /\ w.kind = "ping"
  BY <1>1, DropWrite DEF Write
<1>3. dirty \subseteq dirty' /\ RacesMarked' /\ LateMarked'
  BY <1>1, <1>2, WriteMarks DEF Order
<1>4. Frame(r) /\ Turn(r)' /\ pc'[r] = "idle"
  BY <1>1, <1>3, Parts, FinishFrame
<1>5. Ended(r, w)
  BY <1>1, <1>2, <1>4 DEF Ended
<1> QED BY <1>2, <1>3, <1>4, <1>5, OrderKept

LEMMA StillOrder ==
    ASSUME Order, UNCHANGED <<reqVars, lock, dirty>>, late' \subseteq late
    PROVE  Order'
<1>1. UNCHANGED <<pc, op, dev, todo, lock, dirty>>
  BY DEF reqVars
<1>2. RacesMarked'
  BY <1>1, RacesShrink DEF Order
<1>3. \A r \in Req : Turn(r)'
  BY <1>1 DEF Order, Turn
<1>4. LateMarked'
  BY <1>1 DEF Order, LateMarked
<1> QED BY <1>2, <1>3, <1>4 DEF Order

LEMMA CrashOrder ==
    ASSUME Order, Crash
    PROVE  Order' /\ dirty \subseteq dirty' /\ \A r \in Req : pc'[r] = "idle" /\ Working(r) \subseteq dirty'
<1>1. /\ dirty \subseteq dirty' /\ late' = late
      /\ \A r \in Req : /\ pc'[r] = "idle" /\ op'[r] = "none" /\ dev'[r] = NULL /\ todo'[r] = {}
                        /\ Working(r) \subseteq dirty'
  BY DEF Crash, Forget
<1>2. RacesMarked'
  BY <1>1, RacesShrink DEF Order
<1>3. (\A r \in Req : Turn(r)') /\ LateMarked'
  BY <1>1 DEF Turn, Order, LateMarked
<1> QED BY <1>1, <1>2, <1>3 DEF Order

LEMMA NextOrder ==
    ASSUME IInv, Order, [Next]_vars
    PROVE  Order'
<1>1. ASSUME NEW r \in Req, Step(r) PROVE Order'
  BY <1>1, LockOrder, CheckOrder, WriteStepOrder, ListOrder, DropOrder, UnmeshOrder,
     RemovedOrder, EnmeshOrder, UnlinkOrder, PingOrder DEF Step
<1>2. CASE Start \/ Seed \/ ExecuteLate \/ (\E d \in Device : Age(d)) \/ UNCHANGED vars
  <2>1. UNCHANGED <<reqVars, lock, dirty>> /\ late' \subseteq late
    BY <1>2 DEF Start, Seed, ExecuteLate, Age, vars, server
  <2> QED BY <2>1, StillOrder
<1> QED BY <1>1, <1>2, CrashOrder, BeginOrder DEF Next

LEMMA InitOrder == Init => Order
<1>1. ASSUME Init PROVE Order
  <2>1. Racing = {}
    BY <1>1 DEF Init, Racing
  <2> QED BY <1>1, <2>1 DEF Init, Order, RacesMarked, LateMarked, Turn
<1> QED BY <1>1

-----------------------------------------------------------------------------
(* Row and roster *)

\* A write leaves the lifecycle of every other storage alone.
LEMMA LinksElsewhere ==
    ASSUME RowTypes, NEW d \in Device, NEW row \in StorageRow, storage[d] \in StorageRow \cup {NULL},
           storage' = [storage EXCEPT ![d] = row]
    PROVE  /\ \A e \in Device \ {d} : Linked(e)' <=> Linked(e)
           /\ storage'[d] = row /\ (Linked(d)' <=> row.linked)
<1>1. storage'[d] = row /\ \A e \in Device \ {d} : storage'[e] = storage[e]
  BY DEF RowTypes
<1>2. row # NULL
  BY ControlAssumption
<1> QED BY <1>1, <1>2 DEF Linked

LEMMA ExecuteLinks ==
    ASSUME RowTypes, NEW w \in LateWrite, Executable(w), Execute(w)
    PROVE  /\ \A d \in Device : (w.kind \in {"create", "relink", "drop"} => d # w.dev)
                  => (Linked(d)' <=> Linked(d))
           /\ w.kind = "drop" => ~Linked(w.dev)'
           /\ w.kind \in {"create", "relink"} /\ ~Refused(w) => Linked(w.dev)'
           /\ w.kind = "create" /\ ~Refused(w) => storage'[w.dev].owner = w.who
<1>1. CASE w.kind \in {"put", "revoke"}
  <2>1. storage' = storage
    BY <1>1 DEF Execute, PutMember, RevokeMember
  <2> QED BY <1>1, <2>1 DEF Linked
<1>2. CASE w.kind = "create"
  <2> DEFINE s == storage[w.dev]
  <2>1. w.who \in Member /\ w.dev \in Device /\ s \in StorageRow \cup {NULL}
    BY <1>2 DEF Executable, RowTypes
  <2>2. storage' = [storage EXCEPT ![w.dev] =
                      CASE s = NULL -> NewStorage(w.who)
                        [] s # NULL /\ s.owner = w.who -> [s EXCEPT !.linked = TRUE]
                        [] OTHER -> s]
    BY <1>2 DEF Execute, CreateStorage
  <2>3. CASE s = NULL
    <3>1. /\ NewStorage(w.who) \in StorageRow /\ NewStorage(w.who).linked = TRUE
          /\ NewStorage(w.who).owner = w.who
      BY <2>1 DEF NewStorage, StorageRow
    <3>2. storage' = [storage EXCEPT ![w.dev] = NewStorage(w.who)]
      BY <2>2, <2>3
    <3> HIDE DEF s
    <3>3. /\ \A e \in Device \ {w.dev} : Linked(e)' <=> Linked(e)
          /\ storage'[w.dev] = NewStorage(w.who) /\ Linked(w.dev)'
      BY <2>1, <3>1, <3>2, LinksElsewhere DEF s
    <3> QED BY <1>2, <3>1, <3>3
  <2>4. CASE s # NULL /\ s.owner = w.who
    <3> DEFINE row == [s EXCEPT !.linked = TRUE]
    <3>1. row \in StorageRow /\ row.linked = TRUE /\ row.owner = w.who
      BY <2>1, <2>4 DEF StorageRow
    <3>2. storage' = [storage EXCEPT ![w.dev] = row]
      BY <2>2, <2>4
    <3> HIDE DEF row
    <3>3. /\ \A e \in Device \ {w.dev} : Linked(e)' <=> Linked(e)
          /\ storage'[w.dev] = row /\ Linked(w.dev)'
      BY <2>1, <3>1, <3>2, LinksElsewhere
    <3> QED BY <1>2, <3>1, <3>3
  <2>5. CASE s # NULL /\ s.owner # w.who
    <3>1. storage' = storage /\ Refused(w)
      BY <1>2, <2>1, <2>2, <2>5 DEF RowTypes, Refused
    <3> QED BY <1>2, <3>1 DEF Linked
  <2> QED BY <2>3, <2>4, <2>5
<1>3. CASE w.kind = "relink"
  <2> DEFINE row == NewStorage(storage[w.dev].owner)
  <2>1. w.dev \in Device /\ storage[w.dev] \in StorageRow
    BY <1>3 DEF Executable, RowTypes
  <2>2. row \in StorageRow /\ row.linked = TRUE
    BY <2>1 DEF StorageRow, NewStorage
  <2>3. storage' = [storage EXCEPT ![w.dev] = row]
    BY <1>3 DEF Execute, RelinkStorage
  <2> HIDE DEF row
  <2>4. (\A e \in Device \ {w.dev} : Linked(e)' <=> Linked(e)) /\ Linked(w.dev)'
    BY <2>1, <2>2, <2>3, LinksElsewhere
  <2> QED BY <1>3, <2>4
<1>4. CASE w.kind = "ping"
  <2> DEFINE row == [storage[w.dev] EXCEPT !.pinged = TRUE]
  <2>1. w.dev \in Device /\ storage[w.dev] \in StorageRow
    BY <1>4 DEF Executable, RowTypes
  <2>2. row \in StorageRow /\ row.linked = storage[w.dev].linked
    BY <2>1 DEF StorageRow
  <2>3. storage' = [storage EXCEPT ![w.dev] = row]
    BY <1>4 DEF Execute, PingStorage
  <2>4. Linked(w.dev) <=> storage[w.dev].linked
    BY <2>1, ControlAssumption DEF Linked
  <2> HIDE DEF row
  <2>5. (\A e \in Device \ {w.dev} : Linked(e)' <=> Linked(e)) /\ (Linked(w.dev)' <=> row.linked)
    BY <2>1, <2>2, <2>3, LinksElsewhere
  <2>6. Linked(w.dev)' <=> Linked(w.dev)
    BY <2>2, <2>4, <2>5
  <2> QED BY <1>4, <2>5, <2>6
<1>5. CASE w.kind = "drop"
  <2> DEFINE row == [storage[w.dev] EXCEPT !.linked = FALSE]
  <2>1. w.dev \in Device /\ storage[w.dev] \in StorageRow
    BY <1>5 DEF Executable, RowTypes
  <2>2. row \in StorageRow /\ row.linked = FALSE
    BY <2>1 DEF StorageRow
  <2>3. storage' = [storage EXCEPT ![w.dev] = row]
    BY <1>5 DEF Execute, RemoveStorage
  <2> HIDE DEF row
  <2>4. (\A e \in Device \ {w.dev} : Linked(e)' <=> Linked(e)) /\ ~Linked(w.dev)'
    BY <2>1, <2>2, <2>3, LinksElsewhere
  <2> QED BY <1>5, <2>4
<1> QED BY <1>1, <1>2, <1>3, <1>4, <1>5 DEF LateWrite

\* The storages outside the history keep their lifecycle.
Quiet == \A d \in Device \ dirty' : Linked(d)' <=> Linked(d)

LEMMA WriteQuiet ==
    ASSUME RowTypes, NEW r, NEW w \in LateWrite, Executable(w), Done(w) \/ Failed(r, w),
           w.kind \in {"create", "relink", "drop"} =>
               w.dev \in dirty \/ (Failed(r, w) /\ w.dev \in Working(r))
    PROVE  Quiet
<1>1. w.kind \in {"create", "relink", "drop"} => w.dev \in dirty'
  BY Marks DEF Done, Failed
<1>2. Execute(w) \/ storage' = storage
  BY DEF Done, Failed, rows
<1>3. CASE Execute(w)
  BY <1>1, <1>3, ExecuteLinks DEF Quiet
<1>4. CASE storage' = storage
  BY <1>4 DEF Quiet, Linked
<1> QED BY <1>2, <1>3, <1>4

LEMMA UnwrittenQuiet ==
    ASSUME storage' = storage
    PROVE  Quiet
BY DEF Quiet, Linked

\* A step that is none of the four between row and roster, or that failed.
LEMMA RosterKept ==
    ASSUME IInv, MeshInv, NEW r \in Req, Frame(r), Quiet,
           \A d \in Device \ dirty' : d \in mesh' <=> d \in mesh,
           pc'[r] \notin {"enmesh", "unmesh"},
           pc[r] \in {"enmesh", "unmesh"} => dev[r] \in dirty'
    PROVE  MeshInv'
<1>1. ASSUME NEW q \in Req PROVE Halfway(q)'
  <2>1. CASE q = r
    BY <2>1 DEF Halfway
  <2>2. CASE q # r /\ pc[q] \in {"enmesh", "unmesh"} /\ dev[q] \notin dirty'
    <3>1. PICK d \in Device : d = dev[q] /\ d = dev'[q] /\ d \notin dirty /\ d \notin dirty'
      BY <2>2, Parts DEF Frame, Same, Sound
    <3>2. Linked(d)' <=> Linked(d)
      BY <3>1 DEF Quiet
    <3>3. pc'[q] = pc[q] /\ Halfway(q)
      BY <2>2 DEF Frame, Same, MeshInv
    <3> QED BY <3>1, <3>2, <3>3 DEF Halfway
  <2>3. CASE q # r /\ ~(pc[q] \in {"enmesh", "unmesh"} /\ dev[q] \notin dirty')
    BY <2>3 DEF Frame, Same, Halfway
  <2> QED BY <2>1, <2>2, <2>3
<1>2. ASSUME NEW d \in Device \ dirty' PROVE Between(d)'
  <2>1. Between(d) /\ (Linked(d)' <=> Linked(d)) /\ (d \in mesh' <=> d \in mesh)
    BY DEF Frame, MeshInv, Quiet
  <2>2. ASSUME NEW q \in Req, pc[q] \in {"enmesh", "unmesh"}, dev[q] = d
        PROVE  pc'[q] = pc[q] /\ dev'[q] = d
    BY <2>2 DEF Frame, Same
  <2> QED BY <2>1, <2>2 DEF Between
<1> QED BY <1>1, <1>2 DEF MeshInv

\* A row is written to be LINKED: its request goes to the roster next, and no
\* removal of the storage is between its row and the roster.
LEMMA LinkMesh ==
    ASSUME IInv, Order, MeshInv, NEW r \in Req, Frame(r), NEW d \in Device, d = dev[r],
           lock = r, op[r] = "link", pc[r] \in {"create", "relink"},
           pc'[r] = "enmesh", dev'[r] = d, mesh' = mesh, Linked(d)',
           \A e \in Device \ {d} : Linked(e)' <=> Linked(e)
    PROVE  MeshInv'
<1>1. ASSUME NEW q \in Req \ {r}, pc[q] = "unmesh", dev[q] = d PROVE d \in dirty
  <2>1. op[q] \in {"remove_storage", "reap"}
    BY <1>1, Parts DEF Order, Turn, Sound
  <2>2. d \in Working(r) /\ d \in Working(q)
    BY <1>1 DEF Working
  <2>3. d \in Racing
    BY <2>1, <2>2 DEF Racing
  <2> QED BY <2>3 DEF Order, RacesMarked
<1>2. ASSUME NEW q \in Req PROVE Halfway(q)'
  <2>1. CASE q = r
    BY <2>1 DEF Halfway
  <2>2. CASE q # r /\ pc[q] \in {"enmesh", "unmesh"} /\ dev[q] # d
    <3>1. PICK e \in Device : e = dev[q] /\ e = dev'[q] /\ e # d
      BY <2>2, Parts DEF Frame, Same, Sound
    <3>2. (Linked(e)' <=> Linked(e)) /\ pc'[q] = pc[q] /\ Halfway(q)
      BY <2>2, <3>1 DEF Frame, Same, MeshInv
    <3> QED BY <3>1, <3>2 DEF Halfway, Frame
  <2>3. CASE q # r /\ pc[q] \in {"enmesh", "unmesh"} /\ dev[q] = d
    <3>1. pc'[q] = pc[q] /\ dev'[q] = d
      BY <2>3 DEF Frame, Same
    <3>2. pc[q] = "unmesh" => d \in dirty'
      BY <1>1, <2>3 DEF Frame
    <3> QED BY <3>1, <3>2 DEF Halfway
  <2>4. CASE q # r /\ pc[q] \notin {"enmesh", "unmesh"}
    BY <2>4 DEF Frame, Same, Halfway
  <2> QED BY <2>1, <2>2, <2>3, <2>4
<1>3. ASSUME NEW e \in Device \ dirty' PROVE Between(e)'
  <2>1. CASE e = d
    BY <2>1 DEF Between
  <2>2. CASE e # d
    <3>1. Between(e) /\ (Linked(e)' <=> Linked(e))
      BY <2>2 DEF Frame, MeshInv
    <3>2. ASSUME NEW q \in Req, pc[q] \in {"enmesh", "unmesh"}, dev[q] = e
          PROVE  pc'[q] = pc[q] /\ dev'[q] = e
      BY <3>2 DEF Frame, Same
    <3> QED BY <3>1, <3>2 DEF Between
  <2> QED BY <2>1, <2>2
<1> QED BY <1>2, <1>3 DEF MeshInv

\* A row is written not to be LINKED: its request goes to the roster next, and no
\* link of the storage is between its row and the roster.
LEMMA DropMesh ==
    ASSUME IInv, Order, MeshInv, NEW r \in Req, Frame(r), NEW d \in Device, d \in todo[r],
           pc[r] = "drop", pc'[r] = "unmesh", dev'[r] = d, mesh' = mesh, ~Linked(d)',
           \A e \in Device \ {d} : Linked(e)' <=> Linked(e)
    PROVE  MeshInv'
<1>1. ASSUME NEW q \in Req \ {r}, pc[q] = "enmesh", dev[q] = d PROVE d \in dirty
  <2>1. op[q] = "link" /\ op[r] \in {"remove_storage", "reap"}
    BY <1>1, Parts DEF Order, Turn, Sound
  <2>2. d \in Working(r) /\ d \in Working(q)
    BY <1>1 DEF Working
  <2>3. d \in Racing
    BY <2>1, <2>2 DEF Racing
  <2> QED BY <2>3 DEF Order, RacesMarked
<1>2. ASSUME NEW q \in Req PROVE Halfway(q)'
  <2>1. CASE q = r
    BY <2>1 DEF Halfway
  <2>2. CASE q # r /\ pc[q] \in {"enmesh", "unmesh"} /\ dev[q] # d
    <3>1. PICK e \in Device : e = dev[q] /\ e = dev'[q] /\ e # d
      BY <2>2, Parts DEF Frame, Same, Sound
    <3>2. (Linked(e)' <=> Linked(e)) /\ pc'[q] = pc[q] /\ Halfway(q)
      BY <2>2, <3>1 DEF Frame, Same, MeshInv
    <3> QED BY <3>1, <3>2 DEF Halfway, Frame
  <2>3. CASE q # r /\ pc[q] \in {"enmesh", "unmesh"} /\ dev[q] = d
    <3>1. pc'[q] = pc[q] /\ dev'[q] = d
      BY <2>3 DEF Frame, Same
    <3>2. pc[q] = "enmesh" => d \in dirty'
      BY <1>1, <2>3 DEF Frame
    <3> QED BY <3>1, <3>2 DEF Halfway
  <2>4. CASE q # r /\ pc[q] \notin {"enmesh", "unmesh"}
    BY <2>4 DEF Frame, Same, Halfway
  <2> QED BY <2>1, <2>2, <2>3, <2>4
<1>3. ASSUME NEW e \in Device \ dirty' PROVE Between(e)'
  <2>1. CASE e = d
    BY <2>1 DEF Between
  <2>2. CASE e # d
    <3>1. Between(e) /\ (Linked(e)' <=> Linked(e))
      BY <2>2 DEF Frame, MeshInv
    <3>2. ASSUME NEW q \in Req, pc[q] \in {"enmesh", "unmesh"}, dev[q] = e
          PROVE  pc'[q] = pc[q] /\ dev'[q] = e
      BY <3>2 DEF Frame, Same
    <3> QED BY <3>1, <3>2 DEF Between
  <2> QED BY <2>1, <2>2
<1> QED BY <1>2, <1>3 DEF MeshInv

\* The roster follows the row.
LEMMA RosterFollows ==
    ASSUME IInv, MeshInv, NEW r \in Req, Frame(r), storage' = storage,
           pc[r] \in {"enmesh", "unmesh"}, pc'[r] \notin {"enmesh", "unmesh"},
           mesh' = IF pc[r] = "enmesh" THEN mesh \cup {dev[r]} ELSE mesh \ {dev[r]}
    PROVE  MeshInv'
<1>1. ASSUME NEW q \in Req PROVE Halfway(q)'
  <2>1. CASE q = r
    BY <2>1 DEF Halfway
  <2>2. CASE q # r
    <3>1. Halfway(q) /\ pc'[q] = pc[q] /\ dev'[q] = dev[q] /\ dirty \subseteq dirty'
      BY <2>2 DEF Frame, Same, MeshInv
    <3> QED BY <3>1 DEF Halfway, Linked
  <2> QED BY <2>1, <2>2
<1>2. ASSUME NEW d \in Device \ dirty' PROVE Between(d)'
  <2>1. Between(d) /\ (Linked(d)' <=> Linked(d)) /\ Halfway(r) /\ d \notin dirty
    BY DEF Frame, MeshInv, Linked
  <2>2. ASSUME NEW q \in Req \ {r} PROVE pc'[q] = pc[q] /\ dev'[q] = dev[q]
    BY DEF Frame, Same
  <2>3. CASE d = dev[r]
    BY <2>1, <2>3 DEF Between, Halfway
  <2>4. CASE d # dev[r]
    <3>1. d \in mesh' <=> d \in mesh
      BY <2>4
    <3> QED BY <2>1, <2>2, <2>4, <3>1 DEF Between
  <2> QED BY <2>3, <2>4
<1> QED BY <1>1, <1>2 DEF MeshInv

LEMMA WriteStepMesh ==
    ASSUME IInv, Order, MeshInv, NEW r \in Req, Wrote(r)
    PROVE  MeshInv'
<1>1. PICK w \in LateWrite : w = ItsWrite(r) /\ Executable(w) /\ w.kind = pc[r] /\ w.dev = dev[r]
  BY RequestWrite DEF Wrote, ItsWrite, Write
<1>2. /\ RowTypes /\ mesh' = mesh /\ lock = r /\ Frame(r)
      /\ pc[r] \in {"put", "revoke", "create", "relink"}
  BY Parts DEF Wrote
<1>3. CASE pc'[r] \in {"idle", "list"} /\ Quiet
  BY <1>2, <1>3, RosterKept
<1>4. CASE pc'[r] = "idle" /\ UNCHANGED <<rows, late>>
  BY <1>3, <1>4, UnwrittenQuiet DEF rows
<1>5. CASE pc'[r] = "idle" /\ Failed(r, w)
  <2>1. w.kind \in {"create", "relink", "drop"} => w.dev \in Working(r)
    BY <1>1, <1>2, Parts DEF Sound, Working
  <2> QED BY <1>1, <1>2, <1>3, <1>5, <2>1, WriteQuiet
<1>6. CASE pc'[r] \in {"idle", "list"} /\ pc[r] \in {"put", "revoke"} /\ Execute(w)
  <2>1. Quiet
    BY <1>1, <1>2, <1>6, ExecuteLinks DEF Quiet
  <2> QED BY <1>3, <1>6, <2>1
<1>7. CASE /\ pc[r] \in {"create", "relink"} /\ pc'[r] = "enmesh" /\ op[r] = "link"
           /\ Execute(w) /\ ~Refused(w) /\ dev'[r] = dev[r]
  <2>1. w.dev \in Device
    BY <1>1, <1>7, Parts DEF Sound
  <2>2. Linked(w.dev)' /\ \A e \in Device \ {w.dev} : Linked(e)' <=> Linked(e)
    BY <1>1, <1>2, <1>7, ExecuteLinks
  <2> QED BY <1>1, <1>2, <1>7, <2>1, <2>2, LinkMesh
<1> QED BY <1>1, <1>4, <1>5, <1>6, <1>7 DEF Wrote

LEMMA DropStepMesh ==
    ASSUME IInv, Order, MeshInv, NEW r \in Req, NEW d \in Device, Dropped(r, d)
    PROVE  MeshInv'
<1>1. PICK w \in LateWrite : w = DropOf(d) /\ Executable(w) /\ w.kind = "drop" /\ w.dev = d
  BY DropWrite DEF Dropped, DropOf, Write
<1>2. /\ RowTypes /\ mesh' = mesh /\ Frame(r) /\ pc[r] = "drop"
      /\ d \in todo[r] /\ d \in Working(r)
  BY Parts DEF Dropped, Working
<1>3. CASE Failed(r, w) /\ pc'[r] \in {"drop", "idle"}
  <2>1. Quiet
    BY <1>1, <1>2, <1>3, WriteQuiet
  <2> QED BY <1>2, <1>3, <2>1, RosterKept
<1>4. CASE Execute(w) /\ pc'[r] = "unmesh" /\ dev'[r] = d
  <2>1. ~Linked(d)' /\ \A e \in Device \ {d} : Linked(e)' <=> Linked(e)
    BY <1>1, <1>2, <1>4, ExecuteLinks
  <2> QED BY <1>2, <1>4, <2>1, DropMesh
<1> QED BY <1>1, <1>3, <1>4 DEF Dropped

LEMMA StepMesh ==
    ASSUME IInv, Order, MeshInv, NEW r \in Req, Begin(r) \/ Step(r)
    PROVE  MeshInv'
<1>1. CASE Begin(r)
  <2>1. Arrived(r)
    BY <1>1, BeginArrives
  <2> QED BY <2>1, RosterKept, UnwrittenQuiet DEF Arrived, rows
<1>2. CASE Lock(r)
  <2>1. Frame(r) /\ pc[r] = "lock" /\ pc'[r] = "check"
    BY <1>2, LockOrder
  <2> QED BY <1>2, <2>1, RosterKept, UnwrittenQuiet DEF Lock, rows
<1>3. CASE Check(r)
  <2>1. Checked(r)
    BY <1>3, CheckOrder
  <2>2. /\ Frame(r) /\ storage' = storage /\ mesh' = mesh /\ pc[r] = "check"
        /\ pc'[r] \in {"idle", "put", "revoke", "create", "relink"}
    BY <2>1 DEF Checked, rows
  <2> QED BY <2>2, RosterKept, UnwrittenQuiet
<1>4. CASE WriteStep(r)
  BY <1>4, WriteStepOrder, WriteStepMesh
<1>5. CASE List(r)
  <2>1. Listed(r)
    BY <1>5, ListOrder
  <2>2. /\ Frame(r) /\ storage' = storage /\ mesh' = mesh /\ pc[r] = "list"
        /\ pc'[r] \in {"idle", "drop"}
    BY <2>1 DEF Listed, rows
  <2> QED BY <2>2, RosterKept, UnwrittenQuiet
<1>6. CASE Drop(r)
  BY <1>6, DropOrder, DropStepMesh
<1>7. CASE Unmesh(r)
  <2>1. Unmeshed(r)
    BY <1>7, UnmeshOrder
  <2>2. Frame(r) /\ storage' = storage /\ pc[r] = "unmesh" /\ pc'[r] = "drop"
    BY <2>1 DEF Unmeshed, rows
  <2>3. CASE mesh' = mesh \ {dev[r]}
    BY <2>2, <2>3, RosterFollows
  <2>4. CASE mesh' = mesh /\ dev[r] \in dirty'
    BY <2>2, <2>4, RosterKept, UnwrittenQuiet
  <2> QED BY <2>1, <2>3, <2>4 DEF Unmeshed
<1>8. CASE Removed(r)
  <2>1. Frame(r) /\ pc'[r] = "idle"
    BY <1>8, RemovedOrder
  <2> QED BY <1>8, <2>1, RosterKept, UnwrittenQuiet DEF Removed, rows
<1>9. CASE Enmesh(r)
  <2>1. Enmeshed(r)
    BY <1>9, EnmeshOrder
  <2>2. Frame(r) /\ storage' = storage /\ pc[r] = "enmesh" /\ pc'[r] \in {"idle", "unlink"}
    BY <2>1 DEF Enmeshed, rows
  <2>3. CASE mesh' = mesh \cup {dev[r]}
    BY <2>2, <2>3, RosterFollows
  <2>4. CASE mesh' = mesh /\ dev[r] \in dirty'
    BY <2>2, <2>4, RosterKept, UnwrittenQuiet
  <2> QED BY <2>1, <2>3, <2>4 DEF Enmeshed
<1>10. CASE Unlink(r) \/ Ping(r)
  <2>1. PICK w \in LateWrite : Ended(r, w)
    BY <1>10, UnlinkOrder, PingOrder
  <2>2. Quiet
    BY <2>1, Parts, WriteQuiet DEF Ended
  <2> QED BY <2>1, <2>2, RosterKept DEF Ended
<1> QED BY <1>1, <1>2, <1>3, <1>4, <1>5, <1>6, <1>7, <1>8, <1>9, <1>10 DEF Step

\* Nobody moves.
LEMMA StillMesh ==
    ASSUME IInv, MeshInv, Quiet, UNCHANGED <<mesh, reqVars, dirty>>
    PROVE  MeshInv'
<1>1. UNCHANGED <<pc, dev, mesh, dirty>>
  BY DEF reqVars
<1>2. ASSUME NEW r \in Req PROVE Halfway(r)'
  <2>1. CASE pc[r] \in {"enmesh", "unmesh"}
    <3>1. PICK d \in Device : d = dev[r] /\ d = dev'[r]
      BY <1>1, <2>1, Parts DEF Sound
    <3>2. d \notin dirty => (Linked(d)' <=> Linked(d))
      BY <1>1, <3>1 DEF Quiet
    <3> QED BY <1>1, <3>1, <3>2 DEF Halfway, MeshInv
  <2>2. CASE pc[r] \notin {"enmesh", "unmesh"}
    BY <1>1, <2>2 DEF Halfway
  <2> QED BY <2>1, <2>2
<1>3. ASSUME NEW d \in Device \ dirty' PROVE Between(d)'
  BY <1>1 DEF Quiet, Between, MeshInv
<1> QED BY <1>2, <1>3 DEF MeshInv

LEMMA AgeQuiet ==
    ASSUME RowTypes, NEW d \in Device, Age(d)
    PROVE  Quiet
<1> DEFINE row == [storage[d] EXCEPT !.old = TRUE]
<1>1. storage[d] \in StorageRow /\ Linked(d) /\ storage[d].linked
  BY DEF Age, Linked, RowTypes
<1>2. row \in StorageRow /\ row.linked = storage[d].linked
  BY <1>1 DEF StorageRow
<1>3. storage' = [storage EXCEPT ![d] = row]
  BY DEF Age
<1> HIDE DEF row
<1>4. (\A e \in Device \ {d} : Linked(e)' <=> Linked(e)) /\ (Linked(d)' <=> row.linked)
  BY <1>1, <1>2, <1>3, LinksElsewhere
<1> QED BY <1>1, <1>2, <1>4 DEF Quiet

\* A write that nobody waits for changes storages of the history only.
LEMMA LateQuiet ==
    ASSUME IInv, Order, ExecuteLate
    PROVE  Quiet
<1>1. PICK w \in late : Execute(w)
  BY DEF ExecuteLate
<1>2. w \in LateWrite /\ Executable(w) /\ RowTypes
  BY Parts DEF LateOK
<1>3. w.kind \in {"create", "relink", "drop"} => w.dev \in dirty'
  BY DEF Order, LateMarked, ExecuteLate
<1> QED BY <1>1, <1>2, <1>3, ExecuteLinks DEF Quiet

LEMMA NextMesh ==
    ASSUME IInv, Order, MeshInv, [Next]_vars
    PROVE  MeshInv'
<1>1. CASE Crash
  <2>1. /\ storage' = storage /\ mesh' = mesh /\ dirty \subseteq dirty'
        /\ \A r \in Req : pc'[r] = "idle" /\ Working(r) \subseteq dirty'
    BY <1>1, CrashOrder DEF Crash, rows
  <2>2. ASSUME NEW d \in Device \ dirty' PROVE Between(d)'
    <3>1. \A r \in Req : dev[r] # d
      BY <2>1 DEF Working
    <3> QED BY <2>1, <3>1 DEF Between, MeshInv, Linked
  <2> QED BY <2>1, <2>2 DEF MeshInv, Halfway
<1>2. CASE Start \/ Seed \/ UNCHANGED vars
  <2>1. UNCHANGED <<storage, mesh, reqVars, dirty>>
    BY <1>2 DEF Start, Seed, vars, rows, PutMember
  <2> QED BY <2>1, StillMesh, UnwrittenQuiet
<1>3. CASE ExecuteLate
  BY <1>3, LateQuiet, StillMesh DEF ExecuteLate
<1>4. ASSUME NEW d \in Device, Age(d) PROVE MeshInv'
  BY <1>4, Parts, AgeQuiet, StillMesh DEF Age
<1> QED BY <1>1, <1>2, <1>3, <1>4, StepMesh DEF Next

\* Row and roster agree on every storage no request is at: for any number of
\* storages and of requests at a time, with crashes, failing calls and writes
\* executed after their timeout, on all storages the history does not name.
THEOREM RosterMatches == Spec => []MeshMatches
<1>1. Init => IInv /\ Order /\ MeshInv
  <2>1. ASSUME Init PROVE MeshInv
    BY <2>1 DEF Init, MeshInv, Halfway, Between, Linked
  <2> QED BY <2>1, InitIInv, InitOrder
<1>2. IInv /\ Order /\ MeshInv /\ [Next]_vars => (IInv /\ Order /\ MeshInv)'
  BY NextIInv, NextOrder, NextMesh
<1>3. MeshInv => MeshMatches
  <2>1. ASSUME MeshInv, NEW d \in Device \ dirty, \A r \in Req : d \notin Working(r)
        PROVE  Linked(d) <=> d \in mesh
    <3>1. \A r \in Req : dev[r] # d
      BY <2>1 DEF Working
    <3> QED BY <2>1, <3>1 DEF MeshInv, Between
  <2> QED BY <2>1 DEF MeshMatches
<1> QED BY <1>1, <1>2, <1>3, PTL DEF Spec

-----------------------------------------------------------------------------
(* What a revoked member keeps *)

\* The removal of a member has this storage ahead of it.
Ahead(r, d) ==
    /\ op[r] = "remove_member" /\ on[r] = storage[d].owner
    /\ pc[r] = "list" \/ d \in todo[r]

\* A step that links nothing and revokes nobody, and does not lose sight of a
\* storage it has to remove.
LEMMA RevokedKept ==
    ASSUME IInv, IInv', Kept, RevokedInv, NEW r \in Req, Frame(r), NoLate(late'), LinkMeant(r)',
           \A d \in Device \ dirty' : Linked(d)' => Linked(d),
           \A m \in Member : Active(m) => Active(m)',
           \A d \in Device \ dirty' : Linked(d)' /\ lock = r /\ Ahead(r, d) => lock' = r /\ Ahead(r, d)'
    PROVE  RevokedInv'
<1>1. ASSUME NEW q \in Req PROVE LinkMeant(q)'
  <2>1. CASE q = r
    BY <2>1
  <2>2. CASE q # r /\ pc[q] \in {"create", "relink"}
    <3>1. PICK m \in Member, d \in Device : m = on[q] /\ m = on'[q] /\ d = dev[q] /\ d = dev'[q]
      BY <2>2, Parts DEF Sound, Frame, Same
    <3>2. Active(m)'
      BY <2>2, <3>1 DEF RevokedInv, LinkMeant
    <3>3. pc[q] = "relink" => storage'[d].owner = m
      BY <2>2, <3>1, Parts DEF RevokedInv, LinkMeant, Kept, Sound
    <3> QED BY <2>2, <3>1, <3>2, <3>3 DEF LinkMeant, Frame, Same
  <2>3. CASE q # r /\ pc[q] \notin {"create", "relink"}
    BY <2>3 DEF LinkMeant, Frame, Same
  <2> QED BY <2>1, <2>2, <2>3
<1>2. ASSUME NEW d \in Device \ dirty', Linked(d)', ~Active(storage[d].owner)'
      PROVE  lock' \in Req /\ Ahead(lock, d)'
  <2>1. PICK m \in Member : m = storage[d].owner /\ m = storage'[d].owner
    BY <1>2, Parts DEF Linked, Kept, RowTypes, StorageRow
  <2>2. ~Active(m)
    BY <1>2, <2>1
  <2>3. Linked(d) /\ d \notin dirty
    BY <1>2 DEF Frame
  <2>4. PICK q \in Req : q = lock /\ Ahead(q, d)
    BY <2>1, <2>2, <2>3 DEF RevokedInv, RevokedOwnsNothing, Ahead
  <2>5. CASE q = r
    <3>1. lock' = q /\ Ahead(q, d)'
      BY <1>2, <2>4, <2>5
    <3> QED BY <3>1 DEF Ahead
  <2>6. CASE q # r
    <3>1. lock' = q /\ op'[q] = op[q] /\ on'[q] = on[q] /\ pc'[q] = pc[q] /\ todo'[q] = todo[q]
      BY <2>4, <2>6, ControlAssumption DEF Frame, Same
    <3> QED BY <2>1, <2>4, <3>1 DEF Ahead
  <2> QED BY <2>5, <2>6
<1>3. RevokedOwnsNothing'
  BY <1>2 DEF RevokedOwnsNothing, Ahead
<1> QED BY <1>1, <1>3 DEF RevokedInv

LEMMA MembersKept ==
    ASSUME member' = member
    PROVE  \A m \in Member : Active(m) => Active(m)'
BY DEF Active

LEMMA PutKeepsActive ==
    ASSUME RowTypes, NEW m \in Member, NEW w \in {"client", "admin"}, PutMember(m, w)
    PROVE  \A x \in Member : Active(x) => Active(x)'
<1> DEFINE row == [role |-> w, active |-> TRUE]
<1>1. row \in MemberRow /\ row.active = TRUE /\ member' = [member EXCEPT ![m] = row]
  BY DEF MemberRow, PutMember
<1> HIDE DEF row
<1>2. member'[m] = row /\ \A x \in Member \ {m} : member'[x] = member[x]
  BY <1>1 DEF RowTypes
<1>3. row # NULL
  BY <1>1, ControlAssumption
<1> QED BY <1>1, <1>2, <1>3 DEF Active

\* A write of which no outcome touches a member.
LEMMA StorageWriteQuiet ==
    ASSUME RevokedInv, NEW r, NEW w, w.kind \notin {"put", "revoke"}, Done(w) \/ Failed(r, w)
    PROVE  member' = member /\ NoLate(late')
<1>1. member' = member
  BY StorageWrite DEF Done, Failed, rows
<1>2. late' \subseteq late \cup {w}
  BY DEF Done, Failed
<1> QED BY <1>1, <1>2 DEF RevokedInv, NoLate

\* A link is written while its member is active, and the row is theirs.
LEMMA LinkRevoked ==
    ASSUME IInv, IInv', Kept, Order, RevokedInv, NEW r \in Req, Wrote(r),
           pc[r] \in {"create", "relink"}, pc'[r] = "enmesh", op[r] = "link",
           Execute(ItsWrite(r)), ~Refused(ItsWrite(r)), late' = late
    PROVE  RevokedInv'
<1>1. PICK w \in LateWrite : /\ w = ItsWrite(r) /\ Executable(w) /\ w.kind = pc[r]
                             /\ w.dev = dev[r] /\ w.who = on[r]
  BY RequestWrite DEF ItsWrite, Write
<1>2. PICK d \in Device, m \in Member : d = dev[r] /\ m = on[r]
  BY Parts DEF Sound
<1>3. member' = member
  BY <1>1, StorageWrite
<1>4. Active(m) /\ Active(m)'
  BY <1>2, <1>3 DEF RevokedInv, LinkMeant, Active
<1>5. storage'[d].owner = m
  <2>1. CASE pc[r] = "create"
    BY <1>1, <1>2, <2>1, Parts, ExecuteLinks
  <2>2. CASE pc[r] = "relink"
    BY <1>2, <2>2, Parts DEF RevokedInv, LinkMeant, Kept, Sound
  <2> QED BY <2>1, <2>2
<1>6. \A e \in Device \ {d} : Linked(e)' <=> Linked(e)
  BY <1>1, <1>2, Parts, ExecuteLinks
<1>7. lock = r /\ Frame(r)
  BY DEF Wrote
<1>8. ASSUME NEW e \in Device \ dirty', Linked(e)' PROVE Active(storage[e].owner)'
  <2>1. CASE e = d
    BY <1>4, <1>5, <2>1
  <2>2. CASE e # d
    <3>1. Linked(e) /\ e \notin dirty
      BY <1>6, <1>7, <1>8, <2>2 DEF Frame
    <3>2. Active(storage[e].owner)
      BY <1>7, <3>1 DEF RevokedInv, RevokedOwnsNothing
    <3>3. storage'[e].owner = storage[e].owner
      BY <3>1 DEF Kept, Linked
    <3> QED BY <1>3, <3>2, <3>3 DEF Active
  <2> QED BY <2>1, <2>2
<1>9. ASSUME NEW q \in Req PROVE LinkMeant(q)'
  <2>1. pc'[q] \notin {"create", "relink"}
    BY <1>7 DEF Frame, Same, Order, Turn
  <2> QED BY <2>1 DEF LinkMeant
<1> QED BY <1>8, <1>9 DEF RevokedInv, RevokedOwnsNothing, NoLate

\* The write that revokes a member: the storages are ahead of its request, or in
\* the history when the request gave up.
LEMMA RevokeRevoked ==
    ASSUME IInv, IInv', Kept, Order, RevokedInv, NEW r \in Req, Wrote(r), pc[r] = "revoke",
           Execute(ItsWrite(r)), late' = late,
           \/ /\ lock' = r /\ op'[r] = op[r] /\ on'[r] = on[r] /\ pc'[r] = "list"
           \/ Working(r) \subseteq dirty' /\ pc'[r] = "idle"
    PROVE  RevokedInv'
<1>1. op[r] = "remove_member" /\ lock = r /\ Frame(r)
  BY Parts DEF Sound, Wrote
<1>2. PICK m \in Member : m = on[r]
  BY <1>1, Parts DEF Sound
<1>3. storage' = storage /\ \A x \in Member \ {m} : member'[x] = member[x]
  BY <1>2, Parts DEF ItsWrite, Write, Execute, RevokeMember, RowTypes
<1>4. ASSUME NEW q \in Req PROVE LinkMeant(q)'
  <2>1. pc'[q] \notin {"create", "relink"}
    BY <1>1 DEF Frame, Same, Order, Turn
  <2> QED BY <2>1 DEF LinkMeant
<1>5. ASSUME NEW d \in Device \ dirty', Linked(d)', ~Active(storage[d].owner)'
      PROVE  lock' = r /\ Ahead(r, d)'
  <2>1. Linked(d) /\ d \notin dirty /\ storage[d].owner \in Member
    BY <1>1, <1>3, <1>5, Parts DEF Linked, Frame, RowTypes, StorageRow
  <2>2. storage[d].owner = m
    <3>1. SUFFICES ASSUME storage[d].owner # m PROVE FALSE
      OBVIOUS
    <3>2. ~Active(storage[d].owner)
      BY <1>3, <1>5, <2>1, <3>1 DEF Active
    <3> QED BY <1>1, <1>2, <2>1, <3>1, <3>2 DEF RevokedInv, RevokedOwnsNothing
  <2>3. d \in Working(r)
    BY <1>1, <1>2, <2>1, <2>2 DEF Working, LinkedBy
  <2> QED BY <1>1, <1>2, <1>3, <2>2, <2>3 DEF Ahead
<1>6. RevokedOwnsNothing'
  BY <1>5 DEF RevokedOwnsNothing, Ahead
<1> QED BY <1>4, <1>6 DEF RevokedInv, NoLate

LEMMA WriteStepRevoked ==
    ASSUME IInv, IInv', Kept, Order, RevokedInv, "late_member" \notin Faults, NEW r \in Req, Wrote(r)
    PROVE  RevokedInv'
<1>1. PICK w \in LateWrite : w = ItsWrite(r) /\ Executable(w) /\ w.kind = pc[r] /\ w.dev = dev[r]
  BY RequestWrite DEF Wrote, ItsWrite, Write
<1>2. /\ RowTypes /\ lock = r /\ Frame(r)
      /\ pc[r] \in {"put", "revoke", "create", "relink"}
  BY Parts DEF Wrote
<1>3. ASSUME pc'[r] = "idle", NoLate(late'), Quiet, \A m \in Member : Active(m) => Active(m)'
      PROVE  RevokedInv'
  <2>1. ASSUME NEW d \in Device PROVE ~Ahead(r, d)
    BY <1>2, Parts DEF Ahead, Sound, Order, Turn
  <2>2. LinkMeant(r)'
    BY <1>3 DEF LinkMeant
  <2> QED BY <1>2, <1>3, <2>1, <2>2, RevokedKept DEF Quiet
<1>4. CASE pc'[r] = "idle" /\ UNCHANGED <<rows, late>>
  BY <1>3, <1>4, UnwrittenQuiet, MembersKept DEF rows, RevokedInv
<1>5. CASE pc'[r] = "idle" /\ pc[r] = "put" /\ Execute(w) /\ late' = late
  <2>1. Quiet
    BY <1>1, <1>2, <1>5, ExecuteLinks DEF Quiet
  <2>2. PutMember(w.who, w.role) /\ w.who \in Member /\ w.role \in {"client", "admin"}
    BY <1>1, <1>5 DEF Execute, Executable, LateWrite
  <2> QED BY <1>2, <1>3, <1>5, <2>1, <2>2, PutKeepsActive DEF RevokedInv
<1>6. CASE pc'[r] = "idle" /\ Failed(r, w)
  <2>1. CASE pc[r] \in {"create", "relink"}
    <3>1. w.dev \in Working(r)
      BY <1>1, <2>1, Parts DEF Sound, Working
    <3>2. Quiet
      BY <1>1, <1>2, <1>6, <3>1, WriteQuiet
    <3>3. member' = member /\ NoLate(late')
      BY <1>1, <1>6, <2>1, StorageWriteQuiet
    <3> QED BY <1>3, <1>6, <3>2, <3>3, MembersKept
  <2>2. CASE pc[r] \in {"put", "revoke"}
    <3>1. late' = late /\ (Execute(w) \/ UNCHANGED rows) /\ Working(r) \subseteq dirty'
      BY <1>1, <1>6, <2>2, Marks DEF Failed, Overdue
    <3>2. CASE UNCHANGED rows
      BY <1>4, <1>6, <3>1, <3>2
    <3>3. CASE Execute(w) /\ pc[r] = "put"
      BY <1>5, <1>6, <3>1, <3>3
    <3>4. CASE Execute(w) /\ pc[r] = "revoke"
      BY <1>1, <1>6, <3>1, <3>4, RevokeRevoked
    <3> QED BY <2>2, <3>1, <3>2, <3>3, <3>4
  <2> QED BY <1>2, <2>1, <2>2
<1>7. CASE /\ Execute(w) /\ ~Refused(w) /\ late' = late /\ lock' = r
           /\ op'[r] = op[r] /\ on'[r] = on[r]
           /\ \/ pc[r] \in {"create", "relink"} /\ pc'[r] = "enmesh" /\ op[r] = "link"
              \/ pc[r] = "revoke" /\ pc'[r] = "list" /\ op[r] = "remove_member"
  BY <1>1, <1>7, LinkRevoked, RevokeRevoked
<1> QED BY <1>1, <1>4, <1>5, <1>6, <1>7 DEF Wrote

LEMMA DropRevoked ==
    ASSUME IInv, IInv', Kept, RevokedInv, NEW r \in Req, NEW d \in Device, Dropped(r, d)
    PROVE  RevokedInv'
<1>1. PICK w \in LateWrite : w = DropOf(d) /\ Executable(w) /\ w.kind = "drop" /\ w.dev = d
  BY DropWrite DEF Dropped, DropOf, Write
<1>2. RowTypes /\ Frame(r) /\ pc[r] = "drop" /\ d \in Working(r)
  BY Parts DEF Dropped, Working
<1>3. \/ Execute(w) /\ late' = late
      \/ Failed(r, w)
  BY <1>1 DEF Dropped
<1>4. member' = member /\ NoLate(late')
  <2>1. CASE Failed(r, w)
    BY <1>1, <2>1, StorageWriteQuiet
  <2>2. CASE Execute(w) /\ late' = late
    BY <1>1, <2>2, StorageWrite DEF RevokedInv
  <2> QED BY <1>3, <2>1, <2>2
<1>5. ASSUME NEW e \in Device \ dirty', Linked(e)' PROVE Linked(e) /\ e # d
  <2>1. CASE Failed(r, w)
    <3>1. Quiet /\ d \in dirty'
      BY <1>1, <1>2, <2>1, WriteQuiet, Marks DEF Failed
    <3> QED BY <1>5, <3>1 DEF Quiet
  <2>2. CASE Execute(w)
    BY <1>1, <1>2, <1>5, <2>2, ExecuteLinks
  <2> QED BY <1>3, <2>1, <2>2
<1>6. ASSUME NEW e \in Device \ dirty', Linked(e)', lock = r, Ahead(r, e)
      PROVE  lock' = r /\ Ahead(r, e)'
  <2>1. e # d /\ storage'[e].owner = storage[e].owner
    BY <1>5, <1>6 DEF Kept, Linked
  <2>2. /\ lock' = r /\ op'[r] = op[r] /\ on'[r] = on[r] /\ todo'[r] = todo[r] \ {d}
    BY <1>6 DEF Ahead, Dropped
  <2> QED BY <1>2, <1>6, <2>1, <2>2 DEF Ahead
<1>7. LinkMeant(r)'
  BY DEF Dropped, LinkMeant
<1> QED BY <1>2, <1>4, <1>5, <1>6, <1>7, MembersKept, RevokedKept

\* A step that writes nothing, or only for a storage of the history.
LEMMA QuietRevoked ==
    ASSUME IInv, IInv', Kept, RevokedInv, NEW r \in Req, Frame(r), NoLate(late'), LinkMeant(r)',
           Quiet, member' = member,
           \A d \in Device \ dirty' : Linked(d)' /\ lock = r /\ Ahead(r, d) => lock' = r /\ Ahead(r, d)'
    PROVE  RevokedInv'
BY MembersKept, RevokedKept DEF Quiet

LEMMA StepRevoked ==
    ASSUME IInv, IInv', Kept, Order, RevokedInv, "late_member" \notin Faults,
           NEW r \in Req, Begin(r) \/ Step(r)
    PROVE  RevokedInv'
<1>1. CASE Begin(r)
  <2>1. Arrived(r)
    BY <1>1, BeginArrives
  <2>2. /\ Frame(r) /\ member' = member /\ storage' = storage /\ NoLate(late')
        /\ pc[r] = "idle" /\ LinkMeant(r)'
    BY <2>1 DEF Arrived, rows, RevokedInv, LinkMeant
  <2>3. ASSUME NEW d \in Device, Ahead(r, d) PROVE FALSE
    BY <2>2, <2>3 DEF Ahead, Order, Turn
  <2> QED BY <2>2, <2>3, QuietRevoked, UnwrittenQuiet
<1>2. CASE Lock(r)
  <2>1. /\ Frame(r) /\ pc[r] = "lock" /\ pc'[r] = "check" /\ todo[r] = {}
        /\ member' = member /\ storage' = storage /\ NoLate(late')
    BY <1>2, LockOrder DEF Lock, rows, RevokedInv, Order, Turn
  <2>2. (\A d \in Device : ~Ahead(r, d)) /\ LinkMeant(r)'
    BY <2>1 DEF Ahead, LinkMeant
  <2> QED BY <2>1, <2>2, QuietRevoked, UnwrittenQuiet
<1>3. CASE Check(r)
  <2>1. Checked(r)
    BY <1>3, CheckOrder
  <2>2. /\ Frame(r) /\ member' = member /\ storage' = storage /\ NoLate(late')
        /\ \A d \in Device : ~Ahead(r, d)
    BY <2>1 DEF Checked, rows, RevokedInv, Ahead
  <2>3. LinkMeant(r)'
    BY <2>1, <2>2 DEF Checked, LinkMeant, Active
  <2> QED BY <2>2, <2>3, QuietRevoked, UnwrittenQuiet
<1>4. CASE WriteStep(r)
  BY <1>4, WriteStepOrder, WriteStepRevoked
<1>5. CASE List(r)
  <2>1. Listed(r)
    BY <1>5, ListOrder
  <2>2. /\ Frame(r) /\ member' = member /\ storage' = storage /\ NoLate(late')
        /\ LinkMeant(r)' /\ op[r] = "remove_member" /\ pc[r] = "list"
    BY <2>1, Parts DEF Listed, rows, RevokedInv, LinkMeant, Sound
  <2>3. ASSUME NEW d \in Device \ dirty', Linked(d)', lock = r, Ahead(r, d)
        PROVE  lock' = r /\ Ahead(r, d)'
    <3>1. Linked(d) /\ storage[d].owner = on[r] /\ d \in LinkedBy(on[r])
      BY <2>2, <2>3 DEF Linked, Ahead, LinkedBy
    <3>2. d \in Working(r)
      BY <2>2, <3>1 DEF Working
    <3> QED BY <2>1, <2>2, <2>3, <3>1, <3>2 DEF Listed, Ahead
  <2> QED BY <2>2, <2>3, QuietRevoked, UnwrittenQuiet
<1>6. CASE Drop(r)
  BY <1>6, DropOrder, DropRevoked
<1>7. CASE Unmesh(r)
  <2>1. Unmeshed(r)
    BY <1>7, UnmeshOrder
  <2>2. /\ Frame(r) /\ member' = member /\ storage' = storage /\ NoLate(late') /\ LinkMeant(r)'
    BY <2>1 DEF Unmeshed, rows, RevokedInv, LinkMeant
  <2>3. ASSUME NEW d \in Device, lock = r, Ahead(r, d) PROVE lock' = r /\ Ahead(r, d)'
    BY <2>1, <2>2, <2>3 DEF Unmeshed, Ahead
  <2> QED BY <2>2, <2>3, QuietRevoked, UnwrittenQuiet
<1>8. CASE Removed(r)
  <2>1. /\ Frame(r) /\ pc'[r] = "idle" /\ pc[r] = "drop" /\ todo[r] = {}
        /\ member' = member /\ storage' = storage /\ NoLate(late')
    BY <1>8, RemovedOrder DEF Removed, rows, RevokedInv
  <2>2. (\A d \in Device : ~Ahead(r, d)) /\ LinkMeant(r)'
    BY <2>1 DEF Ahead, LinkMeant
  <2> QED BY <2>1, <2>2, QuietRevoked, UnwrittenQuiet
<1>9. CASE Enmesh(r)
  <2>1. Enmeshed(r)
    BY <1>9, EnmeshOrder
  <2>2. /\ Frame(r) /\ member' = member /\ storage' = storage /\ NoLate(late') /\ LinkMeant(r)'
        /\ \A d \in Device : ~Ahead(r, d)
    BY <2>1 DEF Enmeshed, rows, RevokedInv, LinkMeant, Ahead
  <2> QED BY <2>2, QuietRevoked, UnwrittenQuiet
<1>10. CASE Unlink(r) \/ Ping(r)
  <2>1. PICK w \in LateWrite : Ended(r, w)
    BY <1>10, UnlinkOrder, PingOrder
  <2>2. Quiet
    BY <2>1, Parts, WriteQuiet DEF Ended
  <2>3. member' = member /\ NoLate(late')
    BY <2>1, StorageWriteQuiet DEF Ended
  <2>4. Frame(r) /\ LinkMeant(r)' /\ \A d \in Device : ~Ahead(r, d)
    BY <2>1 DEF Ended, LinkMeant, Ahead
  <2> QED BY <2>2, <2>3, <2>4, QuietRevoked
<1> QED BY <1>1, <1>2, <1>3, <1>4, <1>5, <1>6, <1>7, <1>8, <1>9, <1>10 DEF Step

\* Nobody moves, and nobody is revoked.
LEMMA StillRevoked ==
    ASSUME IInv, Kept, RevokedInv, Quiet, UNCHANGED <<reqVars, lock, dirty>>, late' \subseteq late,
           \A m \in Member : Active(m) => Active(m)'
    PROVE  RevokedInv'
<1>1. UNCHANGED <<pc, op, on, dev, todo, lock, dirty>>
  BY DEF reqVars
<1>2. ASSUME NEW q \in Req PROVE LinkMeant(q)'
  <2>1. CASE pc[q] \in {"create", "relink"}
    <3>1. PICK m \in Member, d \in Device : m = on[q] /\ m = on'[q] /\ d = dev[q] /\ d = dev'[q]
      BY <1>1, <2>1, Parts DEF Sound
    <3>2. Active(m)' /\ (pc[q] = "relink" => storage'[d].owner = m)
      BY <2>1, <3>1, Parts DEF RevokedInv, LinkMeant, Kept, Sound
    <3> QED BY <1>1, <3>1, <3>2 DEF LinkMeant
  <2>2. CASE pc[q] \notin {"create", "relink"}
    BY <1>1, <2>2 DEF LinkMeant
  <2> QED BY <2>1, <2>2
<1>3. ASSUME NEW d \in Device \ dirty', Linked(d)', ~Active(storage[d].owner)'
      PROVE  lock' \in Req /\ Ahead(lock, d)'
  <2>1. Linked(d) /\ d \notin dirty
    BY <1>1, <1>3 DEF Quiet
  <2>2. PICK m \in Member : m = storage[d].owner /\ m = storage'[d].owner
    BY <2>1, Parts DEF Linked, Kept, RowTypes, StorageRow
  <2>3. ~Active(m)
    BY <1>3, <2>2
  <2>4. lock \in Req /\ Ahead(lock, d)
    BY <2>1, <2>2, <2>3 DEF RevokedInv, RevokedOwnsNothing, Ahead
  <2> QED BY <1>1, <2>2, <2>4 DEF Ahead
<1>4. RevokedOwnsNothing'
  BY <1>3 DEF RevokedOwnsNothing, Ahead
<1> QED BY <1>2, <1>4 DEF RevokedInv, NoLate

LEMMA NextRevoked ==
    ASSUME IInv, Order, RevokedInv, "late_member" \notin Faults, [Next]_vars
    PROVE  RevokedInv'
<1>1. IInv' /\ Kept
  BY NextIInv
<1>2. CASE Crash
  <2>1. /\ member' = member /\ storage' = storage /\ late' = late /\ dirty \subseteq dirty'
        /\ \A r \in Req : pc'[r] = "idle" /\ Working(r) \subseteq dirty'
    BY <1>2, CrashOrder DEF Crash, rows
  <2>2. ASSUME NEW d \in Device \ dirty', Linked(d), ~Active(storage[d].owner) PROVE FALSE
    <3>1. PICK q \in Req : Ahead(q, d)
      BY <2>1, <2>2 DEF RevokedInv, RevokedOwnsNothing, Ahead
    <3>2. d \in Working(q)
      BY <2>2, <3>1 DEF Ahead, Working, LinkedBy
    <3> QED BY <2>1, <3>2
  <2>3. RevokedOwnsNothing'
    BY <2>1, <2>2 DEF RevokedOwnsNothing, Linked, Active
  <2> QED BY <2>1, <2>3 DEF RevokedInv, LinkMeant
<1>3. CASE Start \/ UNCHANGED vars
  <2>1. UNCHANGED <<member, storage, late, reqVars, lock, dirty>>
    BY <1>3 DEF Start, vars, rows, server
  <2> QED BY <1>1, <2>1, StillRevoked, UnwrittenQuiet, MembersKept
<1>4. CASE Seed
  <2>1. PICK m \in Member : PutMember(m, "admin")
    BY <1>4, Parts, ControlAssumption DEF Seed, OtherTypes
  <2>2. \A x \in Member : Active(x) => Active(x)'
    BY <2>1, Parts, PutKeepsActive
  <2>3. UNCHANGED <<storage, late, reqVars, lock, dirty>>
    BY <1>4, <2>1 DEF Seed, PutMember
  <2> QED BY <1>1, <2>2, <2>3, StillRevoked, UnwrittenQuiet
<1>5. CASE ExecuteLate
  <2>1. member' = member
    BY <1>5, StorageWrite DEF ExecuteLate, RevokedInv, NoLate
  <2>2. UNCHANGED <<reqVars, lock, dirty>> /\ late' \subseteq late
    BY <1>5 DEF ExecuteLate, server
  <2> QED BY <1>1, <1>5, <2>1, <2>2, LateQuiet, StillRevoked, MembersKept
<1>6. ASSUME NEW d \in Device, Age(d) PROVE RevokedInv'
  <2>1. UNCHANGED <<member, late, reqVars, lock, dirty>>
    BY <1>6 DEF Age, server
  <2> QED BY <1>1, <1>6, <2>1, Parts, AgeQuiet, StillRevoked, MembersKept
<1> QED BY <1>1, <1>2, <1>3, <1>4, <1>5, <1>6, StepRevoked DEF Next

\* A revoked member is left with no linked storage once the removal under the
\* lock has passed it: for any number of members, storages and requests at a
\* time, with crashes and failing calls, and with storage writes executed after
\* their timeout, as long as no write to a member is.
THEOREM RevokedLoseStorages ==
    ASSUME "late_member" \notin Faults
    PROVE  Spec => []RevokedOwnsNothing
<1>1. Init => IInv /\ Order /\ RevokedInv
  <2>1. ASSUME Init PROVE RevokedInv
    BY <2>1 DEF Init, RevokedInv, RevokedOwnsNothing, NoLate, LinkMeant, Linked
  <2> QED BY <2>1, InitIInv, InitOrder
<1>2. IInv /\ Order /\ RevokedInv /\ [Next]_vars => (IInv /\ Order /\ RevokedInv)'
  BY NextIInv, NextOrder, NextRevoked
<1>3. RevokedInv => RevokedOwnsNothing
  BY DEF RevokedInv
<1> QED BY <1>1, <1>2, <1>3, PTL DEF Spec

=============================================================================
