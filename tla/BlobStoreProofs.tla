--------------------------- MODULE BlobStoreProofs --------------------------
(***************************************************************************)
(* The ledger, for any sizes and allowances, and the proxy over it and the *)
(* nodes, for any number of accounts, blobs, nodes and requests at a time  *)
(* and for every set of faults.  A request is described by what is true of *)
(* its hash at each of its awaits; the histories say when another request  *)
(* may have changed that.                                                  *)
(***************************************************************************)
EXTENDS BlobStore, FiniteSetTheorems, TLAPS

\* Leaves that name no prover are for Zenon.
USE Zenon

-----------------------------------------------------------------------------
(* The bytes of a set of blobs *)

\* The blobs an account owns have finitely many bytes.
LEMMA BytesFinite ==
    ASSUME NEW S \in SUBSET Hash
    PROVE  IsFiniteSet(Bytes(S))
<1> DEFINE f == [h \in S |-> {h} \X (1 .. SizeOf[h])]
           T == {{h} \X (1 .. SizeOf[h]) : h \in S}
<1>1. IsFiniteSet(S)
  BY FS_Subset, ConstantsAssumption
<1>2. f \in Surjection(S, T)
  BY DEF Surjection
<1>3. IsFiniteSet(T)
  BY <1>1, <1>2, FS_Surjection
<1>4. ASSUME NEW h \in S PROVE IsFiniteSet({h} \X (1 .. SizeOf[h]))
  <2>1. IsFiniteSet({h})
    BY FS_Singleton
  <2>2. IsFiniteSet(1 .. SizeOf[h])
    BY FS_Interval, ConstantsAssumption, SMT
  <2> QED BY <2>1, <2>2, FS_Product
<1>5. \A X \in T : IsFiniteSet(X)
  BY <1>4
<1> QED BY <1>3, <1>5, FS_UNION DEF Bytes

\* One more blob adds its size.
LEMMA BytesAdd ==
    ASSUME NEW S \in SUBSET Hash, NEW h \in Hash, h \notin S
    PROVE  Cardinality(Bytes(S \cup {h})) = Cardinality(Bytes(S)) + SizeOf[h]
<1> DEFINE B == {h} \X (1 .. SizeOf[h])
<1>1. Bytes(S \cup {h}) = Bytes(S) \cup B
  BY DEF Bytes
<1>2. Bytes(S) \cap B = {}
  BY SMT DEF Bytes
<1>3. IsFiniteSet(Bytes(S)) /\ Cardinality(Bytes(S)) \in Nat
  BY BytesFinite, FS_CardinalityType
<1>4. IsFiniteSet(B) /\ Cardinality(B) = SizeOf[h]
  <2>1. IsFiniteSet({h}) /\ Cardinality({h}) = 1
    BY FS_Singleton
  <2>2. SizeOf[h] \in Nat
    BY ConstantsAssumption
  <2>3. IsFiniteSet(1 .. SizeOf[h]) /\ Cardinality(1 .. SizeOf[h]) = SizeOf[h]
    <3>1. 1 \in Int /\ SizeOf[h] \in Int
      BY <2>2, SMT
    <3>2. /\ IsFiniteSet(1 .. SizeOf[h])
          /\ Cardinality(1 .. SizeOf[h]) = IF 1 > SizeOf[h] THEN 0 ELSE SizeOf[h] - 1 + 1
      BY <3>1, FS_Interval
    <3> QED  BY <2>2, <3>2, SMT
  <2>4. IsFiniteSet(B) /\ Cardinality(B) = Cardinality({h}) * Cardinality(1 .. SizeOf[h])
    BY <2>1, <2>3, FS_Product
  <2>5. 1 * SizeOf[h] = SizeOf[h]
    BY <2>2, SMT
  <2> QED BY <2>1, <2>3, <2>4, <2>5
<1>5. Cardinality({}) = 0
  BY FS_EmptySet
<1>6. Cardinality(Bytes(S) \cup B) = Cardinality(Bytes(S)) + Cardinality(B) - Cardinality(Bytes(S) \cap B)
  BY <1>3, <1>4, FS_Union
<1>7. SizeOf[h] \in Nat
  BY ConstantsAssumption
<1>8. Cardinality(Bytes(S) \cap B) = 0
  BY <1>2, <1>5
<1> HIDE DEF B
<1>9. Cardinality(Bytes(S) \cup B) = Cardinality(Bytes(S)) + SizeOf[h]
  BY <1>3, <1>4, <1>6, <1>7, <1>8, SMT
<1> QED BY <1>1, <1>9

\* One blob less gives its size back.
LEMMA BytesRemove ==
    ASSUME NEW S \in SUBSET Hash, NEW h \in S
    PROVE  /\ Cardinality(Bytes(S \ {h})) = Cardinality(Bytes(S)) - SizeOf[h]
           /\ Cardinality(Bytes(S \ {h})) \in Nat
<1>1. (S \ {h}) \cup {h} = S
  OBVIOUS
<1>2. Cardinality(Bytes(S)) = Cardinality(Bytes(S \ {h})) + SizeOf[h]
  BY <1>1, BytesAdd
<1>3. Cardinality(Bytes(S \ {h})) \in Nat
  BY BytesFinite, FS_CardinalityType
<1>4. SizeOf[h] \in Nat
  BY ConstantsAssumption
<1> QED BY <1>2, <1>3, <1>4, SMT

-----------------------------------------------------------------------------
(* The inductive invariant *)

IInv == TypeOK /\ Accounting /\ Isolation

\* The empty database satisfies it.
LEMMA InitIInv == Init => IInv
<1> SUFFICES ASSUME Init PROVE IInv
  OBVIOUS
<1> USE ConstantsAssumption
<1>1. TypeOK
  BY DEF Init, TypeOK, Row, Label, Answer
<1>2. Accounting
  <2>1. \A u \in Npub : OwnedBytes(u) = {}
    BY DEF Init, OwnedBytes, Blobs, Bytes
  <2> QED BY <2>1, FS_EmptySet DEF Init, Accounting
<1>3. Isolation
  BY DEF Init, Isolation, Isolated
<1> QED BY <1>1, <1>2, <1>3 DEF IInv

\* A step that leaves the tables alone leaves the accounts right.
LEMMA AccountingKept ==
    ASSUME Accounting, UNCHANGED <<blob, usedStorage>>
    PROVE  Accounting'
BY DEF Accounting, OwnedBytes, Blobs, Bytes

\* Rolling a transaction back keeps the invariant, whatever it had done.
LEMMA RollbackIInv ==
    ASSUME IInv, NEW t \in Tx, NEW a \in Answer, Rollback(t, a)
    PROVE  IInv'
<1> USE ConstantsAssumption DEF IInv, Rollback, Finish, Unlocked, dbVars
<1>1. TypeOK'
  BY DEF TypeOK, Label
<1>2. Accounting'
  BY AccountingKept
<1>3. Isolation'
  <2> SUFFICES ASSUME NEW s \in Tx PROVE Isolated(s)'
    BY DEF Isolation
  <2>1. CASE s = t
    BY <2>1 DEF TypeOK, Label, Isolated
  <2>2. CASE s # t
    BY <2>2, SMT DEF TypeOK, Isolation, Isolated, OverQuota, Row
  <2> QED BY <2>1, <2>2
<1> QED BY <1>1, <1>2, <1>3

\* So does every step of an upload.
LEMMA PostIInv ==
    ASSUME IInv, NEW t \in Tx, Post(t)
    PROVE  IInv'
<1> USE ConstantsAssumption DEF IInv
<1>1. CASE PostNoUser(t) \/ PostDuplicate(t) \/ PostOverQuota(t)
  BY <1>1, RollbackIInv DEF PostNoUser, PostDuplicate, PostOverQuota, Answer
<1>2. CASE PostLock(t)
  <2> USE <1>2 DEF PostLock, dbVars
  <2>1. who[t] \in Npub /\ what[t] \in Hash
    BY DEF Isolation, Isolated
  <2>2. TypeOK'
    BY <2>1 DEF TypeOK, Label
  <2>3. Accounting'
    BY AccountingKept
  <2>4. ASSUME NEW s \in Tx PROVE Isolated(s)'
    <3>1. CASE s = t
      <4>1. gone[t] = {}
        BY DEF Isolation, Isolated
      <4>2. /\ pc'[t] = "check" /\ userLock'[who[t]] = t
            /\ who' = who /\ what' = what /\ gone' = gone
            /\ usedStorage' = usedStorage /\ storageBytes' = storageBytes
            /\ seen'[t] = [used |-> usedStorage[who[t]], quota |-> storageBytes[who[t]]]
        BY <2>1 DEF TypeOK
      <4> QED BY <2>1, <3>1, <4>1, <4>2 DEF Isolated
    <3>2. CASE s # t
      <4>1. \A v \in Npub : userLock[v] = s => userLock'[v] = s
        BY <2>1 DEF TypeOK
      <4>2. /\ pc'[s] = pc[s] /\ who'[s] = who[s] /\ what'[s] = what[s]
            /\ seen'[s] = seen[s] /\ gone'[s] = gone[s] /\ rowLock' = rowLock
            /\ gone[s] \subseteq Npub /\ Isolated(s)
        BY <3>2 DEF TypeOK, Isolation
      <4> QED BY <4>1, <4>2 DEF Isolated, OverQuota
    <3> QED BY <3>1, <3>2
  <2> QED BY <2>2, <2>3, <2>4 DEF Isolation
<1>3. CASE PostCheck(t)
  <2> USE <1>3 DEF PostCheck, dbVars, lockVars
  <2>1. TypeOK'
    BY DEF TypeOK, Label
  <2>2. Accounting'
    BY AccountingKept
  <2>3. ASSUME NEW s \in Tx PROVE Isolated(s)'
    <3>1. UNCHANGED <<blob, usedStorage, storageBytes, userLock, rowLock, who, what, seen, gone>> /\ Isolated(s)
      BY DEF Isolation
    <3>2. CASE s = t
      <4>1. pc'[t] = "insert" /\ gone[t] = {}
        BY <3>1, <3>2 DEF TypeOK, Isolated
      <4> QED  BY <3>1, <3>2, <4>1 DEF Isolated, OverQuota
    <3>3. CASE s # t
      <4>1. pc'[s] = pc[s]
        BY <3>3 DEF TypeOK
      <4> QED  BY <3>1, <4>1 DEF Isolated, OverQuota
    <3> QED  BY <3>2, <3>3
  <2> QED BY <2>1, <2>2, <2>3 DEF Isolation
<1>4. CASE PostCommit(t)
  <2> DEFINE u == who[t]
             h == what[t]
  <2> USE <1>4 DEF PostCommit, Finish, Unlocked
  <2>1. /\ u \in Npub /\ h \in Hash /\ userLock[u] = t
        /\ <<u, h>> \notin blob /\ SizeOf[h] \in Nat
    BY DEF Isolation, Isolated
  <2>2. TypeOK'
    BY <2>1, SMT DEF TypeOK, Label, Row, Answer
  <2>3. Accounting'
    <3> SUFFICES ASSUME NEW v \in Npub
                 PROVE  usedStorage'[v] = Cardinality(OwnedBytes(v)')
      BY DEF Accounting
    <3>1. CASE v = u
      <4>1. Blobs(v)' = Blobs(v) \cup {h} /\ h \notin Blobs(v) /\ Blobs(v) \in SUBSET Hash
        BY <2>1, <3>1 DEF Blobs
      <4>2. Cardinality(Bytes(Blobs(v) \cup {h})) = Cardinality(Bytes(Blobs(v))) + SizeOf[h]
        BY <2>1, <4>1, BytesAdd
      <4>3. OwnedBytes(v)' = Bytes(Blobs(v) \cup {h})
        BY <4>1 DEF OwnedBytes, Bytes
      <4>4. usedStorage'[v] = usedStorage[v] + SizeOf[h]
        BY <2>1, <3>1 DEF TypeOK
      <4> QED BY <4>2, <4>3, <4>4 DEF Accounting, OwnedBytes
    <3>2. CASE v # u
      <4>1. Blobs(v)' = Blobs(v)
        BY <3>2 DEF Blobs
      <4>2. OwnedBytes(v)' = OwnedBytes(v)
        BY <4>1 DEF OwnedBytes, Bytes
      <4>3. usedStorage'[v] = usedStorage[v]
        BY <3>2 DEF TypeOK
      <4> QED BY <4>2, <4>3 DEF Accounting
    <3> QED BY <3>1, <3>2
  <2>4. ASSUME NEW s \in Tx PROVE Isolated(s)'
    <3>1. CASE s = t
      BY <3>1 DEF TypeOK, Label, Isolated
    <3>2. CASE s # t
      BY <2>1, <3>2, SMT DEF TypeOK, Isolation, Isolated, OverQuota, Row
    <3> QED BY <3>1, <3>2
  <2> QED BY <2>2, <2>3, <2>4 DEF Isolation
<1> QED BY <1>1, <1>2, <1>3, <1>4 DEF Post

\* What the invariant says of another transaction carries over a step that
\* keeps its locals, its locks, the rows it locked, and what it read.
LEMMA OthersIsolated ==
    ASSUME IInv, TypeOK', NEW s \in Tx,
           pc'[s] = pc[s], who'[s] = who[s], what'[s] = what[s],
           seen'[s] = seen[s], gone'[s] = gone[s],
           \A v \in Npub : userLock[v] = s =>
               /\ userLock'[v] = s
               /\ usedStorage'[v] = usedStorage[v]
               /\ storageBytes'[v] = storageBytes[v]
               /\ \A h \in Hash : <<v, h>> \notin blob => <<v, h>> \notin blob',
           \A r \in Row : rowLock[r] = s => rowLock'[r] = s /\ (r \in blob => r \in blob')
    PROVE  Isolated(s)'
<1> USE DEF IInv
<1>1. Isolated(s) /\ gone[s] \subseteq Npub
  BY DEF TypeOK, Isolation
<1>2. pc[s] \notin {"idle", "done"} => who[s] \in Npub /\ what[s] \in Hash
  BY <1>1 DEF Isolated
<1>3. pc[s] \in {"check", "insert"} =>
        /\ userLock'[who[s]] = s
        /\ seen[s] = [used |-> usedStorage'[who[s]], quota |-> storageBytes'[who[s]]]
  BY <1>1, <1>2 DEF Isolated
<1>4. pc[s] = "insert" => <<who[s], what[s]>> \notin blob' /\ ~OverQuota(s)'
  BY <1>1, <1>2 DEF Isolated, OverQuota
<1>5. ASSUME NEW u \in gone[s]
      PROVE  /\ pc[s] \in {"row", "user", "count", "commit"}
             /\ <<u, what[s]>> \in blob'
             /\ rowLock'[<<u, what[s]>>] = s
             /\ userLock'[u] = s \/ (pc[s] = "user" /\ u = who[s])
  <2>1. pc[s] \in {"row", "user", "count", "commit"} /\ what[s] \in Hash
    BY <1>1, <1>2 DEF Isolated
  <2>2. <<u, what[s]>> \in Row /\ rowLock[<<u, what[s]>>] = s /\ <<u, what[s]>> \in blob
    BY <1>1, <2>1 DEF Isolated, Row
  <2>3. userLock[u] = s \/ (pc[s] = "user" /\ u = who[s])
    BY <1>1 DEF Isolated
  <2> QED BY <1>1, <2>1, <2>2, <2>3
<1> QED BY <1>2, <1>3, <1>4, <1>5, SMT DEF Isolated

\* Every step of a delete keeps the invariant.
LEMMA DeleteIInv ==
    ASSUME IInv, NEW t \in Tx, Delete(t)
    PROVE  IInv'
<1> USE ConstantsAssumption DEF IInv
<1>1. CASE DelRowGone(t)
  BY <1>1, RollbackIInv DEF DelRowGone, Answer
<1>2. CASE DelRow(t)
  <2> USE <1>2 DEF DelRow, dbVars
  <2>1. who[t] \in Npub /\ what[t] \in Hash /\ <<who[t], what[t]>> \in Row
    BY DEF Isolation, Isolated, Row
  <2>2. TypeOK'
    BY <2>1 DEF TypeOK, Label
  <2>3. Accounting'
    BY AccountingKept
  <2>4. ASSUME NEW s \in Tx PROVE Isolated(s)'
    <3>1. CASE s = t
      <4>1. /\ pc'[t] = "user" /\ who' = who /\ what' = what /\ blob' = blob
            /\ userLock' = userLock /\ gone'[t] = gone[t] \cup {who[t]}
            /\ gone[t] \subseteq Npub /\ rowLock'[<<who[t], what[t]>>] = t
        BY <2>1 DEF TypeOK
      <4>2. ASSUME NEW u \in gone[t]
            PROVE  /\ <<u, what[t]>> \in blob /\ userLock[u] = t
                   /\ rowLock'[<<u, what[t]>>] = t
        BY <2>1, <4>1, ZenonT(30) DEF TypeOK, Isolation, Isolated, Row
      <4> QED BY <2>1, <3>1, <4>1, <4>2 DEF Isolated
    <3>2. CASE s # t
      BY <2>1, <2>2, <3>2, OthersIsolated, SMT DEF TypeOK
    <3> QED BY <3>1, <3>2
  <2> QED BY <2>2, <2>3, <2>4 DEF Isolation
<1>3. CASE DelUser(t)
  <2> USE <1>3 DEF DelUser, dbVars
  <2>1. who[t] \in Npub /\ what[t] \in Hash
    BY DEF Isolation, Isolated
  <2>2. TypeOK'
    BY <2>1, SMTT(30) DEF TypeOK, Label
  <2>3. Accounting'
    BY AccountingKept
  <2>4. ASSUME NEW s \in Tx PROVE Isolated(s)'
    <3>1. CASE s = t
      <4>1. /\ pc'[t] \in {"row", "count"} /\ who'[t] \in Npub /\ what' = what
            /\ blob' = blob /\ rowLock' = rowLock /\ gone' = gone
            /\ gone[t] \subseteq Npub
        BY <2>1, SMT DEF TypeOK
      <4>2. ASSUME NEW u \in gone[t]
            PROVE  /\ <<u, what[t]>> \in blob /\ rowLock[<<u, what[t]>>] = t
                   /\ userLock'[u] = t
        <5>1. Isolated(t) /\ pc[t] = "user" /\ u \in Npub
          BY <4>1 DEF Isolation
        <5>2. /\ <<u, what[t]>> \in blob /\ rowLock[<<u, what[t]>>] = t
              /\ userLock[u] = t \/ u = who[t]
          BY <5>1 DEF Isolated
        <5>3. userLock' = [userLock EXCEPT ![who[t]] = t] /\ userLock \in [Npub -> Tx \cup {NoTx}]
          BY DEF TypeOK
        <5> QED BY <2>1, <5>1, <5>2, <5>3
      <4> QED BY <2>1, <3>1, <4>1, <4>2 DEF Isolated
    <3>2. CASE s # t
      BY <2>1, <2>2, <3>2, OthersIsolated, SMT DEF TypeOK
    <3> QED BY <3>1, <3>2
  <2> QED BY <2>2, <2>3, <2>4 DEF Isolation
<1>4. CASE DelCount(t)
  <2> USE <1>4 DEF DelCount, dbVars, lockVars
  <2>1. Cardinality(Owners(what[t]) \ gone[t]) \in Nat
    <3>1. Owners(what[t]) \ gone[t] \in SUBSET Npub
      BY DEF Owners
    <3> QED BY <3>1, FS_Subset, FS_CardinalityType
  <2>2. TypeOK'
    BY <2>1 DEF TypeOK, Label
  <2>3. Accounting'
    BY AccountingKept
  <2>4. ASSUME NEW s \in Tx PROVE Isolated(s)'
    BY SMT DEF TypeOK, Isolation, Isolated, OverQuota
  <2> QED BY <2>2, <2>3, <2>4 DEF Isolation
<1>5. CASE DelCommit(t)
  <2> DEFINE h == what[t]
  <2> USE <1>5 DEF DelCommit, Finish, Unlocked
  <2>1. /\ h \in Hash /\ SizeOf[h] \in Nat /\ gone[t] \subseteq Npub
        /\ \A u \in gone[t] : userLock[u] = t /\ rowLock[<<u, h>>] = t /\ h \in Blobs(u)
    <3>1. Isolated(t) /\ pc[t] = "commit" /\ gone[t] \subseteq Npub
      BY DEF TypeOK, Isolation
    <3>2. h \in Hash /\ SizeOf[h] \in Nat
      BY <3>1 DEF Isolated
    <3>3. ASSUME NEW u \in gone[t]
          PROVE  userLock[u] = t /\ rowLock[<<u, h>>] = t /\ h \in Blobs(u)
      BY <3>1, <3>2 DEF Isolated, Blobs
    <3> QED BY <3>1, <3>2, <3>3
  <2>2. ASSUME NEW v \in Npub
        PROVE  Blobs(v)' = IF v \in gone[t] THEN Blobs(v) \ {h} ELSE Blobs(v)
    BY <2>1 DEF Blobs
  <2>3. Accounting'
    <3> SUFFICES ASSUME NEW v \in Npub
                 PROVE  usedStorage'[v] = Cardinality(OwnedBytes(v)')
      BY DEF Accounting
    <3>1. CASE v \in gone[t]
      <4>1. OwnedBytes(v)' = Bytes(Blobs(v) \ {h})
        <5>1. Blobs(v)' = Blobs(v) \ {h}
          BY <2>2, <3>1
        <5> QED BY <5>1 DEF OwnedBytes, Bytes
      <4>2. Cardinality(Bytes(Blobs(v) \ {h})) = Cardinality(Bytes(Blobs(v))) - SizeOf[h]
        <5>1. Blobs(v) \in SUBSET Hash
          BY DEF Blobs
        <5> QED BY <2>1, <3>1, <5>1, BytesRemove
      <4>3. usedStorage'[v] = usedStorage[v] - SizeOf[h]
        BY <3>1
      <4> QED BY <4>1, <4>2, <4>3 DEF Accounting, OwnedBytes
    <3>2. CASE v \notin gone[t]
      <4>1. OwnedBytes(v)' = OwnedBytes(v)
        <5>1. Blobs(v)' = Blobs(v)
          BY <2>2, <3>2
        <5> QED BY <5>1 DEF OwnedBytes, Bytes
      <4> QED BY <3>2, <4>1 DEF Accounting
    <3> QED BY <3>1, <3>2
  <2>4. TypeOK'
    <3>1. usedStorage' \in [Npub -> Nat]
      <4>1. ASSUME NEW v \in Npub PROVE usedStorage'[v] \in Nat
        <5>1. Blobs(v)' \in SUBSET Hash
          BY DEF Blobs
        <5>2. IsFiniteSet(Bytes(Blobs(v)'))
          BY <5>1, BytesFinite
        <5>3. OwnedBytes(v)' = Bytes(Blobs(v)')
          BY DEF OwnedBytes, Bytes
        <5> QED BY <2>3, <5>2, <5>3, FS_CardinalityType DEF Accounting
      <4> QED BY <4>1
    <3> QED BY <3>1 DEF TypeOK, Label, Row, Answer
  <2>5. ASSUME NEW s \in Tx PROVE Isolated(s)'
    <3>1. CASE s = t
      BY <3>1 DEF TypeOK, Label, Isolated
    <3>2. CASE s # t
      <4>1. \A r \in Row : rowLock[r] = s => rowLock'[r] = s /\ (r \in blob => r \in blob')
        BY <2>1, <3>2, SMT DEF TypeOK
      <4>2. \A v \in Npub : userLock[v] = s => v \notin gone[t]
        BY <2>1, <3>2
      <4> QED BY <2>4, <3>2, <4>1, <4>2, OthersIsolated, SMT DEF TypeOK
    <3> QED BY <3>1, <3>2
  <2> QED BY <2>3, <2>4, <2>5 DEF Isolation
<1> QED BY <1>1, <1>2, <1>3, <1>4, <1>5 DEF Delete

\* Starting, answering and entitlements keep the invariant.
LEMMA OutsideIInv ==
    ASSUME IInv,
           \/ \E u \in Npub, q \in Allowance : Entitle(u, q)
           \/ \E t \in Tx : Begin(t) \/ Return(t)
    PROVE  IInv'
<1> USE ConstantsAssumption DEF IInv
<1>1. ASSUME NEW u \in Npub, NEW q \in Allowance, Entitle(u, q) PROVE IInv'
  <2> USE <1>1 DEF Entitle, lockVars, txVars
  <2>1. TypeOK'
    BY DEF TypeOK
  <2>2. Accounting'
    BY AccountingKept
  <2>3. ASSUME NEW s \in Tx PROVE Isolated(s)'
    BY <2>1, OthersIsolated DEF TypeOK
  <2> QED BY <2>1, <2>2, <2>3 DEF Isolation
<1>2. ASSUME NEW t \in Tx, NEW u \in Npub, NEW h \in Hash, PostBegin(t, u, h) PROVE IInv'
  <2> USE <1>2 DEF PostBegin, dbVars, lockVars
  <2>1. TypeOK'
    BY DEF TypeOK, Label
  <2>2. Accounting'
    BY AccountingKept
  <2>3. ASSUME NEW s \in Tx PROVE Isolated(s)'
    <3>1. CASE s = t
      <4>0. Isolated(t) /\ pc[t] = "idle" /\ gone' = gone
        BY DEF Isolation
      <4>1. gone[t] = {} /\ gone' = gone
        BY <4>0 DEF Isolated
      <4>2. pc'[t] = "lock" /\ who'[t] = u /\ what'[t] = h
        BY DEF TypeOK
      <4> QED BY <3>1, <4>1, <4>2 DEF Isolated
    <3>2. CASE s # t
      BY <2>1, <3>2, OthersIsolated DEF TypeOK
    <3> QED BY <3>1, <3>2
  <2> QED BY <2>1, <2>2, <2>3 DEF Isolation
<1>3. ASSUME NEW t \in Tx, NEW h \in Hash, NEW rows \in SUBSET Owners(h), DelFind(t, h, rows)
      PROVE  IInv'
  <2>1. CASE rows = {}
    BY <1>3, <2>1, RollbackIInv DEF DelFind, Answer
  <2>2. CASE rows # {}
    <3>1. PICK u \in rows :
            /\ pc[t] = "idle"
            /\ pc' = [pc EXCEPT ![t] = "row"]
            /\ who' = [who EXCEPT ![t] = u]
            /\ what' = [what EXCEPT ![t] = h]
            /\ todo' = [todo EXCEPT ![t] = rows \ {u}]
            /\ UNCHANGED <<dbVars, lockVars, seen, gone, left, res>>
      BY <1>3, <2>2 DEF DelFind
    <3> USE <3>1 DEF dbVars, lockVars
    <3>2. u \in Npub /\ rows \subseteq Npub
      BY DEF Owners
    <3>3. TypeOK'
      BY <3>2 DEF TypeOK, Label
    <3>4. Accounting'
      BY AccountingKept
    <3>5. ASSUME NEW s \in Tx PROVE Isolated(s)'
      <4>1. CASE s = t
        <5>0. Isolated(t) /\ pc[t] = "idle" /\ gone' = gone
          BY DEF Isolation
        <5>1. gone[t] = {} /\ gone' = gone
          BY <5>0 DEF Isolated
        <5>2. pc'[t] = "row" /\ who'[t] = u /\ what'[t] = h
          BY DEF TypeOK
        <5> QED BY <3>2, <4>1, <5>1, <5>2 DEF Isolated
      <4>2. CASE s # t
        BY <3>3, <4>2, OthersIsolated DEF TypeOK
      <4> QED BY <4>1, <4>2
    <3> QED BY <3>3, <3>4, <3>5 DEF Isolation
  <2> QED BY <2>1, <2>2
<1>4. ASSUME NEW t \in Tx, Begin(t) PROVE IInv'
  BY <1>2, <1>3, <1>4 DEF Begin, DelFindOne, DelFindAll
<1>5. ASSUME NEW t \in Tx, Return(t) PROVE IInv'
  <2> USE <1>5 DEF Return, dbVars, lockVars
  <2>1. TypeOK'
    BY DEF TypeOK, Label, Answer
  <2>2. Accounting'
    BY AccountingKept
  <2>3. ASSUME NEW s \in Tx PROVE Isolated(s)'
    BY SMT DEF TypeOK, Isolation, Isolated, OverQuota
  <2> QED BY <2>1, <2>2, <2>3 DEF Isolation
<1> QED BY <1>1, <1>4, <1>5

LEMMA NextIInv == IInv /\ [Next]_ledgerVars => IInv'
<1> SUFFICES ASSUME IInv, [Next]_ledgerVars PROVE IInv'
  OBVIOUS
<1>1. CASE UNCHANGED ledgerVars
  <2> USE <1>1 DEF ledgerVars, dbVars, lockVars, txVars, IInv
  <2>1. TypeOK'
    BY DEF TypeOK
  <2>2. Accounting'
    BY AccountingKept
  <2>3. Isolation'
    BY SMT DEF Isolation, Isolated, OverQuota
  <2> QED BY <2>1, <2>2, <2>3
<1>2. ASSUME NEW t \in Tx, Step(t) \/ Abort(t) PROVE IInv'
  BY <1>2, PostIInv, DeleteIInv, RollbackIInv DEF Step, Abort, DeadlockVictim, Answer
<1>3. ASSUME NEW t \in Tx, Begin(t) \/ Return(t) PROVE IInv'
  BY <1>3, OutsideIInv
<1>4. ASSUME NEW u \in Npub, NEW q \in Allowance, Entitle(u, q) PROVE IInv'
  BY <1>4, OutsideIInv
<1> QED BY <1>1, <1>2, <1>3, <1>4 DEF Next

-----------------------------------------------------------------------------
(* The theorems *)

\* Whatever transactions of POST /blobs, DELETE /blobs/:hash and the
\* entitlement route overlap, abort or deadlock, used_storage of every account
\* is the sum of the sizes of the blobs it owns, in every committed state.
THEOREM LedgerAccounting == Spec => []Accounting
<1>1. IInv => Accounting
  BY DEF IInv
<1> QED BY <1>1, InitIInv, NextIInv, PTL DEF Spec

\* The state stays well-formed; in particular used_storage, which is only ever
\* incremented and decremented, never becomes negative.
THEOREM LedgerTypes == Spec => []TypeOK
<1>1. IInv => TypeOK
  BY DEF IInv
<1> QED BY <1>1, InitIInv, NextIInv, PTL DEF Spec

\* What a transaction has read under its locks, and the rows it has taken, stay
\* as they are until it ends.
THEOREM LedgerIsolation == Spec => []Isolation
<1>1. IInv => Isolation
  BY DEF IInv
<1> QED BY <1>1, InitIInv, NextIInv, PTL DEF Spec

\* Every step of the database is a step of the promised ledger or changes
\* nothing that the ledger's users can see.
LEMMA StepPromised ==
    IInv /\ [Next]_ledgerVars => [Promise!Next]_<<blob, storageBytes>>
<1> SUFFICES ASSUME IInv, [Next]_ledgerVars
             PROVE  Promise!Next \/ UNCHANGED <<blob, storageBytes>>
  OBVIOUS
<1> USE ConstantsAssumption DEF IInv
<1>1. CASE UNCHANGED ledgerVars
  BY <1>1 DEF ledgerVars, dbVars
<1>2. ASSUME NEW u \in Npub, NEW q \in Allowance, Entitle(u, q) PROVE Promise!Next
  BY <1>2 DEF Entitle, Promise!Next, Promise!SetAllowance
<1>3. ASSUME NEW t \in Tx, PostCommit(t) PROVE Promise!Next
  <2> DEFINE u == who[t]
             h == what[t]
  <2>1. Isolated(t) /\ pc[t] = "insert"
    BY <1>3 DEF PostCommit, Isolation
  <2>2. /\ u \in Npub /\ h \in Hash /\ <<u, h>> \notin blob
        /\ storageBytes[u] = NULL \/ ~(usedStorage[u] + SizeOf[h] > storageBytes[u])
    BY <2>1, SMT DEF Isolated, OverQuota
  <2>3. /\ usedStorage[u] \in Nat /\ SizeOf[h] \in Nat
        /\ storageBytes[u] \in Nat \cup {NULL}
    BY <2>2 DEF TypeOK
  <2>4. storageBytes[u] = NULL \/ usedStorage[u] + SizeOf[h] <= storageBytes[u]
    BY <2>2, <2>3, SMT
  <2>5. Promise!Billed(u) = usedStorage[u]
    <3>1. Promise!Owned(u) = Blobs(u)
      BY DEF Promise!Owned, Blobs
    <3>2. \A S : Promise!Cardinality(S) = Cardinality(S)
      BY DEF Promise!Cardinality, Cardinality, Promise!IsFiniteSet, IsFiniteSet
    <3>3. Promise!Billed(u) = Promise!Cardinality(Bytes(Blobs(u)))
      BY <3>1 DEF Promise!Billed, Bytes
    <3> QED BY <2>2, <3>2, <3>3 DEF Accounting, OwnedBytes
  <2>6. Promise!Claim(u, h)
    BY <1>3, <2>2, <2>4, <2>5 DEF Promise!Claim, Promise!Owned, PostCommit
  <2> QED BY <2>2, <2>6 DEF Promise!Next
<1>4. ASSUME NEW t \in Tx, DelCommit(t) PROVE Promise!Next
  <2>1. Isolated(t) /\ pc[t] = "commit" /\ gone[t] \in SUBSET Npub
    BY <1>4 DEF DelCommit, Isolation, TypeOK
  <2>2. what[t] \in Hash
    BY <2>1 DEF Isolated
  <2>3. Promise!Release(gone[t], what[t])
    BY <1>4, <2>1, <2>2 DEF Promise!Release, Promise!Owned, DelCommit, Isolated
  <2> QED BY <2>1, <2>2, <2>3 DEF Promise!Next
<1>5. ASSUME NEW t \in Tx, NEW a, Rollback(t, a) PROVE UNCHANGED <<blob, storageBytes>>
  BY <1>5 DEF Rollback, dbVars
<1>6. ASSUME NEW t \in Tx, Post(t) PROVE PostCommit(t) \/ UNCHANGED <<blob, storageBytes>>
  BY <1>5, <1>6 DEF Post, PostNoUser, PostLock, PostDuplicate, PostOverQuota, PostCheck, dbVars
<1>7. ASSUME NEW t \in Tx, Delete(t) PROVE DelCommit(t) \/ UNCHANGED <<blob, storageBytes>>
  BY <1>5, <1>7 DEF Delete, DelRow, DelRowGone, DelUser, DelCount, dbVars
<1>8. ASSUME NEW t \in Tx, DeadlockVictim(t) \/ Abort(t) PROVE UNCHANGED <<blob, storageBytes>>
  BY <1>5, <1>8 DEF DeadlockVictim, Abort
<1>9. ASSUME NEW t \in Tx, Begin(t) \/ Return(t) PROVE UNCHANGED <<blob, storageBytes>>
  BY <1>5, <1>9 DEF Begin, PostBegin, DelFindOne, DelFindAll, DelFind, Return, dbVars
<1> QED BY <1>1, <1>2, <1>3, <1>4, <1>6, <1>7, <1>8, <1>9 DEF Next, Step

\* The transactions implement the promised ledger: a blob is claimed only within
\* the allowance in force at the commit, counted over what the account really
\* owns, and only rows that are there are released.
THEOREM LedgerRefinement == Spec => ImplementsLedger
<1>1. Init => Promise!Init
  BY DEF Init, Promise!Init
<1> QED BY <1>1, InitIInv, NextIInv, StepPromised, PTL DEF Spec, ImplementsLedger, Promise!Spec

-----------------------------------------------------------------------------
(* BlobStore: what is true of a request at each of its awaits.             *)

Await == {"idle", "put", "call", "undo", "remove", "list", "next", "erase", "audit"}
Removal == {"delete", "moderate", "purge"}

StoreTypeOK ==
    /\ stored \in SUBSET (Node \X Hash)
    /\ replicas \in [Row -> SUBSET Node]
    /\ rpc \in [Tx -> Await]
    /\ job \in [Tx -> Removal \cup {"upload", NULL}]
    /\ by \in [Tx -> Npub \cup {NULL}]
    /\ on \in [Tx -> Hash \cup {NULL}]
    /\ reps \in [Tx -> SUBSET Node]
    /\ cand \in [Tx -> SUBSET Node]
    /\ fresh \in [Tx -> BOOLEAN]
    /\ batch \in [Tx -> SUBSET (Hash \X SUBSET Node)]
    /\ owed \in [Tx -> SUBSET Npub]
    /\ unaudited \in SUBSET Row

\* Which route awaits what, with which locals, and what its transaction does
\* in the meantime.
Shape(t) ==
    /\ rpc[t] = "idle" => /\ on[t] = NULL /\ batch[t] = {} /\ job[t] = NULL
                          /\ reps[t] = {} /\ fresh[t] = FALSE
    /\ rpc[t] \in {"put", "call", "undo", "remove", "erase", "audit"} => on[t] \in Hash
    /\ rpc[t] \in {"put", "undo"} => job[t] = "upload" /\ fresh[t] = TRUE
    /\ rpc[t] = "remove" => job[t] \in Removal
    /\ rpc[t] = "call" => job[t] \in Removal \cup {"upload"}
    /\ rpc[t] = "audit" => job[t] = "moderate"
    /\ rpc[t] \in {"list", "next"} => job[t] = "purge" /\ on[t] = NULL
    /\ job[t] \in {"upload", "delete", "purge"} => by[t] \in Npub
    /\ batch[t] # {} => job[t] = "purge"
    /\ job[t] \in {"delete", "moderate"} => rpc[t] \in {"remove", "call", "erase", "audit"}
    /\ rpc[t] # "call" => pc[t] = "idle"
    /\ rpc[t] = "call" =>
         IF job[t] = "upload"
         THEN pc[t] \in {"lock", "check", "insert", "done"}
         ELSE pc[t] \in {"row", "user", "count", "commit", "done"}
    /\ pc[t] \in {"lock", "check", "insert"} => who[t] = by[t]
    /\ pc[t] \notin {"idle", "done"} => what[t] = on[t]
    /\ pc[t] = "user" => who[t] \in gone[t]
    /\ pc[t] \in {"count", "commit"} => todo[t] = {}

Shapes == \A t \in Tx : Shape(t)

\* The histories have recorded every overlap there is.
Recorded == Contended \subseteq overlapped /\ Racing \subseteq raced

Base == IInv /\ StoreTypeOK /\ Shapes /\ Recorded

\* Rows of a hash that nothing raced name nodes that have it.
RowsBacked ==
    \A u \in Npub, h \in Hash : <<u, h>> \in blob /\ h \notin raced =>
        /\ replicas[<<u, h>>] # {}
        /\ replicas[<<u, h>>] \X {h} \subseteq stored

\* What a request may rely on: an upload on the copies it names, an erasure on
\* there being no owner, and a delete on no owner being left when it says so.
Relies(t) ==
    on[t] \in Hash \ raced =>
        /\ job[t] = "upload" /\ rpc[t] \in {"put", "call"} =>
             reps[t] \X {on[t]} \subseteq stored /\ (rpc[t] = "call" => reps[t] # {})
        /\ rpc[t] = "erase" => Owners(on[t]) = {}
        /\ job[t] \in Removal /\ pc[t] = "commit" /\ left[t] = 0 => Owners(on[t]) \subseteq gone[t]
        /\ job[t] = "moderate" =>
             /\ pc[t] = "row" => Owners(on[t]) \subseteq gone[t] \cup todo[t] \cup {who[t]}
             /\ pc[t] = "user" => Owners(on[t]) \subseteq gone[t] \cup todo[t]
             /\ pc[t] \in {"count", "commit"} => Owners(on[t]) \subseteq gone[t]
        /\ job[t] \in Removal /\ pc[t] = "done" /\ res[t] = "ok" /\ (left[t] = 0 \/ job[t] = "moderate")
             => Owners(on[t]) = {}

SurviveInv == RowsBacked /\ \A t \in Tx : Relies(t)

-----------------------------------------------------------------------------
(* Frame: a request changes its own locals and its own transaction.        *)

RequestSame(s) ==
    /\ rpc'[s] = rpc[s] /\ job'[s] = job[s] /\ by'[s] = by[s] /\ on'[s] = on[s]
    /\ reps'[s] = reps[s] /\ cand'[s] = cand[s] /\ fresh'[s] = fresh[s]
    /\ batch'[s] = batch[s] /\ owed'[s] = owed[s]
TransactionSame(s) ==
    /\ pc'[s] = pc[s] /\ who'[s] = who[s] /\ what'[s] = what[s] /\ todo'[s] = todo[s]
    /\ gone'[s] = gone[s] /\ left'[s] = left[s] /\ res'[s] = res[s]
Same(s) == RequestSame(s) /\ TransactionSame(s)
Elsewhere(t) == \A s \in Tx \ {t} : Same(s)

Types == TypeOK /\ StoreTypeOK

\* The part of the ledger that an action of request t uses.
UsesLedger(t) ==
    \/ Step(t) \/ Abort(t) \/ Return(t) \/ UNCHANGED ledgerVars
    \/ \E u, h : PostBegin(t, u, h)
    \/ \E h, R : DelFind(t, h, R)

\* What a transaction of t does to the locals of the transactions.
LEMMA TransactionsFrame ==
    ASSUME TypeOK, NEW t \in Tx, UsesLedger(t)
    PROVE  \A s \in Tx \ {t} : TransactionSame(s)
<1>1. CASE Post(t)
  BY <1>1 DEF Post, PostNoUser, PostLock, PostDuplicate, PostOverQuota, PostCheck, PostCommit, TypeOK,
     TransactionSame, Rollback, Finish
<1>2. CASE Delete(t)
  BY <1>2, ZenonT(30) DEF Delete, DelRow, DelRowGone, DelUser, DelCount, DelCommit, TypeOK, TransactionSame, Rollback,
     Finish
<1>3. CASE DeadlockVictim(t) \/ Abort(t)
  BY <1>3 DEF DeadlockVictim, Abort, TypeOK, TransactionSame, Rollback, Finish
<1>4. CASE Return(t) \/ UNCHANGED ledgerVars
  BY <1>4 DEF Return, ledgerVars, TypeOK, TransactionSame, txVars
<1>5. CASE \E u, h : PostBegin(t, u, h)
  BY <1>5, SMT DEF PostBegin, TransactionSame
<1>6. CASE \E h, R : DelFind(t, h, R)
  BY <1>6, SMT DEF DelFind, TypeOK, TransactionSame, Rollback, Finish
<1> QED  BY <1>1, <1>2, <1>3, <1>4, <1>5, <1>6 DEF Step, UsesLedger

LEMMA RespondFrame ==
    ASSUME StoreTypeOK, NEW t \in Tx, Respond(t)
    PROVE  \A s \in Tx \ {t} : RequestSame(s)
BY DEF StoreTypeOK, RequestSame, Respond, Goto, Set

\* An action of t leaves the locals of the other requests alone.
LEMMA StartsFrame ==
    ASSUME StoreTypeOK, NEW t \in Tx, Starts(t)
    PROVE  UsesLedger(t) /\ \A s \in Tx \ {t} : RequestSame(s)
<1>1. ASSUME NEW u \in Npub, NEW h \in Hash, UploadReuse(t, u, h)
      PROVE  UsesLedger(t) /\ \A s \in Tx \ {t} : RequestSame(s)
  BY <1>1, SMT DEF UploadReuse, UploadStarts, RequestSame, Goto, Set, Receive, UsesLedger
<1>2. ASSUME NEW u \in Npub, NEW h \in Hash, UploadStore(t, u, h)
      PROVE  UsesLedger(t) /\ \A s \in Tx \ {t} : RequestSame(s)
  BY <1>2, SMT DEF UploadStore, UploadStarts, RequestSame, Goto, Set, Receive, UsesLedger
<1>3. ASSUME NEW u \in Npub, NEW h \in Hash, DeleteStarts(t, u, h), DeleteLookup(t, h, {})
      PROVE  UsesLedger(t) /\ \A s \in Tx \ {t} : RequestSame(s)
  BY <1>3, SMT DEF DeleteStarts, DeleteLookup, RequestSame, Goto, Set, Receive, UsesLedger
<1>4. ASSUME NEW h \in Hash, ModerateStarts(t, h), DeleteLookup(t, h, Owners(h))
      PROVE  UsesLedger(t) /\ \A s \in Tx \ {t} : RequestSame(s)
  BY <1>4, SMT DEF ModerateStarts, DeleteLookup, RequestSame, Goto, Set, Receive, UsesLedger
<1>5. ASSUME NEW u \in Npub, PurgeStarts(t, u)
      PROVE  UsesLedger(t) /\ \A s \in Tx \ {t} : RequestSame(s)
  BY <1>5, SMT DEF PurgeStarts, RequestSame, Goto, Set, Receive, UsesLedger
<1> QED  BY <1>1, <1>2, <1>3, <1>4, <1>5 DEF Starts

LEMMA ActsFrame ==
    ASSUME StoreTypeOK, NEW t \in Tx, Progress(t) \/ Disturb(t) \/ UndoBlind(t)
    PROVE  UsesLedger(t) /\ \A s \in Tx \ {t} : RequestSame(s)
<1> DEFINE Goal == UsesLedger(t) /\ \A s \in Tx \ {t} : RequestSame(s)
<1>1. CASE Put(t) \/ PutFails(t)
  <2>1. PICK n, R : PutNext(t, n, R)
    BY <1>1 DEF Put, PutFails
  <2>2. CASE Respond(t) /\ UNCHANGED ledgerVars
    BY <2>2, RespondFrame DEF UsesLedger
  <2>3. CASE ~(Respond(t) /\ UNCHANGED ledgerVars)
    BY <2>1, <2>3 DEF PutNext, UsesLedger, RequestSame, StoreTypeOK, Goto, Set
  <2> QED  BY <2>2, <2>3
<1>2. CASE Undo(t) \/ UndoBlind(t)
  <2>1. CASE Respond(t)
    BY <1>2, <2>1, RespondFrame DEF Undo, UndoBlind, UsesLedger
  <2>2. CASE ~Respond(t)
    BY <1>2, <2>2 DEF Undo, UndoBlind, UsesLedger, RequestSame, StoreTypeOK, Goto, Set
  <2> QED  BY <2>1, <2>2
<1>3. CASE Remove(t)
  BY <1>3, SMT DEF Remove, DelFindAll, DelFindOne, UsesLedger, RequestSame, Goto
<1>4. CASE PurgeList(t)
  <2>1. CASE Respond(t)
    BY <1>4, <2>1, RespondFrame DEF PurgeList, UsesLedger
  <2>2. CASE ~Respond(t)
    BY <1>4, <2>2 DEF PurgeList, UsesLedger, RequestSame, StoreTypeOK, Goto, Set
  <2> QED  BY <2>1, <2>2
<1>5. CASE PurgeNext(t)
  BY <1>5, SMT DEF PurgeNext, UsesLedger, RequestSame, Goto, Set
<1>6. CASE Erase(t) \/ EraseFails(t)
  <2>1. PICK n : EraseNext(t, n)
    BY <1>6 DEF Erase, EraseFails
  <2>2. UNCHANGED ledgerVars
    BY <1>6 DEF Erase, EraseFails
  <2>3. CASE Respond(t)
    BY <2>2, <2>3, RespondFrame DEF UsesLedger
  <2>4. CASE ~Respond(t)
    BY <2>1, <2>2, <2>4 DEF EraseNext, PurgeOn, UsesLedger, RequestSame, StoreTypeOK, Goto, Set
  <2> QED  BY <2>3, <2>4
<1>7. CASE Audit(t)
  <2>1. CASE Respond(t)
    BY <1>7, <2>1, RespondFrame DEF Audit, UsesLedger
  <2>2. CASE ~Respond(t)
    BY <1>7, <2>2 DEF Audit, UsesLedger, RequestSame, StoreTypeOK, Set
  <2> QED  BY <2>1, <2>2
<1>8. CASE Answered(t) \/ AnswerLost(t)
  <2>1. PICK a : Hears(t, a)
    BY <1>8 DEF Answered, AnswerLost
  <2>2. CASE Respond(t)
    BY <2>1, <2>2, RespondFrame DEF Hears, UsesLedger
  <2>3. CASE ~Respond(t)
    BY <2>1, <2>3 DEF Hears, UploadHears, DeleteHears, ModerateHears, PurgeHears, EraseNow, PurgeOn,
       UsesLedger, RequestSame, StoreTypeOK, Goto, Set
  <2> QED  BY <2>2, <2>3
<1>9. CASE LedgerStep(t) \/ LedgerAbort(t)
  BY <1>9 DEF LedgerStep, LedgerAbort, RowsWritten, reqVars, UsesLedger, RequestSame
<1>10. CASE Crash(t)
  BY <1>10, RespondFrame DEF Crash, UsesLedger
<1> QED  BY <1>1, <1>2, <1>3, <1>4, <1>5, <1>6, <1>7, <1>8, <1>9, <1>10 DEF Progress, Disturb

\* No action of t touches the locals of another request or its transaction.
LEMMA Frame ==
    ASSUME Types, NEW t \in Tx, Starts(t) \/ Progress(t) \/ Disturb(t) \/ UndoBlind(t)
    PROVE  Elsewhere(t)
<1>1. UsesLedger(t) /\ \A s \in Tx \ {t} : RequestSame(s)
  BY StartsFrame, ActsFrame DEF Types
<1>2. \A s \in Tx \ {t} : TransactionSame(s)
  BY <1>1, TransactionsFrame DEF Types
<1> QED  BY <1>1, <1>2 DEF Elsewhere, Same

-----------------------------------------------------------------------------
(* Which route awaits what.                                                *)

\* Every action's effect on the shape of its own request.
Fits(t) == StoreTypeOK' /\ Shape(t)'

LEMMA RespondFits ==
    ASSUME Base, NEW t \in Tx, Respond(t), pc'[t] = "idle",
           stored' \in SUBSET (Node \X Hash), UNCHANGED replicas, unaudited' \in SUBSET Row
    PROVE  Fits(t)
<1>1. StoreTypeOK'
  BY DEF Await, Base, StoreTypeOK, Respond, Goto, Set
<1>2. Shape(t)'
  BY StoreAssumption DEF Shape, Base, StoreTypeOK, Respond, Goto, Set
<1> QED  BY <1>1, <1>2 DEF Fits

LEMMA UploadStartsFit ==
    ASSUME Base, NEW t \in Tx, NEW u \in Npub, NEW h \in Hash,
           UploadReuse(t, u, h) \/ UploadStore(t, u, h)
    PROVE  Fits(t)
<1>1. CASE UploadReuse(t, u, h)
  <2>1. \A v \in Owners(h) : <<v, h>> \in Row
    BY DEF Owners, Row
  <2>2. StoreTypeOK'
    BY <1>1, <2>1 DEF Await, Base, IInv, StoreTypeOK, UploadStarts, Receive, Goto, Set, UploadReuse
  <2>3. /\ rpc[t] = "idle" /\ rpc'[t] = "call" /\ job'[t] = "upload" /\ by'[t] = u /\ on'[t] = h
        /\ pc'[t] = "lock" /\ who'[t] = u /\ what'[t] = h
        /\ batch' = batch
    BY <1>1 DEF Base, IInv, TypeOK, StoreTypeOK, UploadReuse, UploadStarts, Receive, Goto, Set, PostBegin
  <2>4. batch'[t] = {}
    BY <2>3 DEF Base, Shapes, Shape
  <2>5. Shape(t)'
    BY <2>3, <2>4 DEF Shape, Removal
  <2> QED  BY <2>2, <2>5 DEF Fits
<1>2. CASE UploadStore(t, u, h)
  <2>1. StoreTypeOK'
    BY <1>2, SMT DEF Await, Base, StoreTypeOK, UploadStarts, Receive, Goto, Set, UploadStore
  <2>2. /\ rpc[t] = "idle" /\ rpc'[t] = "put" /\ job'[t] = "upload" /\ by'[t] = u /\ on'[t] = h
        /\ fresh'[t] = TRUE /\ UNCHANGED <<batch, pc>>
    BY <1>2 DEF Base, StoreTypeOK, UploadStore, UploadStarts, Receive, Goto, Set, ledgerVars, txVars
  <2>3. pc[t] = "idle" /\ batch[t] = {}
    BY <2>2 DEF Base, Shapes, Shape
  <2>4. Shape(t)'
    BY <2>2, <2>3 DEF Shape
  <2> QED  BY <2>1, <2>4 DEF Fits
<1> QED  BY <1>1, <1>2

LEMMA RemovalStartsFit ==
    ASSUME Base, NEW t \in Tx, NEW h \in Hash,
           \/ \E u \in Npub : DeleteStarts(t, u, h) /\ DeleteLookup(t, h, {})
           \/ ModerateStarts(t, h) /\ DeleteLookup(t, h, Owners(h))
    PROVE  Fits(t)
<1>1. (\A v \in Owners(h) : <<v, h>> \in Row) /\ Owners(h) \subseteq Npub
  BY DEF Owners, Row
<1>2. StoreTypeOK'
  <2>1. /\ rpc' = [rpc EXCEPT ![t] = "remove"] /\ on' = [on EXCEPT ![t] = h]
        /\ \E j \in Removal : job' = [job EXCEPT ![t] = j]
        /\ \E u \in Npub \cup {NULL} : by' = [by EXCEPT ![t] = u]
        /\ UNCHANGED <<stored, replicas, unaudited, cand, fresh, batch>>
    BY DEF Removal, DeleteStarts, ModerateStarts, DeleteLookup, Receive, Goto, Set
  <2>2. \E R \in SUBSET Node : reps' = [reps EXCEPT ![t] = R]
    BY <1>1 DEF Base, StoreTypeOK, DeleteLookup, Set
  <2>3. \E S \in SUBSET Npub : owed' = [owed EXCEPT ![t] = S]
    BY <1>1 DEF DeleteLookup, Set
  <2> QED  BY <2>1, <2>2, <2>3, SMT DEF Await, Base, StoreTypeOK
<1>3. Shape(t)'
  BY ZenonT(30) DEF Shapes, Shape, Removal, Base, StoreTypeOK, DeleteStarts, ModerateStarts, DeleteLookup, Receive, Goto,
     Set, ledgerVars, txVars
<1> QED  BY <1>2, <1>3 DEF Fits

LEMMA PageTyped ==
    ASSUME Base, NEW u \in Npub
    PROVE  Page(u) \in SUBSET (Hash \X SUBSET Node)
<1>1. \A h \in Blobs(u) : h \in Hash /\ <<u, h>> \in Row
  BY DEF Blobs, Row
<1>2. \A h \in Blobs(u) : replicas[<<u, h>>] \in SUBSET Node
  BY <1>1 DEF Base, StoreTypeOK
<1> SUFFICES ASSUME NEW b \in Page(u)
             PROVE  b \in Hash \X SUBSET Node
  OBVIOUS
<1>3. PICK h \in Blobs(u) : b = <<h, replicas[<<u, h>>]>>
  BY DEF Page
<1> QED  BY <1>1, <1>2, <1>3

LEMMA PurgeStartsFits ==
    ASSUME Base, NEW t \in Tx, NEW u \in Npub, PurgeStarts(t, u)
    PROVE  Fits(t)
<1>1. StoreTypeOK'
  BY PageTyped DEF Await, Removal, Base, StoreTypeOK, PurgeStarts, Receive, Goto, Set
<1>2. Shape(t)'
  BY DEF Shapes, Shape, Removal, Base, StoreTypeOK, PurgeStarts, Receive, Goto, Set, ledgerVars, txVars
<1> QED  BY <1>1, <1>2 DEF Fits

LEMMA PutFits ==
    ASSUME Base, NEW t \in Tx, Put(t) \/ PutFails(t)
    PROVE  Fits(t)
<1>1. /\ rpc[t] = "put" /\ on[t] \in Hash /\ by[t] \in Npub /\ pc[t] = "idle"
      /\ job[t] = "upload" /\ fresh[t] = TRUE /\ batch[t] = {}
  BY DEF Put, PutFails, Shapes, Shape, Base
<1>2. stored' \in SUBSET (Node \X Hash) /\ UNCHANGED <<replicas, unaudited>>
  <2>1. \A n \in cand[t] : <<n, on[t]>> \in Node \X Hash
    BY <1>1 DEF StoreTypeOK, Base
  <2>2. stored \in SUBSET (Node \X Hash)
    BY DEF StoreTypeOK, Base
  <2> QED  BY <2>1, <2>2 DEF Put, PutFails
<1>3. PICK n \in cand[t], R \in SUBSET Node : PutNext(t, n, R)
  BY DEF Put, PutFails, StoreTypeOK, Base
<1>4. CASE cand[t] # {n} /\ Cardinality(R) < ReplicaCount
  <2>1. StoreTypeOK'
    BY <1>2, <1>3, <1>4, SMT DEF PutNext, StoreTypeOK, Base, Set
  <2>2. Shape(t)'
    BY <1>1, <1>3, <1>4 DEF PutNext, Shapes, Shape, ledgerVars, txVars
  <2> QED  BY <2>1, <2>2 DEF Fits
<1>5. CASE Respond(t) /\ UNCHANGED ledgerVars
  BY <1>1, <1>2, <1>5, RespondFits DEF ledgerVars, txVars, StoreTypeOK, Base
<1>6. CASE /\ reps' = Set(reps, t, R) /\ cand' = Set(cand, t, {})
           /\ PostBegin(t, by[t], on[t]) /\ Goto(t, "call")
           /\ UNCHANGED <<job, by, on, fresh, batch, owed>>
  <2>1. StoreTypeOK'
    BY <1>2, <1>6 DEF StoreTypeOK, Await, Base, Goto, Set
  <2>2. /\ rpc'[t] = "call" /\ pc'[t] = "lock" /\ who'[t] = by[t] /\ what'[t] = on[t]
        /\ UNCHANGED <<job, by, on, batch>>
    BY <1>6 DEF PostBegin, StoreTypeOK, IInv, TypeOK, Base, Goto
  <2>3. Shape(t)'
    BY <1>1, <2>2 DEF Shape
  <2> QED  BY <2>1, <2>3 DEF Fits
<1> QED  BY <1>3, <1>4, <1>5, <1>6 DEF PutNext

\* The bytes are given up: the replicas are the nodes still to be asked.
LEMMA EraseNowFits ==
    ASSUME Base, NEW t \in Tx, EraseNow(t), pc'[t] = "idle", rpc[t] \in {"call", "undo"},
           UNCHANGED <<stored, replicas, unaudited>>
    PROVE  Fits(t)
<1>1. StoreTypeOK'
  BY DEF Await, Base, StoreTypeOK, EraseNow, Goto, Set
<1>2. Shape(t)'
  BY DEF Shapes, Shape, Removal, Base, StoreTypeOK, EraseNow, Goto
<1> QED  BY <1>1, <1>2 DEF Fits

LEMMA UndoFits ==
    ASSUME Base, NEW t \in Tx, Undo(t) \/ UndoBlind(t)
    PROVE  Fits(t)
<1>1. rpc[t] = "undo" /\ pc[t] = "idle"
  BY DEF Undo, UndoBlind, Base, Shapes, Shape
<1>2. UNCHANGED <<stored, replicas, unaudited>> /\ pc'[t] = "idle"
  BY <1>1 DEF Undo, UndoBlind, ledgerVars, txVars
<1>3. Respond(t) \/ EraseNow(t)
  BY DEF Undo, UndoBlind, EraseNow
<1>4. stored' \in SUBSET (Node \X Hash) /\ unaudited' \in SUBSET Row
  BY <1>2 DEF Base, StoreTypeOK
<1> QED  BY <1>1, <1>2, <1>3, <1>4, RespondFits, EraseNowFits

LEMMA RemoveFits ==
    ASSUME Base, NEW t \in Tx, Remove(t)
    PROVE  Fits(t)
<1>1. rpc[t] = "remove" /\ on[t] \in Hash /\ job[t] \in Removal
  BY DEF Remove, Shapes, Shape, Base
<1>2. PICK R \in SUBSET Npub : DelFind(t, on[t], R)
  BY DEF Remove, DelFindAll, DelFindOne, Owners
<1>3. StoreTypeOK'
  BY DEF Remove, StoreTypeOK, Await, Base, Goto
<1>4. \/ pc'[t] = "done"
      \/ pc'[t] = "row" /\ what'[t] = on[t]
  BY <1>2 DEF DelFind, Rollback, Finish, IInv, TypeOK, Base
<1>5. rpc'[t] = "call" /\ UNCHANGED <<job, by, on, batch, fresh>>
  BY DEF Remove, StoreTypeOK, Base, Goto
<1>6. Shape(t)'
  BY <1>1, <1>4, <1>5 DEF Shapes, Shape, Removal, Base
<1> QED  BY <1>3, <1>6 DEF Fits

LEMMA PurgeListFits ==
    ASSUME Base, NEW t \in Tx, PurgeList(t)
    PROVE  Fits(t)
<1>1. rpc[t] = "list" /\ by[t] \in Npub /\ job[t] = "purge" /\ pc[t] = "idle" /\ on[t] = NULL
  BY DEF PurgeList, Shapes, Shape, Base
<1>2. UNCHANGED <<stored, replicas, unaudited>> /\ pc'[t] = "idle"
  BY <1>1 DEF PurgeList, ledgerVars, txVars
<1>3. CASE Respond(t)
  BY <1>2, <1>3, RespondFits DEF Base, StoreTypeOK
<1>4. CASE ~Respond(t)
  <2>1. /\ batch' = [batch EXCEPT ![t] = Page(by[t])] /\ rpc' = [rpc EXCEPT ![t] = "next"]
        /\ UNCHANGED <<job, by, on, reps, cand, fresh, owed>>
    BY <1>4 DEF PurgeList, Goto, Set
  <2>2. StoreTypeOK'
    BY <1>1, <1>2, <2>1, PageTyped DEF Await, Base, StoreTypeOK
  <2>3. Shape(t)'
    BY <1>1, <1>2, <2>1, SMT DEF Shape
  <2> QED  BY <2>2, <2>3 DEF Fits
<1> QED  BY <1>3, <1>4

LEMMA PurgeNextFits ==
    ASSUME Base, NEW t \in Tx, PurgeNext(t)
    PROVE  Fits(t)
<1>1. rpc[t] = "next" /\ by[t] \in Npub /\ job[t] = "purge" /\ pc[t] = "idle"
  BY DEF PurgeNext, Shapes, Shape, Base
<1>2. PICK b \in batch[t] : /\ on' = [on EXCEPT ![t] = b[1]] /\ reps' = [reps EXCEPT ![t] = b[2]]
                            /\ batch' = [batch EXCEPT ![t] = batch[t] \ {b}]
  BY DEF PurgeNext, Set
<1>3. b[1] \in Hash /\ b[2] \in SUBSET Node
  BY SMT DEF Base, StoreTypeOK
<1>4. /\ rpc' = [rpc EXCEPT ![t] = "remove"] /\ pc'[t] = "idle"
      /\ UNCHANGED <<stored, replicas, unaudited, job, by, cand, fresh, owed>>
  BY <1>1 DEF PurgeNext, ledgerVars, txVars, Goto
<1>5. StoreTypeOK'
  BY <1>2, <1>3, <1>4 DEF Await, Base, StoreTypeOK
<1>6. Shape(t)'
  BY <1>1, <1>2, <1>3, <1>4 DEF Shape, Removal, Base, StoreTypeOK
<1> QED  BY <1>5, <1>6 DEF Fits

\* The purge goes on with the page, or lists the next one.
LEMMA PurgeOnFits ==
    ASSUME Base, NEW t \in Tx, PurgeOn(t), pc'[t] = "idle", job[t] = "purge",
           stored' \in SUBSET (Node \X Hash), UNCHANGED <<replicas, unaudited>>
    PROVE  Fits(t)
<1>1. StoreTypeOK'
  BY DEF Await, Base, StoreTypeOK, PurgeOn, Goto, Set
<1>2. Shape(t)'
  BY DEF Shapes, Shape, Base, StoreTypeOK, PurgeOn, Goto, Set
<1> QED  BY <1>1, <1>2 DEF Fits

LEMMA EraseFits ==
    ASSUME Base, NEW t \in Tx, Erase(t) \/ EraseFails(t)
    PROVE  Fits(t)
<1>1. rpc[t] = "erase" /\ on[t] \in Hash /\ pc[t] = "idle"
  BY DEF Erase, EraseFails, Shapes, Shape, Base
<1>2. /\ stored' \in SUBSET (Node \X Hash) /\ UNCHANGED <<replicas, unaudited>>
      /\ pc'[t] = "idle" /\ unaudited' \in SUBSET Row
  BY <1>1 DEF Erase, EraseFails, StoreTypeOK, ledgerVars, txVars, Base
<1>3. PICK n \in cand[t] : EraseNext(t, n)
  BY DEF Erase, EraseFails
<1>4. CASE cand[t] # {n}
  <2>1. cand' = [cand EXCEPT ![t] = cand[t] \ {n}] /\ UNCHANGED <<rpc, job, by, on, reps, fresh, batch, owed>>
    BY <1>3, <1>4 DEF EraseNext, Set
  <2>2. StoreTypeOK'
    BY <1>2, <2>1 DEF StoreTypeOK, Base
  <2>3. Shape(t)'
    BY <1>1, <1>2, <1>3, <1>4 DEF EraseNext, Shapes, Shape, Base
  <2> QED  BY <2>2, <2>3 DEF Fits
<1>5. CASE job[t] = "purge" /\ PurgeOn(t)
  BY <1>2, <1>5, PurgeOnFits
<1>6. CASE Respond(t)
  BY <1>2, <1>6, RespondFits
<1>7. CASE /\ job[t] = "moderate" /\ cand' = Set(cand, t, {}) /\ Goto(t, "audit")
           /\ UNCHANGED <<job, by, on, reps, fresh, batch, owed>>
  <2>1. StoreTypeOK'
    BY <1>2, <1>7 DEF StoreTypeOK, Await, Base, Goto, Set
  <2>2. Shape(t)'
    BY <1>1, <1>2, <1>7 DEF Shapes, Shape, StoreTypeOK, Base, Goto
  <2> QED  BY <2>1, <2>2 DEF Fits
<1> QED  BY <1>3, <1>4, <1>5, <1>6, <1>7 DEF EraseNext

LEMMA AuditFits ==
    ASSUME Base, NEW t \in Tx, Audit(t)
    PROVE  Fits(t)
<1>1. rpc[t] = "audit" /\ pc[t] = "idle"
  BY DEF Audit, Shapes, Shape, Base
<1>2. /\ stored' \in SUBSET (Node \X Hash) /\ UNCHANGED <<stored, replicas>>
      /\ pc'[t] = "idle" /\ unaudited' \in SUBSET Row
  BY <1>1 DEF Audit, StoreTypeOK, ledgerVars, txVars, Base
<1>3. CASE Respond(t)
  BY <1>2, <1>3, RespondFits
<1>4. CASE ~Respond(t)
  <2>1. \E u : owed' = [owed EXCEPT ![t] = owed[t] \ {u}]
    BY <1>4 DEF Audit, Set
  <2>2. UNCHANGED <<rpc, job, by, on, reps, cand, fresh, batch>>
    BY <1>4 DEF Audit
  <2>3. StoreTypeOK'
    BY <1>2, <2>1, <2>2 DEF StoreTypeOK, Base
  <2>4. Shape(t)'
    BY <1>1, <1>2, <2>2 DEF Shapes, Shape, Base
  <2> QED  BY <2>3, <2>4 DEF Fits
<1> QED  BY <1>3, <1>4

LEMMA HearsFits ==
    ASSUME Base, NEW t \in Tx, NEW a, Hears(t, a)
    PROVE  Fits(t)
<1>1. rpc[t] = "call" /\ UNCHANGED <<stored, replicas, unaudited>> /\ pc'[t] = "idle"
  BY DEF Hears, Return, IInv, TypeOK, Base
<1>2. stored' \in SUBSET (Node \X Hash) /\ unaudited' \in SUBSET Row
  BY <1>1 DEF StoreTypeOK, Base
<1>3. CASE Respond(t)
  BY <1>1, <1>2, <1>3, RespondFits
<1>4. CASE EraseNow(t)
  BY <1>1, <1>4, EraseNowFits
<1>5. CASE job[t] = "purge" /\ PurgeOn(t)
  BY <1>1, <1>2, <1>5, PurgeOnFits
<1>6. CASE /\ job[t] = "upload" /\ fresh[t] /\ Goto(t, "undo")
           /\ UNCHANGED <<job, by, on, reps, cand, fresh, batch, owed>>
  <2>1. fresh[t] = TRUE /\ on[t] \in Hash /\ by[t] \in Npub
    BY <1>1, <1>6 DEF StoreTypeOK, Shapes, Shape, Base
  <2>2. StoreTypeOK'
    BY <1>1, <1>6 DEF StoreTypeOK, Goto, Await, Base
  <2>3. Shape(t)'
    BY <1>1, <1>6, <2>1 DEF Shapes, Shape, Goto, StoreTypeOK, Removal, Base
  <2> QED  BY <2>2, <2>3 DEF Fits
<1> QED  BY <1>3, <1>4, <1>5, <1>6 DEF Hears, UploadHears, DeleteHears, ModerateHears, PurgeHears

LEMMA CrashFits ==
    ASSUME Base, NEW t \in Tx, Crash(t)
    PROVE  Fits(t)
<1>1. UNCHANGED <<stored, replicas, unaudited>> /\ pc'[t] = "idle" /\ Respond(t)
  BY DEF Crash, Base, Shapes, Shape, ledgerVars, txVars
<1>2. stored' \in SUBSET (Node \X Hash) /\ unaudited' \in SUBSET Row
  BY <1>1 DEF Base, StoreTypeOK
<1> QED  BY <1>1, <1>2, RespondFits

\* A transaction under way moves on, fails, or commits.
Fails(t, a) ==
    /\ pc[t] \notin {"idle", "done"}
    /\ a \in Answer \ {"ok"}
    /\ a = "already_exists" => pc[t] = "check" /\ <<who[t], what[t]>> \in blob
    /\ Rollback(t, a)
Moves(t) == PostLock(t) \/ PostCheck(t) \/ DelRow(t) \/ DelUser(t) \/ DelCount(t)

LEMMA TransactionCases ==
    ASSUME NEW t \in Tx, Step(t) \/ Abort(t)
    PROVE  Moves(t) \/ PostCommit(t) \/ DelCommit(t) \/ \E a : Fails(t, a)
<1>1. CASE Post(t)
  <2>1. PostNoUser(t) => Fails(t, "user_not_found")
    BY DEF PostNoUser, Fails, Answer
  <2>2. PostDuplicate(t) => Fails(t, "already_exists")
    BY DEF PostDuplicate, Fails, Answer
  <2>3. PostOverQuota(t) => Fails(t, "quota_exceeded")
    BY DEF PostOverQuota, Fails, Answer
  <2> QED  BY <1>1, <2>1, <2>2, <2>3 DEF Post, Moves
<1>2. CASE Delete(t)
  <2>1. DelRowGone(t) => Fails(t, "not_found")
    BY DEF DelRowGone, Fails, Answer
  <2> QED  BY <1>2, <2>1 DEF Delete, Moves
<1>3. CASE DeadlockVictim(t)
  <2>1. \E s : WaitsFor(t, s)
    BY <1>3 DEF DeadlockVictim, Deadlocked
  <2>2. pc[t] \notin {"idle", "done"}
    BY <2>1 DEF WaitsFor
  <2>3. Fails(t, "failed")
    BY <1>3, <2>2 DEF DeadlockVictim, Fails, Answer
  <2> QED  BY <2>3
<1>4. CASE Abort(t)
  BY <1>4 DEF Abort, Fails, Answer
<1> QED  BY <1>1, <1>2, <1>3, <1>4 DEF Step

\* Where each of these takes it.
LEMMA TransactionMoves ==
    ASSUME Base, NEW t \in Tx, Moves(t)
    PROVE  /\ UNCHANGED <<blob, what, res>>
           /\ pc[t] \notin {"idle", "done"}
           /\ \/ pc[t] = "lock" /\ pc'[t] = "check" /\ UNCHANGED <<who, todo, gone, left>>
              \/ pc[t] = "check" /\ pc'[t] = "insert" /\ UNCHANGED <<who, todo, gone, left>>
              \/ /\ pc[t] = "row" /\ pc'[t] = "user" /\ UNCHANGED <<who, todo, left>>
                 /\ gone'[t] = gone[t] \cup {who[t]}
              \/ /\ pc[t] = "user" /\ pc'[t] = "count" /\ todo[t] = {} /\ UNCHANGED <<who, todo, gone, left>>
              \/ /\ pc[t] = "user" /\ pc'[t] = "row" /\ UNCHANGED <<gone, left>>
                 /\ who'[t] \in todo[t] /\ todo'[t] = todo[t] \ {who'[t]}
              \/ /\ pc[t] = "count" /\ pc'[t] = "commit" /\ UNCHANGED <<who, todo, gone>>
                 /\ left'[t] = Cardinality(Owners(what[t]) \ gone[t])
<1>1. CASE PostLock(t) \/ PostCheck(t)
  BY <1>1 DEF PostLock, PostCheck, Base, IInv, TypeOK, dbVars
<1>2. CASE DelRow(t)
  BY <1>2 DEF DelRow, Base, IInv, TypeOK, dbVars
<1>3. CASE DelUser(t)
  <2>1. pc[t] = "user" /\ UNCHANGED <<blob, what, res, gone, left>>
    BY <1>3 DEF DelUser, dbVars
  <2>2. CASE todo[t] = {}
    <3>1. pc'[t] = "count" /\ UNCHANGED <<who, todo>>
      BY <1>3, <2>2 DEF DelUser, Base, IInv, TypeOK
    <3> QED  BY <2>1, <2>2, <3>1
  <2>3. CASE todo[t] # {}
    <3>1. PICK u \in todo[t] : /\ pc' = [pc EXCEPT ![t] = "row"] /\ who' = [who EXCEPT ![t] = u]
                              /\ todo' = [todo EXCEPT ![t] = @ \ {u}]
      BY <1>3, <2>3 DEF DelUser
    <3>2. pc'[t] = "row" /\ who'[t] = u /\ todo'[t] = todo[t] \ {u}
      BY <3>1 DEF Base, IInv, TypeOK
    <3> QED  BY <2>1, <3>2
  <2> QED  BY <2>2, <2>3
<1>4. CASE DelCount(t)
  BY <1>4 DEF DelCount, Base, IInv, TypeOK, dbVars
<1> QED  BY <1>1, <1>2, <1>3, <1>4 DEF Moves

LEMMA TransactionEnds ==
    ASSUME Base, NEW t \in Tx, NEW a, Finish(t, a)
    PROVE  pc'[t] = "done" /\ res'[t] = a /\ gone'[t] = {} /\ todo'[t] = {} /\ left'[t] = left[t]
BY DEF Base, IInv, TypeOK, Finish

LEMMA LedgerFits ==
    ASSUME Base, NEW t \in Tx, LedgerStep(t) \/ LedgerAbort(t)
    PROVE  Fits(t) /\ rpc[t] = "call"
<1>1. (Step(t) \/ Abort(t)) /\ RowsWritten(t)
  BY DEF LedgerStep, LedgerAbort
<1>2. pc[t] \notin {"idle", "done"}
  BY <1>1, TransactionCases, TransactionMoves DEF PostCommit, DelCommit, Fails
<1>3. rpc[t] = "call"
  BY <1>2 DEF Shapes, Shape, Base
<1>4. StoreTypeOK'
  <2>1. replicas' \in [Row -> SUBSET Node]
    BY <1>1 DEF RowsWritten, StoreTypeOK, Base
  <2>2. unaudited' \in SUBSET Row
    BY <1>1 DEF RowsWritten, StoreTypeOK, IInv, TypeOK, Base
  <2> QED  BY <1>1, <2>1, <2>2 DEF RowsWritten, StoreTypeOK, reqVars, Base
<1>5. UNCHANGED <<rpc, job, by, on, reps, batch, fresh>>
  BY <1>1 DEF RowsWritten, reqVars
<1>6. Shape(t)'
  <2>1. CASE Moves(t)
    <3>1. who'[t] = who[t] \/ pc'[t] = "row"
      BY <2>1, TransactionMoves
    <3> QED  BY <2>1, <1>3, <1>5, TransactionMoves DEF Shapes, Shape, Base
  <2>2. CASE \E a : Finish(t, a)
    <3>1. pc'[t] = "done"
      BY <2>2, TransactionEnds
    <3> QED  BY <3>1, <1>3, <1>5 DEF Shapes, Shape, Base
  <2> QED  BY <1>1, <2>1, <2>2, TransactionCases DEF PostCommit, DelCommit, Fails, Rollback
<1> QED  BY <1>3, <1>4, <1>6 DEF Fits

-----------------------------------------------------------------------------
(* The proxy keeps the ledger's rules.                                     *)

LEMMA ActionsFit ==
    ASSUME Base, NEW t \in Tx, Starts(t) \/ Progress(t) \/ Disturb(t) \/ UndoBlind(t)
    PROVE  Fits(t)
<1>1. CASE Starts(t)
  BY <1>1, UploadStartsFit, RemovalStartsFit, PurgeStartsFits DEF Starts
<1>2. CASE Progress(t)
  BY <1>2, PutFits, UndoFits, RemoveFits, PurgeListFits, PurgeNextFits, EraseFits, AuditFits, HearsFits,
     LedgerFits DEF Progress, Answered
<1>3. CASE Disturb(t)
  BY <1>3, PutFits, EraseFits, HearsFits, CrashFits, LedgerFits DEF Disturb, AnswerLost
<1>4. CASE UndoBlind(t)
  BY <1>4, UndoFits
<1> QED  BY <1>1, <1>2, <1>3, <1>4

\* Every action of a request is an operation of the ledger, or none.
LEMMA ActionsUseLedger ==
    ASSUME Base, NEW t \in Tx, Starts(t) \/ Progress(t) \/ Disturb(t) \/ UndoBlind(t)
    PROVE  [Next]_ledgerVars
<1>1. CASE Starts(t)
  <2>1. UNCHANGED ledgerVars \/ \E u \in Npub, h \in Hash : PostBegin(t, u, h)
    BY <1>1 DEF Starts, UploadReuse, UploadStore, DeleteLookup, PurgeStarts
  <2> QED  BY <2>1 DEF Next, Begin
<1>2. CASE Put(t) \/ PutFails(t)
  <2>1. on[t] \in Hash /\ by[t] \in Npub
    BY <1>2 DEF Put, PutFails, Shapes, Shape, Base
  <2>2. UNCHANGED ledgerVars \/ PostBegin(t, by[t], on[t])
    BY <1>2 DEF Put, PutFails, PutNext
  <2> QED  BY <2>1, <2>2 DEF Next, Begin
<1>3. CASE Remove(t)
  <2>1. on[t] \in Hash /\ (job[t] # "moderate" => by[t] \in Npub)
    BY <1>3 DEF Remove, Shapes, Shape, Removal, Base
  <2> QED  BY <1>3, <2>1 DEF Remove, Next, Begin
<1>4. CASE Answered(t) \/ AnswerLost(t)
  BY <1>4 DEF Answered, AnswerLost, Hears, Next
<1>5. CASE LedgerStep(t) \/ LedgerAbort(t)
  BY <1>5 DEF LedgerStep, LedgerAbort, Next
<1>6. CASE \/ Undo(t) \/ UndoBlind(t) \/ PurgeList(t) \/ PurgeNext(t) \/ Erase(t) \/ EraseFails(t)
           \/ Audit(t) \/ Crash(t)
  BY <1>6 DEF Undo, UndoBlind, PurgeList, PurgeNext, Erase, EraseFails, Audit, Crash
<1> QED  BY <1>1, <1>2, <1>3, <1>4, <1>5, <1>6 DEF Progress, Disturb

\* The actions that no request takes.
Outside ==
    \/ \E u \in Npub, q \in Allowance : Purchase(u, q)
    \/ \E u \in Npub : Close(u)

LEMMA OutsideEffect ==
    ASSUME Base, Outside
    PROVE  /\ [Next]_ledgerVars
           /\ UNCHANGED <<blob, stored, replicas, unaudited, faulted, reqVars, txVars>>
BY DEF Outside, Purchase, Close, Entitle, NoFault, Next, ledgerVars, dbVars

\* The cases of a step of the system.
LEMMA StoreCases ==
    ASSUME [StoreNext]_vars
    PROVE  \/ Outside /\ Record({})
           \/ \E t \in Tx : (Starts(t) \/ Progress(t) \/ Disturb(t)) /\ Record({})
           \/ \E t \in Tx : UndoBlind(t) /\ Record({on[t]})
           \/ UNCHANGED vars
BY DEF StoreNext, Outside, Act

LEMMA RecordKeeps ==
    ASSUME NEW B, Record(B)
    PROVE  Recorded' /\ raced \subseteq raced' /\ overlapped \subseteq overlapped'
BY DEF Record, Recorded

\* A step that moves no request.
LEMMA RestFits ==
    ASSUME Base, UNCHANGED <<stored, replicas, unaudited, reqVars, txVars>>
    PROVE  StoreTypeOK' /\ Shapes'
<1>1. StoreTypeOK'
  BY DEF StoreTypeOK, Base, reqVars
<1>2. ASSUME NEW t \in Tx
      PROVE  Shape(t)'
  BY DEF Shapes, Shape, Base, reqVars, txVars
<1> QED  BY <1>1, <1>2 DEF Shapes

LEMMA StepKeepsBase ==
    ASSUME Base, [StoreNext]_vars
    PROVE  Base'
<1>1. CASE Outside /\ Record({})
  <2>1. IInv'
    BY <1>1, OutsideEffect, NextIInv DEF Base
  <2>2. StoreTypeOK' /\ Shapes'
    BY <1>1, OutsideEffect, RestFits
  <2> QED  BY <1>1, <2>1, <2>2, RecordKeeps DEF Base
<1>2. ASSUME NEW t \in Tx, Starts(t) \/ Progress(t) \/ Disturb(t) \/ UndoBlind(t), NEW B, Record(B)
      PROVE  Base'
  <2>1. IInv'
    BY <1>2, ActionsUseLedger, NextIInv DEF Base
  <2>2. StoreTypeOK' /\ Shape(t)'
    BY <1>2, ActionsFit DEF Fits
  <2>3. Elsewhere(t)
    BY <1>2, Frame DEF Base, IInv, Types
  <2>4. ASSUME NEW s \in Tx, s # t
        PROVE  Shape(s)'
    <3>1. Same(s) /\ Shape(s)
      BY <2>3, <2>4 DEF Elsewhere, Base, Shapes
    <3> QED  BY <3>1 DEF Same, RequestSame, TransactionSame, Shape
  <2> QED  BY <1>2, <2>1, <2>2, <2>4, RecordKeeps DEF Base, Shapes
<1>3. CASE UNCHANGED vars
  <2>1. UNCHANGED <<ledgerVars, stored, replicas, unaudited, reqVars, txVars, overlapped, raced>>
    BY <1>3 DEF vars, storeVars, history, ledgerVars
  <2>2. IInv'
    BY <2>1, NextIInv DEF Base
  <2>3. StoreTypeOK' /\ Shapes'
    BY <2>1, RestFits
  <2>4. \A t \in Tx : Working(t)' = Working(t) /\ Erasing(t)' = Erasing(t)
    BY <2>1 DEF reqVars, Working, Erasing
  <2>5. Contended' = Contended /\ Racing' = Racing
    BY <2>1, <2>4 DEF reqVars, Contended, Racing
  <2> QED  BY <2>1, <2>2, <2>3, <2>5 DEF Base, Recorded
<1> QED  BY <1>1, <1>2, <1>3, StoreCases

LEMMA StoreStarts == StoreInit => Base
<1> SUFFICES ASSUME StoreInit
             PROVE  Base
  OBVIOUS
<1>1. IInv
  BY InitIInv DEF StoreInit
<1>2. StoreTypeOK
  BY DEF StoreTypeOK, Await, StoreInit
<1>3. Shapes
  BY StoreAssumption DEF Shapes, Shape, Init, StoreInit
<1>4. Recorded
  BY ConstantsAssumption DEF Recorded, Contended, Racing, Working, StoreInit
<1> QED  BY <1>1, <1>2, <1>3, <1>4 DEF Base

LEMMA AlwaysBase == StoreSpec => []Base
BY StoreStarts, StepKeepsBase, PTL DEF StoreSpec

\* index.ts and servers.ts of the proxy reach the ledger only through its
\* operations, whatever fails: what is proved of the ledger holds under them.
THEOREM StoreUsesLedger == StoreSpec => Spec
<1>1. StoreInit => Init
  BY DEF StoreInit
<1>2. Base /\ [StoreNext]_vars => [Next]_ledgerVars
  BY StoreCases, OutsideEffect, ActionsUseLedger DEF vars
<1> QED  BY <1>1, <1>2, AlwaysBase, PTL DEF StoreSpec, Spec

-----------------------------------------------------------------------------
(* Owned bytes survive.                                                    *)

\* An upload of a hash and a request that erases it: the history has it.
LEMMA NoRace ==
    ASSUME Base, NEW s \in Tx, NEW t \in Tx, s # t, on[s] \in Hash, on[s] = on[t],
           job[s] = "upload", Erasing(t)
    PROVE  on[s] \in raced
BY DEF Base, Recorded, Racing, Working

\* Only a transaction changes rows.
LEMMA RowsStay ==
    ASSUME NEW t \in Tx, Starts(t) \/ Progress(t) \/ Disturb(t) \/ UndoBlind(t),
           ~(LedgerStep(t) \/ LedgerAbort(t))
    PROVE  UNCHANGED <<blob, replicas>> /\ \A h : Owners(h)' = Owners(h)
<1>1. CASE Starts(t)
  BY <1>1 DEF Starts, UploadReuse, UploadStore, PostBegin, DeleteLookup, PurgeStarts, Owners, ledgerVars,
     dbVars
<1>2. CASE Put(t) \/ PutFails(t)
  BY <1>2 DEF Put, PutFails, PutNext, PostBegin, Owners, ledgerVars, dbVars
<1>3. CASE Remove(t)
  BY <1>3 DEF Remove, DelFindAll, DelFindOne, DelFind, Rollback, Owners, dbVars
<1>4. CASE Answered(t) \/ AnswerLost(t)
  BY <1>4 DEF Answered, AnswerLost, Hears, Return, Owners, dbVars
<1>5. CASE \/ Undo(t) \/ UndoBlind(t) \/ PurgeList(t) \/ PurgeNext(t) \/ Erase(t) \/ EraseFails(t)
           \/ Audit(t) \/ Crash(t)
  BY <1>5 DEF Undo, UndoBlind, PurgeList, PurgeNext, Erase, EraseFails, Audit, Crash, Owners, ledgerVars,
     dbVars
<1> QED  BY <1>1, <1>2, <1>3, <1>4, <1>5 DEF Progress, Disturb

\* What another request may do to what s relies on.
LEMMA OthersRely ==
    ASSUME Base, NEW t \in Tx, NEW s \in Tx, s # t, Same(s), Relies(s), raced \subseteq raced',
           stored \subseteq stored' \/ (rpc[t] = "erase" /\ stored \subseteq stored' \cup (Node \X {on[t]})),
           \A h \in Hash : \/ Owners(h)' \subseteq Owners(h)
                           \/ h = on[t] /\ job[t] = "upload" /\ rpc[t] = "call"
    PROVE  Relies(s)'
<1> SUFFICES ASSUME on[s] \in Hash \ raced
             PROVE  Relies(s)'
  BY DEF Relies, Same, RequestSame
<1>1. job[s] = "upload" /\ rpc[s] \in {"put", "call"} => reps[s] \X {on[s]} \subseteq stored'
  <2> SUFFICES ASSUME job[s] = "upload", rpc[s] \in {"put", "call"}
               PROVE  reps[s] \X {on[s]} \subseteq stored'
    OBVIOUS
  <2>1. reps[s] \X {on[s]} \subseteq stored
    BY DEF Relies
  <2>2. rpc[t] = "erase" => on[t] # on[s]
    BY NoRace DEF Erasing
  <2> QED  BY <2>1, <2>2
<1>2. PICK h \in Hash : h = on[s] /\ h = on'[s]
  BY DEF Same, RequestSame
<1>3. rpc[s] = "erase" \/ job[s] \in Removal => Owners(h)' \subseteq Owners(h)
  <2>1. rpc[s] = "erase" \/ job[s] \in Removal => Erasing(s)
    BY DEF Erasing, Removal
  <2>2. rpc[s] = "erase" \/ job[s] \in Removal => ~(on[s] = on[t] /\ job[t] = "upload")
    BY <2>1, NoRace
  <2> QED  BY <1>2, <2>2
<1>4. "moderate" \in Removal
  BY DEF Removal
<1>5. Owners(on[s])' = Owners(h)'
  BY <1>2 DEF Owners
<1> DEFINE P == Owners(h)'
<1>6. /\ rpc[s] = "erase" => P = {}
      /\ job[s] \in Removal /\ pc[s] = "commit" /\ left[s] = 0 => P \subseteq gone[s]
      /\ job[s] = "moderate" =>
           /\ pc[s] = "row" => P \subseteq gone[s] \cup todo[s] \cup {who[s]}
           /\ pc[s] = "user" => P \subseteq gone[s] \cup todo[s]
           /\ pc[s] \in {"count", "commit"} => P \subseteq gone[s]
      /\ job[s] \in Removal /\ pc[s] = "done" /\ res[s] = "ok" /\ (left[s] = 0 \/ job[s] = "moderate")
           => P = {}
  BY <1>2, <1>3, <1>4 DEF Relies
<1>7. job[s] = "upload" /\ rpc[s] = "call" => reps[s] # {}
  BY DEF Relies
<1> HIDE DEF P
<1> QED  BY <1>1, <1>2, <1>5, <1>6, <1>7 DEF Same, RequestSame, TransactionSame, Relies, P

\* A step that erases nothing and writes no row.
LEMMA BackedStay ==
    ASSUME RowsBacked, UNCHANGED <<blob, replicas>>, stored \subseteq stored', raced \subseteq raced'
    PROVE  RowsBacked'
BY DEF RowsBacked

LEMMA EndedRelies ==
    ASSUME Base', NEW t \in Tx, on'[t] = NULL
    PROVE  Relies(t)'
BY ConstantsAssumption DEF Relies

\* Without a transaction, an erasure or an upload there is nothing to rely on.
LEMMA IdleRelies ==
    ASSUME Base', NEW t \in Tx, pc'[t] = "idle", rpc'[t] # "erase",
           job'[t] # "upload" \/ rpc'[t] \notin {"put", "call"}
    PROVE  Relies(t)'
BY DEF Relies

LEMMA StartsRely ==
    ASSUME Base, Base', SurviveInv, NEW t \in Tx, Starts(t), raced \subseteq raced'
    PROVE  Relies(t)'
<1>1. ASSUME NEW u \in Npub, NEW h \in Hash, UploadReuse(t, u, h)
      PROVE  Relies(t)'
  <2>1. PICK v \in Owners(h) : reps'[t] = replicas[<<v, h>>]
    BY <1>1 DEF UploadReuse, Base, StoreTypeOK, Set
  <2>2. on'[t] = h /\ job'[t] = "upload" /\ rpc'[t] = "call" /\ UNCHANGED stored
    BY <1>1 DEF UploadReuse, UploadStarts, Base, StoreTypeOK, Goto, Set, Receive
  <2>3. h \notin raced' => reps'[t] # {} /\ reps'[t] \X {h} \subseteq stored
    BY <2>1 DEF SurviveInv, RowsBacked, Owners
  <2> QED  BY <2>2, <2>3 DEF Relies, Removal
<1>2. ASSUME NEW u \in Npub, NEW h \in Hash, UploadStore(t, u, h)
      PROVE  Relies(t)'
  <2>1. on'[t] = h /\ job'[t] = "upload" /\ rpc'[t] = "put" /\ reps'[t] = {}
    <3>1. rpc[t] = "idle" /\ UNCHANGED reps
      BY <1>2 DEF UploadStore, UploadStarts, Receive
    <3>2. reps[t] = {}
      BY <3>1 DEF Shapes, Shape, Base
    <3> QED  BY <1>2, <3>1, <3>2 DEF UploadStore, UploadStarts, Base, StoreTypeOK, Goto, Set, Receive
  <2> QED  BY <2>1 DEF Relies, Removal
<1>3. ASSUME NEW h, NEW S, DeleteLookup(t, h, S), rpc[t] = "idle", job' = [job EXCEPT ![t] = "delete"]
                                                                 \/ job' = [job EXCEPT ![t] = "moderate"]
      PROVE  Relies(t)'
  <2>1. rpc'[t] = "remove" /\ pc'[t] = "idle" /\ job'[t] # "upload"
    BY <1>3, ZenonT(30) DEF DeleteLookup, ledgerVars, txVars, Shapes, Shape, Base, StoreTypeOK, Goto, Set, Receive
  <2> QED  BY <2>1, IdleRelies
<1>4. ASSUME NEW u \in Npub, PurgeStarts(t, u)
      PROVE  Relies(t)'
  <2>1. on'[t] = NULL
    BY <1>4 DEF PurgeStarts, Base, StoreTypeOK, Set, Receive
  <2> QED  BY <2>1, EndedRelies
<1> QED  BY <1>1, <1>2, <1>3, <1>4 DEF Starts, DeleteStarts, ModerateStarts, Set, Receive

LEMMA OneMoreCopy ==
    ASSUME NEW S, NEW R, NEW n, NEW h
    PROVE  (R \cup {n}) \X {h} \subseteq (S \cup {<<n, h>>}) \cup (R \X {h})
BY SMT

LEMMA UploadRelies ==
    ASSUME Base, Base', SurviveInv, NEW t \in Tx, Put(t) \/ PutFails(t), raced \subseteq raced'
    PROVE  Relies(t)'
<1>1. rpc[t] = "put" /\ job[t] = "upload" /\ on[t] \in Hash
  BY DEF Put, PutFails, Shapes, Shape, Base
<1>2. PICK n \in Node, R \in SUBSET Node :
        PutNext(t, n, R) /\ R \X {on[t]} \subseteq stored' \cup (reps[t] \X {on[t]}) /\ stored \subseteq stored'
  <2>0. cand[t] \subseteq Node /\ reps[t] \subseteq Node
    BY DEF StoreTypeOK, Base
  <2>1. CASE Put(t)
    <3>1. PICK n \in cand[t] : stored' = stored \cup {<<n, on[t]>>} /\ PutNext(t, n, reps[t] \cup {n})
      BY <2>1 DEF Put
    <3>2. (reps[t] \cup {n}) \X {on[t]} \subseteq stored' \cup (reps[t] \X {on[t]})
      BY <3>1, OneMoreCopy
    <3> QED  BY <2>0, <3>1, <3>2
  <2>2. CASE PutFails(t)
    <3>1. PICK n \in cand[t] : stored \subseteq stored' /\ PutNext(t, n, reps[t])
      BY <2>2 DEF PutFails
    <3> QED  BY <2>0, <3>1
  <2> QED  BY <2>1, <2>2
<1>3. CASE Respond(t)
  BY <1>3, EndedRelies DEF Respond, Set, StoreTypeOK, Base
<1>4. CASE ~Respond(t)
  <2>1. /\ reps'[t] = R /\ on'[t] = on[t] /\ job'[t] = "upload"
        /\ rpc'[t] = "put" \/ (rpc'[t] = "call" /\ R # {})
    BY <1>1, <1>2, <1>4 DEF PutNext, Set, Goto, StoreTypeOK, Base
  <2>2. on[t] \notin raced' => R \X {on[t]} \subseteq stored'
    BY <1>1, <1>2 DEF SurviveInv, Relies
  <2> QED  BY <1>1, <2>1, <2>2 DEF Relies, Removal
<1> QED  BY <1>3, <1>4

LEMMA UndoRelies ==
    ASSUME Base, Base', NEW t \in Tx, Undo(t) \/ (UndoBlind(t) /\ on[t] \in raced')
    PROVE  Relies(t)'
<1>1. rpc[t] = "undo" /\ job[t] = "upload" /\ pc[t] = "idle"
  BY DEF Undo, UndoBlind, Shapes, Shape, Base
<1>2. UNCHANGED <<blob, pc>>
  BY DEF Undo, UndoBlind, ledgerVars, dbVars, txVars
<1>3. CASE Respond(t)
  BY <1>3, EndedRelies DEF Respond, Set, StoreTypeOK, Base
<1>4. CASE ~Respond(t)
  <2>1. rpc'[t] = "erase" /\ UNCHANGED <<job, on>>
    BY <1>1, <1>4 DEF Undo, UndoBlind, Goto, StoreTypeOK, Base
  <2>2. on[t] \in raced' \/ Owners(on[t]) = {}
    BY <1>4 DEF Undo
  <2>3. Owners(on[t])' = Owners(on[t])
    BY <1>2, <2>1 DEF Owners
  <2> QED  BY <1>1, <1>2, <2>1, <2>2, <2>3 DEF Relies, Removal
<1> QED  BY <1>3, <1>4

\* findMany of a moderation returns every owner there is.
LEMMA RemoveRelies ==
    ASSUME Base, Base', NEW t \in Tx, Remove(t)
    PROVE  Relies(t)'
<1>1. rpc[t] = "remove" /\ on[t] \in Hash /\ job[t] \in Removal
  BY DEF Remove, Shapes, Shape, Base
<1>2. rpc'[t] = "call" /\ UNCHANGED <<job, on, blob>>
  BY DEF Remove, Goto, StoreTypeOK, DelFindAll, DelFindOne, DelFind, Rollback, dbVars, Base
<1>3. PICK R \in SUBSET Npub : DelFind(t, on[t], R) /\ (job[t] = "moderate" => R = Owners(on[t]))
  BY DEF Remove, DelFindAll, DelFindOne, Owners
<1>4. CASE R = {}
  <2>1. pc'[t] = "done" /\ res'[t] = "not_found"
    <3>1. Rollback(t, "not_found")
      BY <1>3, <1>4 DEF DelFind
    <3> QED  BY <3>1, TransactionEnds DEF Rollback
  <2> QED  BY <1>1, <1>2, <2>1 DEF Relies, Removal
<1>5. CASE R # {}
  <2>1. PICK u \in R : pc'[t] = "row" /\ who'[t] = u /\ todo'[t] = R \ {u}
    <3>1. PICK u \in R : /\ pc' = [pc EXCEPT ![t] = "row"] /\ who' = [who EXCEPT ![t] = u]
                         /\ todo' = [todo EXCEPT ![t] = R \ {u}]
      BY <1>3, <1>5 DEF DelFind
    <3> QED  BY <3>1 DEF IInv, TypeOK, Base
  <2>2. Owners(on[t])' = Owners(on[t])
    BY <1>2 DEF Owners
  <2>3. job[t] = "moderate" => Owners(on[t]) \subseteq todo'[t] \cup {who'[t]}
    BY <1>3, <2>1
  <2> QED  BY <1>1, <1>2, <2>1, <2>2, <2>3 DEF Relies, Removal
<1> QED  BY <1>4, <1>5

LEMMA PurgeRelies ==
    ASSUME Base, Base', NEW t \in Tx, PurgeList(t) \/ PurgeNext(t)
    PROVE  Relies(t)'
<1>1. rpc[t] \in {"list", "next"} /\ job[t] = "purge" /\ pc[t] = "idle"
  BY DEF PurgeList, PurgeNext, Shapes, Shape, Base
<1>2. pc'[t] = "idle"
  BY <1>1 DEF PurgeList, PurgeNext, ledgerVars, txVars
<1>3. CASE Respond(t)
  BY <1>3, EndedRelies DEF Respond, Set, StoreTypeOK, Base
<1>4. CASE ~Respond(t)
  <2>1. rpc'[t] \in {"next", "remove"} /\ job'[t] = "purge"
    BY <1>1, <1>4 DEF PurgeList, PurgeNext, Goto, StoreTypeOK, Base
  <2> QED  BY <1>2, <2>1, IdleRelies
<1> QED  BY <1>3, <1>4

LEMMA PurgeOnRelies ==
    ASSUME Base, Base', NEW t \in Tx, PurgeOn(t)
    PROVE  Relies(t)'
BY EndedRelies DEF PurgeOn, Set, Base, StoreTypeOK

LEMMA EraseRelies ==
    ASSUME Base, Base', SurviveInv, NEW t \in Tx, Erase(t) \/ EraseFails(t), raced \subseteq raced'
    PROVE  Relies(t)'
<1>1. rpc[t] = "erase" /\ pc[t] = "idle"
  BY DEF Erase, EraseFails, Shapes, Shape, Base
<1>2. pc'[t] = "idle" /\ UNCHANGED blob
  BY <1>1 DEF Erase, EraseFails, ledgerVars, txVars, dbVars
<1>3. PICK n : EraseNext(t, n)
  BY DEF Erase, EraseFails
<1>4. CASE Respond(t)
  BY <1>4, EndedRelies DEF Respond, Set, StoreTypeOK, Base
<1>5. CASE PurgeOn(t)
  BY <1>5, PurgeOnRelies
<1>6. CASE cand[t] # {n}
  <2>1. UNCHANGED <<rpc, job, on>>
    BY <1>3, <1>6 DEF EraseNext
  <2>2. on[t] \in Hash \ raced' => Owners(on[t])' = {}
    BY <1>1, <1>2, <2>1 DEF SurviveInv, Relies, Owners
  <2> QED  BY <1>1, <1>2, <2>1, <2>2 DEF Relies
<1>7. CASE Goto(t, "audit")
  <2>1. rpc'[t] = "audit"
    BY <1>7 DEF Goto, StoreTypeOK, Base
  <2> QED  BY <1>2, <2>1, IdleRelies
<1> QED  BY <1>3, <1>4, <1>5, <1>6, <1>7 DEF EraseNext

LEMMA AuditRelies ==
    ASSUME Base, Base', NEW t \in Tx, Audit(t)
    PROVE  Relies(t)'
<1>1. rpc[t] = "audit" /\ pc[t] = "idle"
  BY DEF Audit, Shapes, Shape, Base
<1>2. pc'[t] = "idle"
  BY <1>1 DEF Audit, ledgerVars, txVars
<1>3. CASE Respond(t)
  BY <1>3, EndedRelies DEF Respond, Set, StoreTypeOK, Base
<1>4. CASE ~Respond(t)
  <2>1. rpc'[t] = "audit"
    BY <1>1, <1>4 DEF Audit
  <2> QED  BY <1>2, <2>1, IdleRelies
<1> QED  BY <1>3, <1>4

\* The bytes go only after an answer that says no owner is left.
LEMMA HearsRelies ==
    ASSUME Base, Base', SurviveInv, NEW t \in Tx, Answered(t) \/ AnswerLost(t), raced \subseteq raced'
    PROVE  Relies(t)'
<1>1. PICK a \in {res[t], "failed"} : Hears(t, a)
  BY DEF Answered, AnswerLost
<1>2. rpc[t] = "call" /\ pc[t] = "done" /\ pc'[t] = "idle" /\ UNCHANGED blob
  BY <1>1 DEF Hears, Return, IInv, TypeOK, dbVars, Base
<1>3. CASE Respond(t)
  BY <1>3, EndedRelies DEF Respond, Set, StoreTypeOK, Base
<1>4. CASE PurgeOn(t)
  BY <1>4, PurgeOnRelies
<1>5. CASE Goto(t, "undo")
  <2>1. rpc'[t] = "undo"
    BY <1>5 DEF Goto, StoreTypeOK, Base
  <2> QED  BY <1>2, <2>1, IdleRelies
<1>6. CASE /\ EraseNow(t) /\ a = "ok"
           /\ job[t] = "moderate" \/ (job[t] \in Removal /\ left[t] = 0)
  <2>1. res[t] = "ok" /\ UNCHANGED <<job, on>> /\ job[t] \in Removal /\ rpc'[t] = "erase"
    BY <1>6 DEF EraseNow, Goto, StoreTypeOK, Removal, Base
  <2>2. on[t] \in Hash \ raced => Owners(on[t]) = {}
    BY <1>2, <1>6, <2>1 DEF SurviveInv, Relies
  <2>3. Owners(on[t])' = Owners(on[t])
    BY <1>2, <2>1 DEF Owners
  <2> QED  BY <1>2, <2>1, <2>2, <2>3 DEF Relies, Removal
<1> QED  BY <1>1, <1>3, <1>4, <1>5, <1>6 DEF Hears, UploadHears, DeleteHears, ModerateHears, PurgeHears,
            Removal

\* The ledger: what a transaction has counted, and what it has deleted.
LEMMA NothingLeft ==
    ASSUME NEW S \in SUBSET Npub
    PROVE  Cardinality(S) = 0 <=> S = {}
BY ConstantsAssumption, FS_Subset, FS_EmptySet

LEMMA LedgerRelies ==
    ASSUME Base, Base', SurviveInv, NEW t \in Tx, LedgerStep(t) \/ LedgerAbort(t), raced \subseteq raced'
    PROVE  Relies(t)'
<1>1. (Step(t) \/ Abort(t)) /\ rpc[t] = "call" /\ UNCHANGED <<stored, reqVars>>
  BY LedgerFits DEF LedgerStep, LedgerAbort, RowsWritten
<1>2. UNCHANGED <<rpc, job, on, reps>>
  BY <1>1 DEF reqVars
<1>3. PICK h \in Hash : h = on[t] /\ h = on'[t]
  BY <1>1, <1>2 DEF Shapes, Shape, Base
<1> SUFFICES ASSUME h \notin raced'
             PROVE  Relies(t)'
  BY <1>3 DEF Relies
<1>4. Owners(on[t])' = Owners(h)'
  BY <1>3 DEF Owners
<1>5. Relies(t) /\ on[t] \in Hash \ raced
  BY <1>3 DEF SurviveInv
<1>6. job[t] = "upload" => reps[t] \X {h} \subseteq stored /\ reps[t] # {}
  BY <1>1, <1>3, <1>5 DEF Relies
<1>7. CASE job[t] = "upload"
  BY <1>1, <1>2, <1>3, <1>6, <1>7 DEF Relies, Removal
<1>8. CASE job[t] # "upload"
  <2>1. job[t] \in Removal /\ pc[t] \in {"row", "user", "count", "commit", "done"}
    BY <1>1, <1>8 DEF Shapes, Shape, Base
  <2>2. CASE Moves(t)
    <3>1. /\ Owners(h)' = Owners(h) /\ what[t] = h
      BY <1>3, <2>2, TransactionMoves DEF Owners, Shapes, Shape, Base
    <3>2. pc[t] = "row" => pc'[t] = "user" /\ gone'[t] = gone[t] \cup {who[t]} /\ todo'[t] = todo[t]
      BY <2>2, TransactionMoves
    <3>3. pc[t] = "user" => \/ pc'[t] = "count" /\ todo[t] = {} /\ gone'[t] = gone[t]
                            \/ /\ pc'[t] = "row" /\ gone'[t] = gone[t]
                               /\ who'[t] \in todo[t] /\ todo'[t] = todo[t] \ {who'[t]}
      BY <2>2, TransactionMoves
    <3>4. pc[t] = "count" => /\ pc'[t] = "commit" /\ gone'[t] = gone[t]
                             /\ left'[t] = 0 => Owners(h) \subseteq gone[t]
      <4>1. pc[t] = "count" => /\ pc'[t] = "commit" /\ gone'[t] = gone[t]
                               /\ left'[t] = Cardinality(Owners(h) \ gone[t])
        BY <2>2, <3>1, TransactionMoves
      <4>2. Owners(h) \ gone[t] \in SUBSET Npub
        BY DEF Owners
      <4>3. Cardinality(Owners(h) \ gone[t]) = 0 => Owners(h) \ gone[t] = {}
        BY <4>2, NothingLeft
      <4> QED  BY <4>1, <4>3
    <3>5. pc[t] \in {"row", "user", "count"}
      BY <2>1, <2>2, TransactionMoves
    <3>6. job[t] = "moderate" =>
             /\ pc[t] = "row" => Owners(h) \subseteq gone[t] \cup todo[t] \cup {who[t]}
             /\ pc[t] = "user" => Owners(h) \subseteq gone[t] \cup todo[t]
             /\ pc[t] = "count" => Owners(h) \subseteq gone[t]
      BY <1>3, <1>5 DEF Relies
    <3>7. CASE pc[t] = "row"
      BY <1>1, <1>2, <1>3, <1>4, <1>8, <2>1, <3>1, <3>2, <3>6, <3>7 DEF Relies
    <3>8. CASE pc[t] = "user"
      BY <1>1, <1>2, <1>3, <1>4, <1>8, <2>1, <3>1, <3>3, <3>6, <3>8 DEF Relies
    <3>9. CASE pc[t] = "count"
      BY <1>1, <1>2, <1>3, <1>4, <1>8, <2>1, <3>1, <3>4, <3>6, <3>9 DEF Relies
    <3> QED  BY <3>5, <3>7, <3>8, <3>9
  <2>3. CASE DelCommit(t)
    <3>1. pc[t] = "commit" /\ pc'[t] = "done" /\ left'[t] = left[t]
      BY <2>3, TransactionEnds DEF DelCommit
    <3>2. Owners(h)' = Owners(h) \ gone[t]
      <4>1. what[t] = h
        BY <1>3, <3>1 DEF Shapes, Shape, Base
      <4>2. blob' = blob \ (gone[t] \X {h})
        BY <2>3, <4>1 DEF DelCommit
      <4> QED  BY <4>2 DEF Owners
    <3>3. left[t] = 0 \/ job[t] = "moderate" => Owners(h) \subseteq gone[t]
      BY <1>3, <1>5, <2>1, <3>1 DEF Relies
    <3> QED  BY <1>1, <1>2, <1>3, <1>4, <1>8, <3>1, <3>2, <3>3 DEF Relies
  <2>4. ASSUME NEW a, Fails(t, a)
        PROVE  Relies(t)'
    <3>1. pc'[t] = "done" /\ res'[t] # "ok"
      BY <2>4, TransactionEnds DEF Fails, Rollback
    <3> QED  BY <1>1, <1>2, <1>8, <3>1 DEF Relies
  <2>5. ~PostCommit(t)
    BY <2>1 DEF PostCommit
  <2> QED  BY <1>1, <2>2, <2>3, <2>4, <2>5, TransactionCases
<1> QED  BY <1>7, <1>8

\* What a transaction does to the rows.
LEMMA LedgerRows ==
    ASSUME Base, NEW t \in Tx, LedgerStep(t) \/ LedgerAbort(t)
    PROVE  /\ UNCHANGED stored
           /\ \A r \in blob \cap blob' : replicas'[r] = replicas[r]
           /\ \A r \in blob' \ blob : /\ r = <<by[t], on[t]>> /\ replicas'[r] = reps[t]
                                      /\ job[t] = "upload" /\ rpc[t] = "call"
<1>1. (Step(t) \/ Abort(t)) /\ RowsWritten(t) /\ rpc[t] = "call"
  BY LedgerFits DEF LedgerStep, LedgerAbort
<1>2. UNCHANGED stored /\ \A r \in Row : replicas'[r] = IF r \in blob' \ blob THEN reps[t]
                                  ELSE IF r \in blob' THEN replicas[r] ELSE {}
  BY <1>1 DEF RowsWritten
<1>3. ASSUME NEW r \in blob' \ blob
      PROVE  r = <<by[t], on[t]>> /\ r \in Row /\ job[t] = "upload"
  <2>1. PostCommit(t)
    <3>1. blob' # blob
      BY <1>3
    <3>2. Moves(t) => blob' = blob
      BY TransactionMoves
    <3>3. DelCommit(t) => blob' \subseteq blob
      BY DEF DelCommit
    <3>4. (\E a : Fails(t, a)) => blob' = blob
      BY DEF Fails, Rollback, dbVars
    <3> QED  BY <1>1, <1>3, <3>1, <3>2, <3>3, <3>4, TransactionCases
  <2>2. pc[t] = "insert" /\ r = <<who[t], what[t]>>
    BY <2>1, <1>3 DEF PostCommit
  <2>3. who[t] = by[t] /\ what[t] = on[t] /\ job[t] = "upload" /\ by[t] \in Npub /\ on[t] \in Hash
    BY <1>1, <2>2 DEF Shapes, Shape, Base
  <2> QED  BY <2>2, <2>3 DEF Row
<1> QED  BY <1>1, <1>2, <1>3 DEF IInv, TypeOK, Base

\* No action of a request takes the bytes of an owned blob.
LEMMA ActionsKeepRows ==
    ASSUME Base, Base', SurviveInv, NEW t \in Tx, raced \subseteq raced',
           Starts(t) \/ Progress(t) \/ Disturb(t) \/ UndoBlind(t)
    PROVE  RowsBacked'
<1>1. CASE LedgerStep(t) \/ LedgerAbort(t)
  <2> SUFFICES ASSUME NEW u \in Npub, NEW h \in Hash, <<u, h>> \in blob', h \notin raced'
               PROVE  /\ replicas'[<<u, h>>] # {}
                      /\ replicas'[<<u, h>>] \X {h} \subseteq stored'
    BY DEF RowsBacked
  <2>1. CASE <<u, h>> \in blob
    BY <1>1, <2>1, LedgerRows DEF SurviveInv, RowsBacked
  <2>2. CASE <<u, h>> \notin blob
    <3>1. /\ h = on[t] /\ replicas'[<<u, h>>] = reps[t] /\ stored' = stored
          /\ job[t] = "upload" /\ rpc[t] = "call"
      BY <1>1, <2>2, LedgerRows
    <3> QED  BY <3>1 DEF SurviveInv, Relies
  <2> QED  BY <2>1, <2>2
<1>2. CASE Erase(t)
  <2>1. rpc[t] = "erase" /\ UNCHANGED <<blob, replicas>> /\ \E n : stored' = stored \ {<<n, on[t]>>}
    BY <1>2 DEF Erase, ledgerVars, dbVars
  <2>2. on[t] \in Hash \ raced => Owners(on[t]) = {}
    BY <2>1 DEF SurviveInv, Relies
  <2> QED  BY <2>1, <2>2, SMT DEF SurviveInv, RowsBacked, Owners
<1>3. CASE ~(LedgerStep(t) \/ LedgerAbort(t)) /\ ~Erase(t)
  <2>1. UNCHANGED <<blob, replicas>>
    BY <1>3, RowsStay
  <2>2. stored \subseteq stored'
    BY <1>3
       DEF Starts, UploadReuse, UploadStore, DeleteLookup, PurgeStarts, Progress, Disturb, Put, PutFails,
           Undo, UndoBlind, Remove, PurgeList, PurgeNext, EraseFails, Audit, Answered, AnswerLost, Hears, Crash
  <2> QED  BY <2>1, <2>2, BackedStay DEF SurviveInv
<1> QED  BY <1>1, <1>2, <1>3

\* What the action of t does to the rows and the bytes, as the others see it.
LEMMA OthersSee ==
    ASSUME Base, NEW t \in Tx, Starts(t) \/ Progress(t) \/ Disturb(t) \/ UndoBlind(t)
    PROVE  /\ stored \subseteq stored' \/ (rpc[t] = "erase" /\ stored \subseteq stored' \cup (Node \X {on[t]}))
           /\ \A h \in Hash : \/ Owners(h)' \subseteq Owners(h)
                              \/ h = on[t] /\ job[t] = "upload" /\ rpc[t] = "call"
<1>1. CASE LedgerStep(t) \/ LedgerAbort(t)
  <2>1. UNCHANGED stored
    BY <1>1, LedgerRows
  <2>2. ASSUME NEW h \in Hash, NEW u \in Owners(h)', u \notin Owners(h)
        PROVE  h = on[t] /\ job[t] = "upload" /\ rpc[t] = "call"
    <3>1. <<u, h>> \in blob' \ blob
      BY <2>2 DEF Owners
    <3>2. <<u, h>> = <<by[t], on[t]>> /\ job[t] = "upload" /\ rpc[t] = "call"
      BY <1>1, <3>1, LedgerRows
    <3> QED  BY <3>2
  <2> QED  BY <2>1, <2>2
<1>2. CASE Erase(t)
  <2>1. rpc[t] = "erase" /\ UNCHANGED blob /\ \E n \in cand[t] : stored' = stored \ {<<n, on[t]>>}
    BY <1>2 DEF Erase, ledgerVars, dbVars
  <2>2. stored \subseteq stored' \cup (Node \X {on[t]})
    BY <2>1, SMT DEF Base, StoreTypeOK
  <2> QED  BY <2>1, <2>2 DEF Owners
<1>3. CASE ~(LedgerStep(t) \/ LedgerAbort(t)) /\ ~Erase(t)
  <2>1. \A h : Owners(h)' = Owners(h)
    BY <1>3, RowsStay
  <2>2. stored \subseteq stored'
    BY <1>3
       DEF Starts, UploadReuse, UploadStore, DeleteLookup, PurgeStarts, Progress, Disturb, Put, PutFails,
           Undo, UndoBlind, Remove, PurgeList, PurgeNext, EraseFails, Audit, Answered, AnswerLost, Hears, Crash
  <2> QED  BY <2>1, <2>2
<1> QED  BY <1>1, <1>2, <1>3

LEMMA StepKeepsSurviveInv ==
    ASSUME Base, Base', SurviveInv, [StoreNext]_vars
    PROVE  SurviveInv'
<1>1. CASE (Outside /\ Record({})) \/ UNCHANGED vars
  <2>1. UNCHANGED <<blob, stored, replicas, reqVars, txVars>> /\ raced \subseteq raced'
    BY <1>1, OutsideEffect, RecordKeeps DEF vars, storeVars, ledgerVars, dbVars, history
  <2>2. ASSUME NEW s \in Tx
        PROVE  Relies(s)'
    <3>1. Relies(s)
      BY DEF SurviveInv
    <3> QED  BY <2>1, <3>1 DEF reqVars, txVars, Relies, Owners
  <2> QED  BY <2>1, <2>2, BackedStay DEF SurviveInv
<1>2. ASSUME NEW t \in Tx, NEW B, Record(B),
             Starts(t) \/ Progress(t) \/ Disturb(t) \/ (UndoBlind(t) /\ B = {on[t]})
      PROVE  SurviveInv'
  <2>1. raced \subseteq raced' /\ Elsewhere(t)
    BY <1>2, RecordKeeps, Frame DEF Base, IInv, Types
  <2>2. Relies(t)'
    <3>1. CASE Starts(t)
      BY <3>1, <2>1, StartsRely
    <3>2. CASE Put(t) \/ PutFails(t)
      BY <3>2, <2>1, UploadRelies
    <3>3. CASE Undo(t) \/ (UndoBlind(t) /\ B = {on[t]})
      <4>1. B \subseteq raced'
        BY <1>2 DEF Record
      <4> QED  BY <3>3, <4>1, UndoRelies
    <3>4. CASE Remove(t) \/ PurgeList(t) \/ PurgeNext(t) \/ Audit(t)
      BY <3>4, RemoveRelies, PurgeRelies, AuditRelies
    <3>5. CASE Erase(t) \/ EraseFails(t)
      BY <3>5, <2>1, EraseRelies
    <3>6. CASE Answered(t) \/ AnswerLost(t)
      BY <3>6, <2>1, HearsRelies
    <3>7. CASE LedgerStep(t) \/ LedgerAbort(t)
      BY <3>7, <2>1, LedgerRelies
    <3>8. CASE Crash(t)
      BY <3>8, EndedRelies DEF Crash, Respond, Set, Base, StoreTypeOK
    <3> QED  BY <1>2, <3>1, <3>2, <3>3, <3>4, <3>5, <3>6, <3>7, <3>8 DEF Progress, Disturb
  <2>3. ASSUME NEW s \in Tx, s # t
        PROVE  Relies(s)'
    <3>1. Same(s) /\ Relies(s)
      BY <2>1, <2>3 DEF Elsewhere, SurviveInv
    <3> QED  BY <1>2, <2>1, <2>3, <3>1, OthersSee, OthersRely
  <2> QED  BY <1>2, <2>1, <2>2, <2>3, ActionsKeepRows DEF SurviveInv
<1> QED  BY <1>1, <1>2, StoreCases

LEMMA StartsSurvive == StoreInit => SurviveInv
<1> SUFFICES ASSUME StoreInit
             PROVE  SurviveInv
  OBVIOUS
<1>1. \A t \in Tx : on[t] = NULL
  BY DEF StoreInit
<1>2. RowsBacked
  BY DEF StoreInit, Init, RowsBacked
<1> QED  BY <1>1, <1>2, ConstantsAssumption DEF SurviveInv, Relies

\* index.ts and servers.ts of the proxy: a blob that has an owner is on every
\* node its row names, whatever requests overlap, fail or are given up, unless
\* an upload of it ran into an erasure or a failed lookup hid its owner.
THEOREM OwnedBytesKept == StoreSpec => []OwnedBytesSurvive
<1>1. SurviveInv => OwnedBytesSurvive
  BY DEF SurviveInv, RowsBacked, OwnedBytesSurvive
<1> QED  BY <1>1, StartsSurvive, AlwaysBase, StepKeepsSurviveInv, PTL DEF StoreSpec

=============================================================================
