---------------------------- MODULE ServerProofs ----------------------------
(***************************************************************************)
(* Six promises of the blob server, for every set of operations, rows,     *)
(* hashes, events and sessions and any number of calls and of starts: a    *)
(* worker's database calls are answered under their own numbers, the rows  *)
(* of the earlier server outlive its migration, deleting a reported blob   *)
(* leaves none of the reports on file, a range response has the bytes it   *)
(* announces, a storage adapter reports what it did, and a preflight can   *)
(* be relied on.                                                           *)
(*                                                                         *)
(* And two of the database mesh, for every set of nodes, rows and clients  *)
(* and any number of migrations and operations: a migration takes effect   *)
(* at most once on a node, and a queued write exactly once before it       *)
(* leaves the queue.  Both invariants tie an effect to the row that the    *)
(* same transaction writes on the node: without the row there is no        *)
(* effect, so the next run of it is the first.                             *)
(***************************************************************************)
EXTENDS Admission, BlobBackend, ByteRange, DbChannel, LegacyMigration,
        ReportDesk, MeshSchema, MeshWrites, TLAPS, WellFoundedInduction

\* Leaves that name no prover are for Zenon.
USE Zenon

-----------------------------------------------------------------------------
(* DbChannel.  Each call is followed from port to port: it is in exactly   *)
(* one place until it is settled, and carries its operation along.         *)

Message == [id : Nat, op : DbOp]
Answer == [id : Nat, told : DbOp \cup {"error"}]
Settled == [id : Nat, op : DbOp, told : DbOp \cup {"error"}]

ChannelTypeOK ==
    /\ counter \in Nat
    /\ waiting \subseteq Message /\ querying \subseteq Message
    /\ toBridge \in Seq(Message) /\ toProxy \in Seq(Answer)
    /\ settled \subseteq Settled

Bridge == 1..Len(toBridge)
Proxy == 1..Len(toProxy)

\* A number stands for one call, and calls that are settled stay settled.
Numbered ==
    /\ \A w \in waiting : w.id <= counter
    /\ \A s \in settled : s.id <= counter
    /\ \A v, w \in waiting : v.id = w.id => v = w
    /\ \A s \in settled : \A w \in waiting : s.id # w.id
    /\ \A s, t \in settled : s.id = t.id => s = t
    /\ \A s \in settled : s.told \in {s.op, "error"}

\* Whatever is under way is for a pending call ...
UnderWayPending ==
    /\ \A i \in Bridge : toBridge[i] \in waiting
    /\ querying \subseteq waiting
    /\ \A i \in Proxy : \E w \in waiting :
           w.id = toProxy[i].id /\ toProxy[i].told \in {w.op, "error"}

\* ... and is the only message for it.
UnderWayOnce ==
    /\ \A i, j \in Bridge : toBridge[i].id = toBridge[j].id => i = j
    /\ \A i, j \in Proxy : toProxy[i].id = toProxy[j].id => i = j
    /\ \A i \in Bridge : \A m \in querying : toBridge[i].id # m.id
    /\ \A i \in Proxy : \A m \in querying : toProxy[i].id # m.id
    /\ \A i \in Bridge : \A j \in Proxy : toBridge[i].id # toProxy[j].id

PendingUnderWay ==
    \A w \in waiting :
        \/ \E i \in Bridge : toBridge[i].id = w.id
        \/ \E m \in querying : m.id = w.id
        \/ \E i \in Proxy : toProxy[i].id = w.id

ChannelInv ==
    ChannelTypeOK /\ Numbered /\ UnderWayPending /\ UnderWayOnce /\ PendingUnderWay

LEMMA CallDbKeeps ==
    ASSUME ChannelInv, NEW op \in DbOp, CallDb(op)
    PROVE  ChannelInv'
<1> DEFINE m == [id |-> counter + 1, op |-> op]
<1>1. /\ counter' = counter + 1 /\ waiting' = waiting \cup {m}
      /\ toBridge' = Append(toBridge, m) /\ UNCHANGED <<querying, toProxy, settled>>
  BY DEF CallDb
<1>2. m \in Message /\ m.id = counter + 1
  BY SMT DEF Message, ChannelInv, ChannelTypeOK
<1>3. /\ Bridge' = 1..(Len(toBridge) + 1) /\ Proxy' = Proxy
      /\ toBridge'[Len(toBridge) + 1] = m
      /\ \A i \in Bridge : toBridge'[i] = toBridge[i]
      /\ Len(toBridge) \in Nat
  BY <1>1, <1>2, SMT DEF Bridge, Proxy, ChannelInv, ChannelTypeOK
<1>4. \A i \in Bridge' : i \in Bridge \/ i = Len(toBridge) + 1
  BY <1>3, SMT DEF Bridge
<1>5. Len(toBridge) + 1 \in Bridge' /\ Bridge \subseteq Bridge'
  BY <1>3, SMT DEF Bridge
<1> HIDE DEF m
<1>6. ChannelTypeOK'
  BY <1>1, <1>2, SMT DEF ChannelInv, ChannelTypeOK
<1>7. Numbered'
  BY <1>1, <1>2, SMT DEF ChannelInv, ChannelTypeOK, Numbered, Message, Settled
<1>8. UnderWayPending'
  BY <1>1, <1>3, <1>4 DEF ChannelInv, UnderWayPending
<1>9. UnderWayOnce'
  <2>1. \A w \in waiting : w.id # m.id
    BY <1>2, SMT DEF ChannelInv, ChannelTypeOK, Numbered, Message
  <2>2. \A i \in Bridge : toBridge[i].id # m.id
    BY <2>1 DEF ChannelInv, UnderWayPending
  <2>3. \A q \in querying : q.id # m.id
    BY <2>1 DEF ChannelInv, UnderWayPending
  <2>4. \A i \in Proxy : toProxy[i].id # m.id
    BY <2>1 DEF ChannelInv, UnderWayPending
  <2> QED  BY <2>2, <2>3, <2>4, <1>1, <1>3, <1>4, SMT DEF ChannelInv, UnderWayOnce
<1>10. PendingUnderWay'
  BY <1>1, <1>2, <1>3, <1>5, SMT DEF ChannelInv, PendingUnderWay
<1> QED  BY <1>6, <1>7, <1>8, <1>9, <1>10 DEF ChannelInv

LEMMA TakeRequestKeeps ==
    ASSUME ChannelInv, TakeRequest
    PROVE  ChannelInv'
<1> DEFINE m == Head(toBridge)
<1>1. /\ toBridge # <<>> /\ querying' = querying \cup {m} /\ toBridge' = Tail(toBridge)
      /\ UNCHANGED <<counter, waiting, toProxy, settled>>
  BY DEF TakeRequest
<1>2. toBridge \in Seq(Message) /\ Len(toBridge) \in Nat \ {0} /\ 1 \in Bridge
  BY <1>1, SMT DEF Bridge, ChannelInv, ChannelTypeOK
<1>3. m = toBridge[1] /\ m \in Message /\ m \in waiting
  BY <1>1, <1>2, SMT DEF Bridge, ChannelInv, UnderWayPending
<1>4. /\ Len(toBridge') = Len(toBridge) - 1 /\ Bridge' = 1..(Len(toBridge) - 1)
      /\ Proxy' = Proxy
  BY <1>1, <1>2, SMT DEF Bridge, Proxy
<1>5. \A i \in Bridge' : i + 1 \in Bridge /\ i + 1 # 1 /\ toBridge'[i] = toBridge[i + 1]
  BY <1>1, <1>2, <1>4, SMT DEF Bridge
<1>6. \A i \in Bridge : i = 1 \/ (i - 1 \in Bridge' /\ toBridge'[i - 1] = toBridge[i])
  BY <1>1, <1>2, <1>4, SMT DEF Bridge
<1> HIDE DEF m
<1>7. ChannelTypeOK'
  BY <1>1, <1>2, <1>3, SMT DEF ChannelInv, ChannelTypeOK
<1>8. Numbered'
  BY <1>1 DEF ChannelInv, Numbered
<1>9. UnderWayPending'
  BY <1>1, <1>3, <1>4, <1>5 DEF ChannelInv, UnderWayPending
<1>10. UnderWayOnce'
  <2>1. \A i \in Bridge' : toBridge'[i].id # m.id
    BY <1>2, <1>3, <1>5, SMT DEF ChannelInv, UnderWayOnce
  <2>2. \A i \in Proxy : toProxy[i].id # m.id
    BY <1>2, <1>3 DEF ChannelInv, UnderWayOnce
  <2>3. ASSUME NEW i \in Bridge', NEW j \in Bridge', toBridge'[i].id = toBridge'[j].id
        PROVE  i = j
    <3>1. i + 1 = j + 1
      BY <1>5, <2>3, SMT DEF ChannelInv, UnderWayOnce
    <3> QED  BY <3>1, <1>4, <1>2, SMT
  <2>4. ASSUME NEW i \in Bridge', NEW q \in querying'
        PROVE  toBridge'[i].id # q.id
    <3>1. CASE q = m
      BY <3>1, <2>1
    <3>2. CASE q \in querying
      <4>1. toBridge[i + 1].id # q.id
        BY <3>2, <1>5 DEF ChannelInv, UnderWayOnce
      <4> QED  BY <4>1, <1>5
    <3> QED  BY <3>1, <3>2, <1>1
  <2>5. \A i \in Proxy' : \A q \in querying' : toProxy'[i].id # q.id
    BY <2>2, <1>1, <1>4 DEF ChannelInv, UnderWayOnce
  <2>6. \A i \in Bridge' : \A j \in Proxy' : toBridge'[i].id # toProxy'[j].id
    BY <1>1, <1>4, <1>5, SMT DEF ChannelInv, UnderWayOnce
  <2>7. \A i, j \in Proxy' : toProxy'[i].id = toProxy'[j].id => i = j
    BY <1>1, <1>4 DEF ChannelInv, UnderWayOnce
  <2> QED  BY <2>3, <2>4, <2>5, <2>6, <2>7 DEF UnderWayOnce
<1>11. PendingUnderWay'
  BY <1>1, <1>3, <1>4, <1>6, SMT DEF ChannelInv, PendingUnderWay
<1> QED  BY <1>7, <1>8, <1>9, <1>10, <1>11 DEF ChannelInv

LEMMA PostAnswerKeeps ==
    ASSUME ChannelInv, NEW m \in querying, PostAnswer(m)
    PROVE  ChannelInv'
<1>1. PICK said \in {m.op, "error"} : toProxy' = Append(toProxy, [id |-> m.id, told |-> said])
  BY DEF PostAnswer
<1> DEFINE a == [id |-> m.id, told |-> said]
<1>2. toProxy' = Append(toProxy, a)
  BY <1>1
<1>3. querying' = querying \ {m} /\ UNCHANGED <<counter, waiting, toBridge, settled>>
  BY DEF PostAnswer
<1>4. m \in Message /\ m \in waiting
  BY DEF ChannelInv, ChannelTypeOK, UnderWayPending
<1>5. a \in Answer /\ a.id = m.id /\ a.told \in {m.op, "error"}
  BY <1>4 DEF Message, Answer
<1> HIDE DEF a
<1>6. /\ Proxy' = 1..(Len(toProxy) + 1) /\ Bridge' = Bridge
      /\ toProxy'[Len(toProxy) + 1] = a
      /\ \A i \in Proxy : toProxy'[i] = toProxy[i]
      /\ Len(toProxy) \in Nat
  BY <1>2, <1>3, <1>5, SMT DEF Bridge, Proxy, ChannelInv, ChannelTypeOK
<1>7. \A i \in Proxy' : i \in Proxy \/ i = Len(toProxy) + 1
  BY <1>6, SMT DEF Proxy
<1>8. Len(toProxy) + 1 \in Proxy' /\ Proxy \subseteq Proxy'
  BY <1>6, SMT DEF Proxy
<1>9. ChannelTypeOK'
  BY <1>2, <1>3, <1>5, SMT DEF ChannelInv, ChannelTypeOK
<1>10. Numbered'
  BY <1>3 DEF ChannelInv, Numbered
<1>11. UnderWayPending'
  BY <1>3, <1>4, <1>5, <1>6, <1>7, SMT DEF ChannelInv, UnderWayPending
<1>12. UnderWayOnce'
  <2>1. \A q \in querying' : q.id # m.id
    BY <1>3, <1>4 DEF ChannelInv, Numbered, UnderWayPending
  <2>2. \A i \in Proxy : toProxy[i].id # m.id
    BY DEF ChannelInv, UnderWayOnce
  <2>3. \A i \in Bridge : toBridge[i].id # m.id
    BY DEF ChannelInv, UnderWayOnce
  <2> QED  BY <2>1, <2>2, <2>3, <1>3, <1>5, <1>6, <1>7, SMT DEF ChannelInv, UnderWayOnce
<1>13. PendingUnderWay'
  BY <1>3, <1>5, <1>6, <1>8, SMT DEF ChannelInv, PendingUnderWay
<1> QED  BY <1>9, <1>10, <1>11, <1>12, <1>13 DEF ChannelInv

LEMMA SettleCallKeeps ==
    ASSUME ChannelInv, SettleCall
    PROVE  ChannelInv'
<1> DEFINE a == Head(toProxy)
           mine == Awaiting(a.id)
<1>1. /\ toProxy # <<>> /\ toProxy' = Tail(toProxy)
      /\ waiting' = waiting \ mine
      /\ settled' = settled \cup {[id |-> w.id, op |-> w.op, told |-> a.told] : w \in mine}
      /\ UNCHANGED <<counter, toBridge, querying>>
  BY DEF SettleCall
<1>2. toProxy \in Seq(Answer) /\ Len(toProxy) \in Nat \ {0} /\ 1 \in Proxy
  BY <1>1, SMT DEF Proxy, ChannelInv, ChannelTypeOK
<1>3. a = toProxy[1]
  BY <1>1, <1>2, SMT
<1>4. PICK c \in waiting : c.id = a.id /\ a.told \in {c.op, "error"}
  BY <1>2, <1>3 DEF ChannelInv, UnderWayPending
<1>5. mine = {c}
  BY <1>4 DEF Awaiting, ChannelInv, Numbered
<1> DEFINE s0 == [id |-> c.id, op |-> c.op, told |-> a.told]
<1>6. settled' = settled \cup {s0} /\ waiting' = waiting \ {c}
  BY <1>1, <1>5
<1>7. c \in Message /\ a \in Answer
  BY <1>2, <1>3, <1>4, SMT DEF ChannelInv, ChannelTypeOK, Proxy
<1> HIDE DEF a, mine
<1>8. s0 \in Settled /\ s0.id = c.id /\ s0.told \in {s0.op, "error"}
  BY <1>4, <1>7 DEF Settled, Message, Answer
<1> HIDE DEF s0
<1>9. /\ Len(toProxy') = Len(toProxy) - 1 /\ Proxy' = 1..(Len(toProxy) - 1)
      /\ Bridge' = Bridge
  BY <1>1, <1>2, SMT DEF Bridge, Proxy
<1>10. \A i \in Proxy' : i + 1 \in Proxy /\ i + 1 # 1 /\ toProxy'[i] = toProxy[i + 1]
  BY <1>1, <1>2, <1>9, SMT DEF Proxy
<1>11. \A i \in Proxy : i = 1 \/ (i - 1 \in Proxy' /\ toProxy'[i - 1] = toProxy[i])
  BY <1>1, <1>2, <1>9, SMT DEF Proxy
<1>12. ChannelTypeOK'
  BY <1>1, <1>2, <1>6, <1>8, SMT DEF ChannelInv, ChannelTypeOK
<1>13. Numbered'
  BY <1>1, <1>4, <1>6, <1>8, SMT DEF ChannelInv, Numbered
<1>14. UnderWayPending'
  <2>1. \A i \in Bridge : toBridge[i].id # c.id
    BY <1>2, <1>3, <1>4, SMT DEF ChannelInv, UnderWayOnce
  <2>2. \A q \in querying : q.id # c.id
    BY <1>2, <1>3, <1>4, SMT DEF ChannelInv, UnderWayOnce
  <2>3. \A i \in Proxy' : toProxy'[i].id # c.id
    BY <1>2, <1>3, <1>4, <1>10, SMT DEF ChannelInv, UnderWayOnce
  <2>4. \A i \in Proxy' : \E w \in waiting' :
            w.id = toProxy'[i].id /\ toProxy'[i].told \in {w.op, "error"}
    BY <2>3, <1>6, <1>10, SMT DEF ChannelInv, UnderWayPending
  <2> QED  BY <2>1, <2>2, <2>4, <1>1, <1>6, <1>9 DEF ChannelInv, UnderWayPending
<1>15. UnderWayOnce'
  <2>1. ASSUME NEW i \in Proxy', NEW j \in Proxy', toProxy'[i].id = toProxy'[j].id
        PROVE  i = j
    <3>1. i + 1 = j + 1
      BY <1>10, <2>1, SMT DEF ChannelInv, UnderWayOnce
    <3> QED  BY <3>1, <1>2, <1>9, SMT
  <2>2. ASSUME NEW i \in Proxy', NEW q \in querying
        PROVE  toProxy'[i].id # q.id
    <3>1. toProxy[i + 1].id # q.id
      BY <1>10 DEF ChannelInv, UnderWayOnce
    <3> QED  BY <3>1, <1>10
  <2>3. \A i \in Bridge' : \A j \in Proxy' : toBridge'[i].id # toProxy'[j].id
    BY <1>1, <1>9, <1>10, SMT DEF ChannelInv, UnderWayOnce
  <2> QED  BY <2>1, <2>2, <2>3, <1>1, <1>9, SMT DEF ChannelInv, UnderWayOnce
<1>16. PendingUnderWay'
  <2>1. \A w \in waiting' : w.id # c.id
    BY <1>4, <1>6 DEF ChannelInv, Numbered
  <2> QED  BY <2>1, <1>1, <1>3, <1>4, <1>6, <1>9, <1>11, SMT DEF ChannelInv, PendingUnderWay
<1> QED  BY <1>12, <1>13, <1>14, <1>15, <1>16 DEF ChannelInv

\* However the queries of any number of calls interleave on the main thread, a
\* worker's promise is settled once and with its own answer (DbProxy.call and
\* port.onmessage).
THEOREM CallsGetTheirAnswers == ChannelSpec => []AnswersMatch
<1>1. ChannelInit => ChannelInv
  BY SMT DEF ChannelInit, ChannelInv, ChannelTypeOK, Numbered, UnderWayPending, UnderWayOnce,
         PendingUnderWay, Bridge, Proxy
<1>2. ChannelInv /\ [ChannelNext]_channelVars => ChannelInv'
  <2> SUFFICES ASSUME ChannelInv, [ChannelNext]_channelVars
               PROVE  ChannelInv'
    OBVIOUS
  <2>1. CASE UNCHANGED channelVars
    BY <2>1, SMT DEF channelVars, ChannelInv, ChannelTypeOK, Numbered, UnderWayPending,
                UnderWayOnce, PendingUnderWay, Bridge, Proxy
  <2> QED  BY <2>1, CallDbKeeps, TakeRequestKeeps, PostAnswerKeeps, SettleCallKeeps
           DEF ChannelNext
<1>3. ChannelInv => AnswersMatch
  <2> SUFFICES ASSUME ChannelInv
               PROVE  AnswersMatch
    OBVIOUS
  <2>1. DOMAIN toBridge = Bridge /\ DOMAIN toProxy = Proxy
    BY SMT DEF ChannelInv, ChannelTypeOK, Bridge, Proxy
  <2>2. {w.id : w \in waiting} =
            {toBridge[i].id : i \in Bridge} \cup {m.id : m \in querying}
            \cup {toProxy[i].id : i \in Proxy}
    BY SMT DEF ChannelInv, UnderWayPending, PendingUnderWay
  <2> QED  BY <2>1, <2>2 DEF ChannelInv, Numbered, AnswersMatch
<1> QED  BY <1>1, <1>2, <1>3, PTL DEF ChannelSpec

-----------------------------------------------------------------------------
(* LegacyMigration.  From the rename until the restore or the last count,  *)
(* the backup holds the rows; outside of it the database does, unless a    *)
(* start was interrupted there.                                            *)

File == [schema : {"none", "legacy", "current"}, rows : SUBSET (LegacyRow \cup NewRow)]
Migrating == {"fresh", "import", "remove", "restore"}

MigrationInv ==
    /\ dbFile \in File /\ bakFile \in File
    /\ boot \in Migrating \cup {"off", "rename", "open", "serving"}
    /\ found \subseteq LegacyRow
    /\ interrupted \in BOOLEAN
    /\ dbFile.schema = "legacy" => found \subseteq dbFile.rows
    /\ boot = "rename" => dbFile.schema = "legacy"
    /\ boot \in Migrating => found \subseteq bakFile.rows
    /\ found \subseteq dbFile.rows \/ found \subseteq bakFile.rows
    /\ boot \notin Migrating /\ interrupted = FALSE => found \subseteq dbFile.rows

LEMMA StepKeepsMigrationInv ==
    ASSUME MigrationInv, [MigrationNext]_migrationVars
    PROVE  MigrationInv'
<1> USE DEF MigrationInv, Migrating
<1>1. CASE StartServer
  BY <1>1 DEF StartServer
<1>2. NoFile \in File
  BY DEF NoFile, File
<1>3. CASE BackUp
  BY <1>2, <1>3 DEF BackUp, NoFile
<1>4. CASE OpenDb
  <2>1. dbFile' \in File /\ dbFile'.rows = dbFile.rows /\ dbFile'.schema = "current"
    BY <1>4 DEF OpenDb, File
  <2> QED  BY <1>4, <2>1 DEF OpenDb
<1>5. ASSUME NEW row \in LegacyRow, ImportRow(row)
      PROVE  MigrationInv'
  <2>1. CASE UNCHANGED <<boot, interrupted>> /\ dbFile' = [dbFile EXCEPT !.rows = @ \cup {row}]
    <3>1. /\ dbFile' \in File /\ dbFile'.schema = dbFile.schema
          /\ dbFile.rows \subseteq dbFile'.rows
      BY <2>1 DEF File
    <3> QED  BY <1>5, <2>1, <3>1 DEF ImportRow
  <2>2. CASE boot' = "off" /\ interrupted' = TRUE /\ UNCHANGED dbFile
    BY <1>5, <2>2 DEF ImportRow
  <2> QED  BY <1>5, <2>1, <2>2 DEF ImportRow
<1>6. CASE VerifyCounts
  BY <1>6 DEF VerifyCounts
<1>7. CASE RemoveFresh
  BY <1>2, <1>7 DEF RemoveFresh, NoFile
<1>8. CASE RestoreBackup
  BY <1>2, <1>8 DEF RestoreBackup
<1>9. ASSUME NEW row \in NewRow, WriteRow(row)
      PROVE  MigrationInv'
  <2>1. /\ dbFile' \in File /\ dbFile'.schema = dbFile.schema
        /\ dbFile.rows \subseteq dbFile'.rows
    BY <1>9 DEF WriteRow, File
  <2> QED  BY <1>9, <2>1 DEF WriteRow
<1>10. CASE KillServer
  <2>1. /\ interrupted' = (interrupted \/ boot \in Migrating) /\ boot' = "off"
        /\ UNCHANGED <<dbFile, bakFile, found>>
    BY <1>10 DEF KillServer
  <2>2. CASE boot \in Migrating
    BY <2>1, <2>2
  <2>3. CASE boot \notin Migrating
    BY <2>1, <2>3
  <2> QED  BY <2>2, <2>3
<1>11. CASE UNCHANGED migrationVars
  BY <1>11 DEF migrationVars
<1> QED  BY <1>1, <1>3, <1>4, <1>5, <1>6, <1>7, <1>8, <1>9, <1>10, <1>11 DEF MigrationNext

\* Wherever any start of the server is cut short, the earlier server's rows are
\* in one of the two files, and in the database of a server that runs unless a
\* start ended inside runMigration.
THEOREM LegacyRowsSurvive == MigrationSpec => []LegacyKept
<1>1. MigrationInit => MigrationInv
  <2> SUFFICES ASSUME MigrationInit
               PROVE  MigrationInv
    OBVIOUS
  <2>1. PICK s \in {"none", "legacy", "current"} :
            dbFile = [schema |-> s, rows |-> IF s = "none" THEN {} ELSE LegacyRow]
    BY DEF MigrationInit
  <2>2. dbFile \in File /\ dbFile.rows \subseteq LegacyRow
    BY <2>1 DEF File
  <2>3. NoFile \in File
    BY DEF NoFile, File
  <2> QED  BY <2>2, <2>3 DEF MigrationInit, MigrationInv, Migrating
<1>2. MigrationInv /\ [MigrationNext]_migrationVars => MigrationInv'
  BY StepKeepsMigrationInv
<1>3. MigrationInv => LegacyKept
  BY DEF MigrationInv, LegacyKept, Migrating
<1> QED  BY <1>1, <1>2, <1>3, PTL DEF MigrationSpec

-----------------------------------------------------------------------------
(* ReportDesk.  The reports an admin saw are all about the blob at hand.   *)

Row == ReportEvent \X Reported

DeskInv ==
    /\ desk \in [at : {"idle", "delete", "dismiss", "ended"},
                 sha : Reported \cup {NoReport}, known : SUBSET Row]
    /\ reports \subseteq Row
    /\ reporting \in [event : ReportEvent \cup {NoReport}, left : SUBSET Reported]
    /\ reporting.left # {} => reporting.event \in ReportEvent
    /\ \A q \in desk.known : q[2] = desk.sha
    /\ desk.at = "ended" => desk.known \cap reports = {}

LEMMA StepKeepsDeskInv ==
    ASSUME DeskInv, [DeskNext]_deskVars
    PROVE  DeskInv'
<1> USE DEF DeskInv
<1>1. CASE DeleteReported
  <2>1. /\ desk' \in [at : {"dismiss"}, sha : Reported \cup {NoReport}, known : SUBSET Row]
        /\ desk'.sha = desk.sha /\ desk'.known = desk.known
    BY <1>1 DEF DeleteReported
  <2> QED  BY <1>1, <2>1 DEF DeleteReported
<1>2. CASE DeleteReportsByBlob
  <2>1. /\ desk' \in [at : {"ended"}, sha : Reported \cup {NoReport}, known : SUBSET Row]
        /\ desk'.sha = desk.sha /\ desk'.known = desk.known
    BY <1>2 DEF DeleteReportsByBlob
  <2>2. reports' = {q \in reports : q[2] # desk.sha}
    BY <1>2 DEF DeleteReportsByBlob, ReportsOn
  <2> QED  BY <1>2, <2>1, <2>2 DEF DeleteReportsByBlob
<1>3. ASSUME NEW e \in ReportEvent, NEW hashes \in (SUBSET Reported) \ {{}},
             SubmitReport(e, hashes)
      PROVE  DeskInv'
  BY <1>3 DEF SubmitReport
<1>4. ASSUME NEW h \in Reported, InsertReport(h)
      PROVE  DeskInv'
  <2> DEFINE row == <<reporting.event, h>>
  <2>1. row \in Row
    BY <1>4 DEF InsertReport, Row
  <2>2. /\ reports' = reports \cup {row}
        /\ desk' = [desk EXCEPT !.known = IF row \in reports THEN @ ELSE @ \ {row}]
    BY <1>4 DEF InsertReport
  <2> HIDE DEF row
  <2>3. /\ desk' \in [at : {"idle", "delete", "dismiss", "ended"},
                     sha : Reported \cup {NoReport}, known : SUBSET Row]
        /\ desk'.at = desk.at /\ desk'.sha = desk.sha
        /\ desk'.known = IF row \in reports THEN desk.known ELSE desk.known \ {row}
    BY <2>2
  <2>4. NoReporting \in [event : ReportEvent \cup {NoReport}, left : SUBSET Reported]
    BY DEF NoReporting
  <2>5. /\ reporting' \in [event : ReportEvent \cup {NoReport}, left : SUBSET Reported]
        /\ reporting'.left # {} => reporting'.event \in ReportEvent
    BY <1>4, <2>4 DEF InsertReport, NoReporting
  <2> QED  BY <2>1, <2>2, <2>3, <2>5, SMT
<1>5. ASSUME NEW h \in Reported, StoreAgain(h)
      PROVE  DeskInv'
  BY <1>5 DEF StoreAgain
<1>6. ASSUME NEW r \in reports, DismissReport(r)
      PROVE  DeskInv'
  BY <1>6 DEF DismissReport
<1>7. ASSUME NEW r \in reports, OpenReport(r)
      PROVE  DeskInv'
  BY <1>7 DEF OpenReport, Row
<1>8. CASE UNCHANGED deskVars
  BY <1>8 DEF deskVars
<1> QED  BY <1>1, <1>2, <1>3, <1>4, <1>5, <1>6, <1>7, <1>8 DEF DeskNext

\* Whatever is filed, dismissed or uploaded meanwhile, delete-blob has removed
\* every report that was on file against the blob when it was opened.
THEOREM DeletedWithItsReports == DeskSpec => []ReportsDismissed
<1>1. DeskInit => DeskInv
  BY SMT DEF DeskInit, DeskInv, NoReporting
<1>2. DeskInv /\ [DeskNext]_deskVars => DeskInv'
  BY StepKeepsDeskInv
<1>3. DeskInv => ReportsDismissed
  BY DEF DeskInv, ReportsDismissed
<1> QED  BY <1>1, <1>2, <1>3, PTL DEF DeskSpec

-----------------------------------------------------------------------------
(* ByteRange.  Range responses are exact for blobs of every size and every *)
(* way of cutting the stored bytes into chunks.                            *)

\* What a state of the reader may hold.
RangeType ==
    /\ blobSize \in Nat \ {0}
    /\ wants \in ({NaN} \cup Nat) \X ({NaN} \cup Nat)
    /\ range \in Int \X Int
    /\ seeks \in BOOLEAN /\ misplaced \in Nat
    /\ rangeAt \in {"parse", "stream", "done", "refused"}
    /\ offset \in Nat /\ skipped \in Nat /\ taken \in Nat

\* Where the two loops stand: a byte of the range that streamed past has been
\* handed on, and none other; skipped counts what was dropped before it.
RangeInv ==
    /\ RangeType
    /\ rangeAt = "parse" => taken = 0 /\ skipped = 0 /\ misplaced = 0
    /\ rangeAt \in {"stream", "done"} =>
         /\ 0 <= range[1] /\ range[1] <= range[2] /\ range[2] < blobSize
         /\ misplaced = 0 /\ taken <= Length
         /\ rangeAt = "done" => taken = Length
    /\ rangeAt = "stream" =>
         /\ offset <= blobSize /\ taken < Length
         /\ seeks => offset = range[1] + taken
         /\ ~seeks /\ skipped < range[1] => taken = 0 /\ offset = skipped
         /\ ~seeks /\ skipped >= range[1] => offset = range[1] + taken

\* parseRange: a range it accepts lies within the blob and is not empty.
LEMMA ParsedWithin ==
    ASSUME NEW total \in Nat, NEW first \in {NaN} \cup Nat,
           NEW last \in {NaN} \cup Nat
    PROVE  LET p == ParseRange(first, last, total) IN
             /\ p \in Int \X Int
             /\ p # Unsatisfiable =>
                  0 <= p[1] /\ p[1] <= p[2] /\ p[2] < total
BY SMT DEF ParseRange, NaN, Unsatisfiable

LEMMA RangeStarts == RangeInit => RangeInv
BY MaxBlobIsNat, SMT DEF RangeInit, RangeInv, RangeType, Unsatisfiable, NaN

LEMMA OpenKeeps == RangeInv /\ OpenRange => RangeInv'
<1> SUFFICES ASSUME RangeInv, OpenRange PROVE RangeInv'
    OBVIOUS
<1> DEFINE p == ParseRange(wants[1], wants[2], blobSize)
<1>1. /\ p \in Int \X Int
      /\ p # Unsatisfiable => 0 <= p[1] /\ p[1] <= p[2] /\ p[2] < blobSize
    <2>1. blobSize \in Nat /\ wants[1] \in {NaN} \cup Nat /\ wants[2] \in {NaN} \cup Nat
        BY DEF RangeInv, RangeType
    <2> QED
        BY <2>1, ParsedWithin
<1>2. /\ range' = p
      /\ rangeAt' = IF p = Unsatisfiable THEN "refused" ELSE "stream"
      /\ offset' = IF seeks THEN p[1] ELSE 0
    BY DEF OpenRange
<1> HIDE DEF p
<1>3. CASE p = Unsatisfiable
    BY <1>1, <1>2, <1>3 DEF OpenRange, RangeInv, RangeType, Unsatisfiable, NaN
<1>4. CASE p # Unsatisfiable
    BY <1>1, <1>2, <1>4, SMT DEF OpenRange, RangeInv, RangeType, Length
<1> QED
    BY <1>3, <1>4

LEMMA ChunkKeeps ==
    ASSUME NEW n \in Nat \ {0}, RangeInv, Chunk(n)
    PROVE  RangeInv'
<1>1. /\ blobSize' = blobSize /\ wants' = wants /\ range' = range /\ seeks' = seeks
      /\ rangeAt = "stream" /\ offset + n <= blobSize
    BY DEF Chunk
<1>2. CASE seeks
    <2>1. LimitChunk(n)
        BY <1>2 DEF Chunk
    <2> QED
        BY <1>1, <1>2, <2>1, SMT
           DEF LimitChunk, Enqueue, AtMost, RangeInv, RangeType, Length
<1>3. CASE ~seeks
    <2>1. SliceChunk(n)
        BY <1>3 DEF Chunk
    <2>2. CASE skipped < range[1] /\ n <= range[1] - skipped
        BY <1>1, <1>3, <2>1, <2>2, SMTT(30)
           DEF SliceChunk, RangeInv, RangeType, Length
    <2>3. CASE skipped < range[1] /\ n > range[1] - skipped
        BY <1>1, <1>3, <2>1, <2>3, SMTT(30)
           DEF SliceChunk, Enqueue, AtMost, RangeInv, RangeType, Length
    <2>4. CASE skipped >= range[1]
        BY <1>1, <1>3, <2>1, <2>4, SMT
           DEF SliceChunk, Enqueue, AtMost, RangeInv, RangeType, Length
    <2>5. skipped \in Nat /\ range[1] \in Int
        BY DEF RangeInv, RangeType
    <2>6. skipped < range[1] \/ skipped >= range[1]
        BY <2>5, SMT
    <2>7. n <= range[1] - skipped \/ n > range[1] - skipped
        BY <2>5, SMT
    <2> QED
        BY <2>2, <2>3, <2>4, <2>6, <2>7
<1> QED
    BY <1>2, <1>3

\* The stream cannot end before the range is complete: the blob's last byte
\* has streamed past, and the range ends before it.
LEMMA EndKeeps == RangeInv /\ StreamEnds => RangeInv'
BY SMT DEF RangeInv, RangeType, StreamEnds, Length

\* GET /:sha256 with a Range header sends exactly the bytes it announces
\* (routes/blobs.ts, storage/local.ts), for every blob and every chunking.
THEOREM RangeResponsesExact == RangeSpec => []RangeExact
<1>1. RangeInv /\ [RangeNext]_rangeVars => RangeInv'
    <2> SUFFICES ASSUME RangeInv, [RangeNext]_rangeVars PROVE RangeInv'
        OBVIOUS
    <2>1. CASE OpenRange
        BY <2>1, OpenKeeps
    <2>2. ASSUME NEW n \in 1..MaxBlob, Chunk(n) PROVE RangeInv'
        BY <2>2, ChunkKeeps, MaxBlobIsNat, SMT
    <2>3. CASE StreamEnds
        BY <2>3, EndKeeps
    <2>4. CASE UNCHANGED rangeVars
        BY <2>4 DEF rangeVars, RangeInv, RangeType, Length
    <2> QED
        BY <2>1, <2>2, <2>3, <2>4 DEF RangeNext
<1>2. RangeInv => RangeExact
    BY DEF RangeInv, RangeType, RangeExact
<1> QED
    BY RangeStarts, <1>1, <1>2, PTL DEF RangeSpec

-----------------------------------------------------------------------------
(* BlobBackend.  A session is followed from its first byte: where its file *)
(* is, whether it met the blob, and, as long as nothing was removed, that  *)
(* what it met is still there.                                             *)

Running == [at : {"written", "failed", "drop", "send", "sent", "unsent", "stored", "refused"},
            key : BlobKey, met : BOOLEAN]
Over == {"stored", "refused"}

\* Where a session stands, and what that says of its file and its blob.
SessionSound(w) ==
    /\ session[w] \in {NoSession, [at |-> "dead"]} \cup Running
    /\ session[w].at \in {"drop", "sent", "stored"} => session[w].met = TRUE
    /\ session[w].at \in Over => w \notin spool
    /\ session[w].at \in {"drop", "sent", "stored"} /\ erased = 0 => session[w].key \in objects

Reading == [at : {"has", "read", "served", "missing"}, key : BlobKey,
            why : SUBSET {"absent", "removed", "error", "public"}]

\* A GET that went on to read found the blob, so that a miss has its reason.
GetSound ==
    /\ get \in {NoGet} \cup Reading
    /\ get.at \in {"has", "read"} /\ get.key \notin objects => get.why # {}
    /\ get.at = "missing" => get.why # {}

BackendInv ==
    /\ erased \in Nat
    /\ session = [w \in Session |-> session[w]]
    /\ \A w \in Session : SessionSound(w)
    /\ GetSound

\* A step of session w that removes no object and no other session's file.
LEMMA SessionMoves ==
    ASSUME BackendInv, NEW w \in Session, NEW q \in Running,
           session' = [session EXCEPT ![w] = q],
           objects \subseteq objects', spool' \subseteq spool \cup {w},
           erased' = erased, get' = get,
           q.at \in {"drop", "sent", "stored"} => q.met = TRUE /\ (erased = 0 => q.key \in objects'),
           q.at \in Over => w \notin spool'
    PROVE  BackendInv'
<1>1. /\ session' = [v \in Session |-> session'[v]] /\ session'[w] = q
      /\ \A v \in Session \ {w} : session'[v] = session[v]
  BY DEF BackendInv
<1>2. SessionSound(w)'
  BY <1>1 DEF SessionSound
<1>3. ASSUME NEW v \in Session, v # w
      PROVE  SessionSound(v)'
  <2>1. SessionSound(v) /\ session'[v] = session[v]
    BY <1>1, <1>3 DEF BackendInv
  <2> QED  BY <2>1, <1>3 DEF SessionSound
<1>4. GetSound'
  BY DEF BackendInv, GetSound
<1>5. erased' \in Nat
  BY DEF BackendInv
<1> QED  BY <1>1, <1>2, <1>3, <1>4, <1>5 DEF BackendInv

\* A session that is neither new nor dead has a key, and keeps it.
LEMMA SessionRuns ==
    ASSUME BackendInv, NEW w \in Session, session[w].at \notin {"idle", "dead"}
    PROVE  session[w] \in Running
BY SMT DEF BackendInv, SessionSound, NoSession

LEMMA SessionTo ==
    ASSUME BackendInv, NEW w \in Session, session[w] \in Running,
           NEW step \in {"written", "failed", "drop", "send", "sent", "unsent", "stored", "refused"},
           NEW met \in BOOLEAN
    PROVE  LET q == [session[w] EXCEPT !.at = step, !.met = met]
               p == [session[w] EXCEPT !.at = step]
           IN  /\ q \in Running /\ q.at = step /\ q.met = met /\ q.key = session[w].key
               /\ p \in Running /\ p.at = step /\ p.met = session[w].met /\ p.key = session[w].key
BY DEF Running

LEMMA SetupKeeps ==
    ASSUME BackendInv, Setup
    PROVE  BackendInv'
BY DEF Setup, BackendInv, SessionSound, GetSound

LEMMA DeathKeeps ==
    ASSUME BackendInv, ProcessDies
    PROVE  BackendInv'
<1>1. /\ session' = [w \in Session |-> IF session[w].at \in {"idle", "stored", "refused"}
                                       THEN session[w] ELSE [at |-> "dead"]]
      /\ get' = NoGet /\ UNCHANGED <<objects, spool, erased>>
  BY DEF ProcessDies
<1>2. ASSUME NEW w \in Session
      PROVE  SessionSound(w)'
  <2>1. SessionSound(w) /\ session'[w] \in {session[w], [at |-> "dead"]}
    BY <1>1 DEF BackendInv
  <2>2. CASE session'[w] = session[w]
    BY <1>1, <2>1, <2>2 DEF SessionSound
  <2>3. CASE session'[w] = [at |-> "dead"]
    BY <1>1, <2>3, SMT DEF SessionSound, Over
  <2> QED  BY <2>1, <2>2, <2>3
<1>3. GetSound'
  BY <1>1 DEF GetSound, NoGet
<1> QED  BY <1>1, <1>2, <1>3 DEF BackendInv

LEMMA BeginKeeps ==
    ASSUME BackendInv, NEW w \in Session, NEW k \in BlobKey, BeginSession(w, k)
    PROVE  BackendInv'
<1> DEFINE q == [at |-> "written", key |-> k, met |-> FALSE]
<1>1. q \in Running /\ q.at = "written"
  BY DEF Running
<1>2. /\ session' = [session EXCEPT ![w] = q]
      /\ spool' = spool \cup {w} /\ UNCHANGED <<objects, get, erased>>
  BY DEF BeginSession
<1> HIDE DEF q
<1> QED  BY <1>1, <1>2, SessionMoves DEF Over

LEMMA AbortKeeps ==
    ASSUME BackendInv, NEW w \in Session, AbortSession(w)
    PROVE  BackendInv'
<1> DEFINE p == [session[w] EXCEPT !.at = "refused"]
<1>1. session[w] \in Running
  BY SessionRuns DEF AbortSession
<1>2. p \in Running /\ p.at = "refused"
  BY <1>1, SessionTo
<1>3. session' = [session EXCEPT ![w] = p] /\ spool' = spool \ {w} /\ UNCHANGED <<objects, get, erased>>
  BY DEF AbortSession, To, BackendInv
<1> HIDE DEF p
<1> QED  BY <1>2, <1>3, SessionMoves

\* has() says yes only of a blob that is there.
LEMMA CommitKeeps ==
    ASSUME BackendInv, NEW w \in Session, CommitChecks(w)
    PROVE  BackendInv'
<1>1. session[w] \in Running
  BY SessionRuns DEF CommitChecks
<1>2. PICK step \in {"drop", "send"}, met \in BOOLEAN :
        /\ met = (session[w].key \in objects)
        /\ step = "drop" => session[w].key \in objects
        /\ session' = [session EXCEPT ![w] = [session[w] EXCEPT !.at = step, !.met = met]]
  <2>1. PICK there \in Has(session[w].key) :
          session' = [session EXCEPT ![w].at = IF there THEN "drop" ELSE "send",
                                     ![w].met = session[w].key \in objects]
    BY DEF CommitChecks
  <2>2. PICK step \in {"drop", "send"} : step = IF there THEN "drop" ELSE "send"
    OBVIOUS
  <2>3. PICK met \in BOOLEAN : met = (session[w].key \in objects)
    <3>1. (session[w].key \in objects) \in BOOLEAN
      BY SMT
    <3> QED  BY <3>1
  <2>4. session' = [session EXCEPT ![w].at = step, ![w].met = met]
    BY <2>1, <2>2, <2>3
  <2>5. session' = [session EXCEPT ![w] = [session[w] EXCEPT !.at = step, !.met = met]]
    BY <2>4 DEF BackendInv
  <2>6. step = "drop" => session[w].key \in objects
    BY <2>1, <2>2 DEF Has
  <2> QED  BY <2>3, <2>5, <2>6
<1> DEFINE q == [session[w] EXCEPT !.at = step, !.met = met]
<1>3. q \in Running /\ q.at = step /\ q.met = met /\ q.key = session[w].key
  BY <1>1, <1>2 DEF Running
<1>4. session' = [session EXCEPT ![w] = q] /\ UNCHANGED <<objects, spool, get, erased>>
  BY <1>2 DEF CommitChecks
<1> HIDE DEF q
<1> QED  BY <1>2, <1>3, <1>4, SessionMoves DEF Over

LEMMA DropKeeps ==
    ASSUME BackendInv, NEW w \in Session, DropSource(w)
    PROVE  BackendInv'
<1> DEFINE p == [session[w] EXCEPT !.at = "stored"]
<1>1. session[w] \in Running
  BY SessionRuns DEF DropSource
<1>2. p \in Running /\ p.at = "stored" /\ p.met = session[w].met /\ p.key = session[w].key
  BY <1>1, SessionTo
<1>3. session[w].met = TRUE /\ (erased = 0 => session[w].key \in objects)
  BY DEF DropSource, BackendInv, SessionSound
<1>4. session' = [session EXCEPT ![w] = p] /\ spool' = spool \ {w} /\ UNCHANGED <<objects, get, erased>>
  BY DEF DropSource, To, BackendInv
<1> HIDE DEF p
<1> QED  BY <1>2, <1>3, <1>4, SessionMoves

LEMMA FailKeeps ==
    ASSUME BackendInv, NEW w \in Session, session[w] \in Running, To(w, "failed"),
           UNCHANGED <<objects, spool, get, erased>>
    PROVE  BackendInv'
<1> DEFINE p == [session[w] EXCEPT !.at = "failed"]
<1>1. p \in Running /\ p.at = "failed"
  BY DEF Running
<1>2. session' = [session EXCEPT ![w] = p]
  BY DEF To, BackendInv
<1> HIDE DEF p
<1> QED  BY <1>1, <1>2, SessionMoves DEF Over

LEMMA RenameKeeps ==
    ASSUME BackendInv, NEW w \in Session, RenameSource(w)
    PROVE  BackendInv'
<1>1. session[w] \in Running /\ UNCHANGED <<get, erased>>
  BY SessionRuns DEF RenameSource
<1>2. CASE To(w, "failed") /\ UNCHANGED <<objects, spool>>
  BY <1>1, <1>2, FailKeeps
<1>3. CASE /\ objects' = objects \cup {session[w].key} /\ spool' = spool \ {w}
           /\ session' = [session EXCEPT ![w].at = "stored", ![w].met = TRUE]
  <2> DEFINE q == [session[w] EXCEPT !.at = "stored", !.met = TRUE]
  <2>1. q \in Running /\ q.at = "stored" /\ q.met = TRUE /\ q.key = session[w].key
    BY <1>1, SessionTo
  <2>2. session' = [session EXCEPT ![w] = q]
    BY <1>3 DEF BackendInv
  <2> HIDE DEF q
  <2> QED  BY <1>1, <1>3, <2>1, <2>2, SessionMoves
<1> QED  BY <1>2, <1>3 DEF RenameSource

LEMMA PutKeeps ==
    ASSUME BackendInv, NEW w \in Session, PutObject(w)
    PROVE  BackendInv'
<1>1. session[w] \in Running /\ session[w].met \in BOOLEAN /\ UNCHANGED <<spool, get, erased>>
  BY SessionRuns DEF PutObject, Running
<1>2. CASE To(w, "failed") /\ UNCHANGED objects
  BY <1>1, <1>2, FailKeeps
<1>3. ASSUME NEW took \in BOOLEAN, NEW ok \in BOOLEAN, ok => took,
             objects' = IF took THEN objects \cup {session[w].key} ELSE objects,
             session' = [session EXCEPT ![w].at = IF ok THEN "sent" ELSE "unsent", ![w].met = @ \/ took]
      PROVE  BackendInv'
  <2>1. PICK step \in {"sent", "unsent"}, met \in BOOLEAN :
          /\ step = IF ok THEN "sent" ELSE "unsent"
          /\ met = (session[w].met \/ took)
    BY <1>1
  <2> DEFINE q == [session[w] EXCEPT !.at = step, !.met = met]
  <2>2. q \in Running /\ q.at = step /\ q.met = met /\ q.key = session[w].key
    BY <1>1, <2>1 DEF Running
  <2>3. session' = [session EXCEPT ![w] = q]
    BY <1>3, <2>1 DEF BackendInv
  <2>4. step = "sent" => met = TRUE /\ session[w].key \in objects'
    BY <1>3, <2>1
  <2>5. objects \subseteq objects'
    BY <1>3
  <2> HIDE DEF q
  <2> QED  BY <1>1, <2>1, <2>2, <2>3, <2>4, <2>5, SessionMoves DEF Over
<1> QED  BY <1>2, <1>3 DEF PutObject

LEMMA CleanUpKeeps ==
    ASSUME BackendInv, NEW w \in Session, CleanUp(w)
    PROVE  BackendInv'
<1>1. session[w] \in Running
  BY SessionRuns DEF CleanUp
<1>2. PICK step \in {"stored", "failed"} : To(w, step) /\ (step = "stored" => session[w].at = "sent")
  BY DEF CleanUp
<1> DEFINE p == [session[w] EXCEPT !.at = step]
<1>3. p \in Running /\ p.at = step /\ p.met = session[w].met /\ p.key = session[w].key
  BY <1>1, <1>2 DEF Running
<1>4. step = "stored" => session[w].met = TRUE /\ (erased = 0 => session[w].key \in objects)
  BY <1>2 DEF BackendInv, SessionSound
<1>5. session' = [session EXCEPT ![w] = p] /\ spool' = spool \ {w} /\ UNCHANGED <<objects, get, erased>>
  BY <1>2 DEF CleanUp, To, BackendInv
<1> HIDE DEF p
<1> QED  BY <1>2, <1>3, <1>4, <1>5, SessionMoves DEF Over

LEMMA RemoveKeeps ==
    ASSUME BackendInv, NEW k \in BlobKey, RemoveObject(k)
    PROVE  BackendInv'
<1>1. /\ objects' \in {objects, objects \ {k}} /\ erased' = erased + 1 /\ UNCHANGED <<spool, session>>
      /\ get' = IF get.at # "idle" /\ get.key = k /\ k \notin objects'
                THEN [get EXCEPT !.why = @ \cup {"removed"}] ELSE get
  BY DEF RemoveObject
<1>2. erased' \in Nat /\ erased' # 0
  BY <1>1, SMT DEF BackendInv
<1>3. ASSUME NEW w \in Session
      PROVE  SessionSound(w)'
  BY <1>1, <1>2 DEF BackendInv, SessionSound
<1>4. GetSound'
  <2>1. CASE get.at = "idle"
    BY <1>1, <2>1 DEF BackendInv, GetSound, NoGet
  <2>2. CASE get.at # "idle"
    <3>1. get \in Reading /\ get.key \in BlobKey
      BY <2>2, SMT DEF BackendInv, GetSound, NoGet, Reading
    <3> DEFINE g == [get EXCEPT !.why = @ \cup {"removed"}]
    <3>2. g \in Reading /\ g.at = get.at /\ g.key = get.key /\ g.why # {}
      BY <3>1 DEF Reading
    <3>3. get' = IF get.key = k /\ k \notin objects' THEN g ELSE get
      BY <1>1, <2>2
    <3> HIDE DEF g
    <3>4. CASE get' = g
      BY <3>2, <3>4 DEF GetSound
    <3>5. CASE get' = get /\ ~(get.key = k /\ k \notin objects')
      BY <1>1, <3>5 DEF BackendInv, GetSound
    <3> QED  BY <3>3, <3>4, <3>5
  <2> QED  BY <2>1, <2>2
<1> QED  BY <1>1, <1>2, <1>3, <1>4 DEF BackendInv

\* A step of the GET.
LEMMA GetMoves ==
    ASSUME BackendInv, GetSound', UNCHANGED <<objects, spool, session, erased>>
    PROVE  BackendInv'
BY DEF BackendInv, SessionSound

LEMMA BeginGetKeeps ==
    ASSUME BackendInv, NEW k \in BlobKey, BeginGet(k)
    PROVE  BackendInv'
<1> DEFINE why == IF k \in objects THEN {} ELSE {"absent"}
           g == [at |-> "has", key |-> k, why |-> why]
<1>1. get' = g /\ UNCHANGED <<objects, spool, session, erased>>
  BY DEF BeginGet
<1>2. why \in SUBSET {"absent"} /\ (k \notin objects => why # {})
  OBVIOUS
<1> HIDE DEF why
<1>3. g \in Reading /\ g.at = "has" /\ g.key = k /\ g.why = why
  BY <1>2 DEF Reading
<1> HIDE DEF g
<1>4. GetSound'
  BY <1>1, <1>2, <1>3 DEF GetSound
<1> QED  BY <1>1, <1>4, GetMoves

LEMMA GetHasKeeps ==
    ASSUME BackendInv, GetHas
    PROVE  BackendInv'
<1>1. get \in Reading /\ get.at = "has" /\ UNCHANGED <<objects, spool, session, erased>>
  BY SMT DEF BackendInv, GetSound, NoGet, GetHas
<1>2. PICK at \in {"read", "missing"}, why \in SUBSET {"absent", "removed", "error", "public"} :
        /\ get' = [get EXCEPT !.at = at, !.why = why]
        /\ why = get.why \/ why # {}
        /\ at = "read" => get.key \in objects
        /\ at = "missing" /\ get.key \in objects => why # {}
  <2>1. PICK there \in Has(get.key) :
          get' = [get EXCEPT !.at = IF there THEN "read" ELSE "missing",
                             !.why = IF there = (get.key \in objects) THEN @ ELSE @ \cup {"error"}]
    BY DEF GetHas
  <2>2. get.why \in SUBSET {"absent", "removed", "error", "public"}
    BY <1>1 DEF Reading
  <2>3. there => get.key \in objects
    BY <2>1 DEF Has
  <2>4. CASE there = (get.key \in objects)
    <3>1. get' = [get EXCEPT !.at = IF there THEN "read" ELSE "missing", !.why = get.why]
      BY <2>1, <2>4
    <3> QED  BY <2>2, <2>3, <2>4, <3>1
  <2>5. CASE there # (get.key \in objects)
    <3> DEFINE why == get.why \cup {"error"}
    <3>1. get' = [get EXCEPT !.at = IF there THEN "read" ELSE "missing", !.why = why]
      BY <2>1, <2>5
    <3>2. why \in SUBSET {"absent", "removed", "error", "public"} /\ why # {}
      BY <2>2
    <3> HIDE DEF why
    <3> QED  BY <2>3, <3>1, <3>2
  <2> QED  BY <2>4, <2>5
<1>3. get' \in Reading /\ get'.at = at /\ get'.key = get.key /\ get'.why = why
  BY <1>1, <1>2 DEF Reading
<1>4. GetSound'
  BY <1>1, <1>2, <1>3, SMT DEF BackendInv, GetSound
<1> QED  BY <1>1, <1>4, GetMoves

LEMMA ReadKeeps ==
    ASSUME BackendInv, ReadObject
    PROVE  BackendInv'
<1>1. /\ get \in Reading /\ get.at = "read" /\ UNCHANGED <<objects, spool, session, erased>>
      /\ get.key \notin objects => get.why # {}
  <2>1. get.at = "read" /\ UNCHANGED <<objects, spool, session, erased>>
    BY DEF ReadObject
  <2> QED  BY <2>1, SMT DEF BackendInv, GetSound, NoGet
<1>2. CASE get' = [get EXCEPT !.at = "served"]
  <2>1. get' \in Reading /\ get'.at = "served"
    BY <1>1, <1>2 DEF Reading
  <2>2. GetSound'
    BY <2>1 DEF GetSound
  <2> QED  BY <1>1, <2>2, GetMoves
<1>3. CASE get.key \notin objects /\ get' = [get EXCEPT !.at = "missing"]
  <2>1. get' \in Reading /\ get'.at = "missing" /\ get'.why # {}
    BY <1>1, <1>3 DEF Reading
  <2>2. GetSound'
    BY <2>1 DEF GetSound
  <2> QED  BY <1>1, <2>2, GetMoves
<1>4. CASE get' = [get EXCEPT !.at = "missing",
                              !.why = @ \cup {IF adapter = "s3 public" THEN "public" ELSE "error"}]
  <2>1. PICK reason \in {"public", "error"} : reason = IF adapter = "s3 public" THEN "public" ELSE "error"
    OBVIOUS
  <2>2. get' = [get EXCEPT !.at = "missing", !.why = get.why \cup {reason}]
    BY <1>4, <2>1
  <2>3. get' \in Reading /\ get'.at = "missing" /\ get'.why # {}
    BY <1>1, <2>2 DEF Reading
  <2>4. GetSound'
    BY <2>3 DEF GetSound
  <2> QED  BY <1>1, <2>4, GetMoves
<1> QED  BY <1>2, <1>3, <1>4 DEF ReadObject

\* Whatever keys and sessions there are, however often the process dies and
\* blobs are removed: a commit that succeeded met its blob, a session that is
\* over has left no local file, and a miss has its reason (storage/s3.ts,
\* storage/local.ts).
THEOREM AdaptersHonest == BackendSpec => []StoreHonest
<1>1. BackendInit => BackendInv
  <2> SUFFICES ASSUME BackendInit
               PROVE  BackendInv
    OBVIOUS
  <2>1. session = [w \in Session |-> NoSession] /\ get = NoGet /\ erased = 0
    BY DEF BackendInit
  <2>2. ASSUME NEW w \in Session
        PROVE  SessionSound(w)
    <3>1. session[w] = NoSession /\ NoSession.at = "idle"
      BY <2>1 DEF NoSession
    <3> QED  BY <3>1 DEF SessionSound, Over
  <2>3. GetSound
    BY <2>1 DEF GetSound, NoGet
  <2> QED  BY <2>1, <2>2, <2>3 DEF BackendInv
<1>2. BackendInv /\ [BackendNext]_backendVars => BackendInv'
  <2> SUFFICES ASSUME BackendInv, [BackendNext]_backendVars
               PROVE  BackendInv'
    OBVIOUS
  <2>1. CASE UNCHANGED backendVars
    BY <2>1 DEF backendVars, BackendInv, SessionSound, GetSound
  <2> QED  BY <2>1, SetupKeeps, DeathKeeps, BeginKeeps, AbortKeeps, CommitKeeps, DropKeeps, RenameKeeps,
              PutKeeps, CleanUpKeeps, RemoveKeeps, BeginGetKeeps, GetHasKeeps, ReadKeeps DEF BackendNext
<1>3. BackendInv => StoreHonest
  BY DEF BackendInv, SessionSound, GetSound, StoreHonest, Over
<1> QED  BY <1>1, <1>2, <1>3, PTL DEF BackendSpec

-----------------------------------------------------------------------------
(* Admission.  Apart from the clock, the pool and the digest, the checks   *)
(* of HEAD and of PUT are the same set of facts about the request: the     *)
(* invariant says which of them an answer to HEAD has settled.             *)

\* The first check that is not empty decides: an answer is one of the refusals,
\* and is Ok just when there is none.
LEMMA FirstCheckDecides ==
    ASSUME NEW n \in 1..8, NEW c, DOMAIN c = 1..n, \A i \in 1..n : Ok \notin c[i]
    PROVE  \/ FirstRefusal(c) = Ok /\ \A i \in 1..n : c[i] = {}
           \/ FirstRefusal(c) # Ok /\ \E i \in 1..n : FirstRefusal(c) \in c[i]
<1>1. CASE \A i \in 1..n : c[i] = {}
  BY <1>1 DEF FirstRefusal
<1>2. CASE \E i \in 1..n : c[i] # {}
  <2>1. \E i \in 1..n : c[i] # {} /\ \A j \in 1..(i - 1) : c[j] = {}
    <3> DEFINE P(i) == i <= n /\ c[i] # {}
    <3>1. P(1) \/ P(2) \/ P(3) \/ P(4) \/ P(5) \/ P(6) \/ P(7) \/ P(8)
      BY <1>2, SMT
    <3>2. ASSUME NEW i \in 1..8, P(i), \A j \in 1..(i - 1) : ~P(j)
          PROVE  \E k \in 1..n : c[k] # {} /\ \A j \in 1..(k - 1) : c[j] = {}
      <4>1. i \in 1..n /\ c[i] # {}
        BY <3>2, SMT
      <4>2. \A j \in 1..(i - 1) : c[j] = {}
        BY <3>2, <4>1, SMT
      <4> QED  BY <4>1, <4>2
    <3> HIDE DEF P
    <3>3. \E i \in 1..8 : P(i) /\ \A j \in 1..(i - 1) : ~P(j)
      BY <3>1, SMT
    <3> QED  BY <3>2, <3>3
  <2> DEFINE i == CHOOSE k \in DOMAIN c : c[k] # {} /\ \A j \in 1..(k - 1) : c[j] = {}
  <2>2. i \in 1..n /\ c[i] # {}
    BY <2>1
  <2>3. FirstRefusal(c) = CHOOSE a \in c[i] : TRUE
    BY <1>2 DEF FirstRefusal
  <2> HIDE DEF i
  <2>4. FirstRefusal(c) \in c[i]
    BY <2>2, <2>3
  <2> QED  BY <2>2, <2>4
<1> QED  BY <1>1, <1>2

\* What a token is refused for at any time, and what only time decides.
Clean(t) == t.flaw \notin {"encoding", "kind", "expiration", "t", "signature"} /\ ExtractHostname(t.server)
Future(t) == t.created - nodeTime > ClockSkew
Late(t) == t.expiration < nodeTime

LEMMA RefusalIsNotOk ==
    ASSUME NEW code \in {400, 401, 403, 411, 413, 415, 503}, NEW why
    PROVE  <<code, why>> # Ok /\ <<code, why>>[2] = why
<1>1. Ok[1] = 200 /\ <<code, why>>[1] = code
  BY SMT DEF Ok
<1> QED  BY <1>1, SMT

LEMMA ParseRefuses ==
    ASSUME NEW t
    PROVE  /\ \A a \in ParseAuthEvent(t) : \/ ~Clean(t) /\ a # Ok
                                           \/ Future(t) /\ a = <<400, "future">>
                                           \/ Late(t) /\ a = <<401, "expired">>
           /\ ParseAuthEvent(t) = {} => Clean(t) /\ ~Future(t) /\ ~Late(t)
<1>1. CASE t.flaw \in {"encoding", "kind"}
  <2>1. ParseAuthEvent(t) = {<<400, t.flaw>>}
    BY <1>1 DEF ParseAuthEvent
  <2>2. ~Clean(t)
    BY <1>1 DEF Clean
  <2>3. <<400, t.flaw>> # Ok
    BY RefusalIsNotOk, SMT
  <2> QED  BY <2>1, <2>2, <2>3
<1>2. CASE t.flaw \notin {"encoding", "kind"} /\ Future(t)
  <2>1. ParseAuthEvent(t) = {<<400, "future">>}
    BY <1>2, SMT DEF ParseAuthEvent, Future
  <2> QED  BY <1>2, <2>1
<1>3. CASE t.flaw = "expiration" /\ ~Future(t)
  <2>1. ParseAuthEvent(t) = {<<400, "expiration">>}
    BY <1>3, SMT DEF ParseAuthEvent, Future
  <2>2. ~Clean(t)
    BY <1>3 DEF Clean
  <2>3. <<400, "expiration">> # Ok
    BY RefusalIsNotOk, SMT
  <2> QED  BY <2>1, <2>2, <2>3
<1>4. CASE t.flaw \notin {"encoding", "kind", "expiration"} /\ ~Future(t) /\ Late(t)
  <2>1. ParseAuthEvent(t) = {<<401, "expired">>}
    BY <1>4, SMT DEF ParseAuthEvent, Future, Late
  <2> QED  BY <1>4, <2>1
<1>5. CASE t.flaw = "t" /\ ~Future(t) /\ ~Late(t)
  <2>1. ParseAuthEvent(t) = {<<400, "t">>}
    BY <1>5, SMT DEF ParseAuthEvent, Future, Late
  <2>2. ~Clean(t)
    BY <1>5 DEF Clean
  <2>3. <<400, "t">> # Ok
    BY RefusalIsNotOk, SMT
  <2> QED  BY <2>1, <2>2, <2>3
<1>6. CASE t.flaw \notin {"encoding", "kind", "expiration", "t"} /\ ~Future(t) /\ ~Late(t) /\ ~ExtractHostname(t.server)
  <2>1. ParseAuthEvent(t) = {<<401, "server">>}
    BY <1>6, SMT DEF ParseAuthEvent, Future, Late
  <2>2. ~Clean(t)
    BY <1>6 DEF Clean
  <2>3. <<401, "server">> # Ok
    BY RefusalIsNotOk, SMT
  <2> QED  BY <2>1, <2>2, <2>3
<1>7. CASE t.flaw = "signature" /\ ~Future(t) /\ ~Late(t) /\ ExtractHostname(t.server)
  <2>1. ParseAuthEvent(t) = {<<400, "signature">>}
    BY <1>7, SMT DEF ParseAuthEvent, Future, Late
  <2>2. ~Clean(t)
    BY <1>7 DEF Clean
  <2>3. <<400, "signature">> # Ok
    BY RefusalIsNotOk, SMT
  <2> QED  BY <2>1, <2>2, <2>3
<1>8. CASE Clean(t) /\ ~Future(t) /\ ~Late(t)
  <2>1. ParseAuthEvent(t) = {}
    BY <1>8, SMT DEF ParseAuthEvent, Future, Late, Clean
  <2> QED  BY <1>8, <2>1
<1> QED  BY <1>1, <1>2, <1>3, <1>4, <1>5, <1>6, <1>7, <1>8 DEF Clean

\* A rule admits the type for the pubkey, or none is needed.
Admits(type, pubkey) ==
    \/ nodeConf.rules = {} /\ ~nodeConf.inRule
    \/ \E rule \in nodeConf.rules :
          /\ IF rule[1] # {} THEN pubkey \in rule[1] ELSE ~nodeConf.inRule
          /\ Matches(type, rule[2])

LEMMA RuleGateAdmits ==
    ASSUME NEW type, NEW pubkey
    PROVE  /\ RuleGate(type, pubkey) = {} <=> Admits(type, pubkey)
           /\ \A a \in RuleGate(type, pubkey) : a # Ok /\ a[2] = "rule"
<1>1. /\ <<401, "rule">> # Ok /\ <<401, "rule">>[2] = "rule"
      /\ <<415, "rule">> # Ok /\ <<415, "rule">>[2] = "rule"
  BY RefusalIsNotOk, SMT
<1>2. CASE Admits(type, pubkey)
  <2>1. RuleGate(type, pubkey) = {}
    BY <1>2 DEF RuleGate, Admits
  <2> QED  BY <1>2, <2>1
<1>3. CASE ~Admits(type, pubkey)
  <2>1. RuleGate(type, pubkey) = {IF nodeConf.inRule THEN <<401, "rule">> ELSE <<415, "rule">>}
    BY <1>3 DEF RuleGate, Admits
  <2>2. PICK a \in {<<401, "rule">>, <<415, "rule">>} : RuleGate(type, pubkey) = {a}
    BY <2>1, SMT
  <2>3. a # Ok /\ a[2] = "rule"
    BY <1>1, SMT
  <2> QED  BY <1>3, <2>2, <2>3
<1> QED  BY <1>2, <1>3

\* Parameters of a type only ever cost it a match.
LEMMA BareIsAdmitted ==
    ASSUME NEW type, NEW pubkey
    PROVE  /\ Admits(type, pubkey) => Admits(Bare(type), pubkey)
           /\ ~type[3] => (Admits(Bare(type), pubkey) => Admits(type, pubkey))
<1>1. Bare(type)[1] = type[1] /\ Bare(type)[2] = type[2] /\ Bare(type)[3] = FALSE
  BY DEF Bare
<1>2. \A p : Matches(type, p) => Matches(Bare(type), p)
  BY <1>1 DEF Matches
<1>3. ~type[3] => \A p : Matches(Bare(type), p) => Matches(type, p)
  BY <1>1 DEF Matches
<1> QED  BY <1>2, <1>3 DEF Admits

\* No rule lists a missing pubkey.
LEMMA NobodyIsAnybody ==
    ASSUME nodeConf \in NodeConf, NEW type, NEW pubkey, Admits(type, "none")
    PROVE  Admits(type, pubkey)
BY AdmissionAssumption DEF AdmissionAssumption, Admits

LEMMA ChecksRefuse ==
    /\ Ok \notin AuthMiddleware /\ Ok \notin Flag /\ Ok \notin Auth
    /\ Ok \notin TooLarge
    /\ \A a \in LengthGate : a # Ok /\ (a[2] = "length" \/ a \in TooLarge)
    /\ \A a \in Pool : a # Ok /\ a[2] = "busy"
    /\ \A a \in ShaFormat : a # Ok /\ a[2] = "sha"
    /\ \A a \in RequireXTag : a # Ok /\ a[2] = "x"
<1>1. Ok \notin AuthMiddleware
  <2>1. <<400, "future">> # Ok /\ <<401, "expired">> # Ok
    BY RefusalIsNotOk, SMT
  <2> QED  BY <2>1, ParseRefuses, SMT DEF AuthMiddleware
<1>2. Ok \notin Flag
  <2>1. <<403, "disabled">> # Ok
    BY RefusalIsNotOk, SMT
  <2> QED  BY <2>1, SMT DEF Flag
<1>3. Ok \notin Auth
  <2>1. <<401, "required">> # Ok /\ <<403, "verb">> # Ok
    BY RefusalIsNotOk, SMT
  <2>2. ASSUME NEW verb
        PROVE  Ok \notin RequireAuth(verb)
    <3>1. CASE asked.token = NoToken
      BY <2>1, <3>1, SMT DEF RequireAuth, NoToken
    <3>2. CASE asked.token # NoToken
      BY <2>1, <3>2, SMT DEF RequireAuth
    <3> QED  BY <3>1, <3>2
  <2> QED  BY <2>2 DEF Auth
<1>4. Ok \notin TooLarge
  <2>1. <<413, "size">> # Ok
    BY RefusalIsNotOk, SMT
  <2> QED  BY <2>1, SMT DEF TooLarge
<1>5. \A a \in LengthGate : a # Ok /\ (a[2] = "length" \/ a \in TooLarge)
  <2>1. /\ <<411, "length">> # Ok /\ <<411, "length">>[2] = "length"
        /\ <<400, "length">> # Ok /\ <<400, "length">>[2] = "length"
    BY RefusalIsNotOk, SMT
  <2>2. NoLength # NaL
    BY SMT DEF NoLength, NaL
  <2>3. LengthGate \in {{<<411, "length">>}, {<<400, "length">>}, TooLarge}
    BY <2>2, SMT DEF LengthGate
  <2> QED  BY <1>4, <2>1, <2>3, SMT
<1>6. \A a \in Pool : a # Ok /\ a[2] = "busy"
  <2>1. <<503, "busy">> # Ok /\ <<503, "busy">>[2] = "busy"
    BY RefusalIsNotOk, SMT
  <2> QED  BY <2>1, SMT DEF Pool
<1>7. \A a \in ShaFormat : a # Ok /\ a[2] = "sha"
  <2>1. <<400, "sha">> # Ok /\ <<400, "sha">>[2] = "sha"
    BY RefusalIsNotOk, SMT
  <2> QED  BY <2>1, SMT DEF ShaFormat
<1>8. \A a \in RequireXTag : a # Ok /\ a[2] = "x"
  <2>1. <<403, "x">> # Ok /\ <<403, "x">>[2] = "x"
    BY RefusalIsNotOk, SMT
  <2> QED  BY <2>1, SMT DEF RequireXTag
<1> QED  BY <1>1, <1>2, <1>3, <1>4, <1>5, <1>6, <1>7, <1>8

-----------------------------------------------------------------------------
\* What PUT /upload takes for the sender, and the rule it asks for.
PutPubkey ==
    IF nodeConf.route = "upload" /\ ~nodeConf.requireAuth THEN "none" ELSE asked.token.pubkey
PutRule == RuleGate(Bare(TypeOr(OctetStream)), PutPubkey)

\* A yes of HEAD: nothing that stays the same speaks against the PUT.
Passed ==
    /\ asked.token # NoToken => Clean(asked.token) /\ ~Future(asked.token)
    /\ Flag = {} /\ Auth = {}
    /\ nodeConf.route = "upload" => /\ LengthGate = {}
                                    /\ RuleGate(TypeOr(OctetStream), asked.token.pubkey) = {}
    /\ nodeConf.route # "upload" => /\ TooLarge = {}
                                    /\ asked.type = NoHeader \/ PutRule = {}

\* A no of HEAD that will be one of the PUT.
Blocked ==
    \/ asked.token # NoToken /\ (~Clean(asked.token) \/ Late(asked.token))
    \/ Flag # {} \/ Auth # {} \/ LengthGate # {} \/ PutRule # {}

AdmissionInv ==
    /\ nodeConf \in NodeConf /\ asked \in Ask /\ nodeTime \in Int
    /\ told = Ok => Passed
    /\ told \notin {Ok, Unanswered} => Overcome \/ Blocked
    /\ PreflightHolds

\* HEAD's token check, and the PUT's.
LEMMA AuthMiddlewareSays ==
    /\ AuthMiddleware = {} => asked.token = NoToken \/ (/\ Clean(asked.token) /\ ~Future(asked.token)
                                                     /\ ~Late(asked.token))
    /\ \A a \in AuthMiddleware :
          /\ asked.token # NoToken
          /\ ~Clean(asked.token) \/ (Future(asked.token) /\ a[2] = "future")
                                 \/ (Late(asked.token) /\ a[2] = "expired")
<1>1. <<400, "future">>[2] = "future" /\ <<401, "expired">>[2] = "expired"
  OBVIOUS
<1> QED  BY <1>1, ParseRefuses, SMT DEF AuthMiddleware

\* The same of a route's list of checks.
LEMMA SixChecks ==
    ASSUME NEW a1, NEW a2, NEW a3, NEW a4, NEW a5, NEW a6,
           Ok \notin a1 /\ Ok \notin a2 /\ Ok \notin a3 /\ Ok \notin a4 /\ Ok \notin a5 /\ Ok \notin a6
    PROVE  \/ /\ FirstRefusal(<<a1, a2, a3, a4, a5, a6>>) = Ok
              /\ a1 = {} /\ a2 = {} /\ a3 = {} /\ a4 = {} /\ a5 = {} /\ a6 = {}
           \/ /\ FirstRefusal(<<a1, a2, a3, a4, a5, a6>>) # Ok
              /\ FirstRefusal(<<a1, a2, a3, a4, a5, a6>>) \in a1 \cup a2 \cup a3 \cup a4 \cup a5 \cup a6
<1> DEFINE c == <<a1, a2, a3, a4, a5, a6>>
<1>1. DOMAIN c = 1..6 /\ \A i \in 1..6 : Ok \notin c[i]
  BY SMT
<1>2. \/ FirstRefusal(c) = Ok /\ \A i \in 1..6 : c[i] = {}
      \/ FirstRefusal(c) # Ok /\ \E i \in 1..6 : FirstRefusal(c) \in c[i]
  <2> HIDE DEF c
  <2> QED  BY <1>1, FirstCheckDecides, SMT
<1>3. ASSUME NEW r, \E i \in 1..6 : r \in c[i]
      PROVE  r \in a1 \cup a2 \cup a3 \cup a4 \cup a5 \cup a6
  BY <1>3, SMT
<1>4. (\A i \in 1..6 : c[i] = {}) => a1 = {} /\ a2 = {} /\ a3 = {} /\ a4 = {} /\ a5 = {} /\ a6 = {}
  BY <1>1, SMT
<1> QED  BY <1>2, <1>3, <1>4

LEMMA SevenChecks ==
    ASSUME NEW a1, NEW a2, NEW a3, NEW a4, NEW a5, NEW a6, NEW a7,
           Ok \notin a1 /\ Ok \notin a2 /\ Ok \notin a3 /\ Ok \notin a4 /\ Ok \notin a5 /\ Ok \notin a6 /\ Ok \notin a7
    PROVE  \/ /\ FirstRefusal(<<a1, a2, a3, a4, a5, a6, a7>>) = Ok
              /\ a1 = {} /\ a2 = {} /\ a3 = {} /\ a4 = {} /\ a5 = {} /\ a6 = {} /\ a7 = {}
           \/ /\ FirstRefusal(<<a1, a2, a3, a4, a5, a6, a7>>) # Ok
              /\ FirstRefusal(<<a1, a2, a3, a4, a5, a6, a7>>) \in a1 \cup a2 \cup a3 \cup a4 \cup a5 \cup a6 \cup a7
<1> DEFINE c == <<a1, a2, a3, a4, a5, a6, a7>>
<1>1. DOMAIN c = 1..7 /\ \A i \in 1..7 : Ok \notin c[i]
  BY SMTT(30)
<1>2. \/ FirstRefusal(c) = Ok /\ \A i \in 1..7 : c[i] = {}
      \/ FirstRefusal(c) # Ok /\ \E i \in 1..7 : FirstRefusal(c) \in c[i]
  <2> HIDE DEF c
  <2> QED  BY <1>1, FirstCheckDecides, SMT
<1>3. ASSUME NEW r, \E i \in 1..7 : r \in c[i]
      PROVE  r \in a1 \cup a2 \cup a3 \cup a4 \cup a5 \cup a6 \cup a7
  BY <1>3, SMT
<1>4. (\A i \in 1..7 : c[i] = {}) => a1 = {} /\ a2 = {} /\ a3 = {} /\ a4 = {} /\ a5 = {} /\ a6 = {} /\ a7 = {}
  BY <1>1, SMT
<1> QED  BY <1>2, <1>3, <1>4

LEMMA EightChecks ==
    ASSUME NEW a1, NEW a2, NEW a3, NEW a4, NEW a5, NEW a6, NEW a7, NEW a8,
           Ok \notin a1 /\ Ok \notin a2 /\ Ok \notin a3 /\ Ok \notin a4 /\ Ok \notin a5 /\ Ok \notin a6 /\ Ok \notin a7 /\ Ok \notin a8
    PROVE  \/ /\ FirstRefusal(<<a1, a2, a3, a4, a5, a6, a7, a8>>) = Ok
              /\ a1 = {} /\ a2 = {} /\ a3 = {} /\ a4 = {} /\ a5 = {} /\ a6 = {} /\ a7 = {} /\ a8 = {}
           \/ /\ FirstRefusal(<<a1, a2, a3, a4, a5, a6, a7, a8>>) # Ok
              /\ FirstRefusal(<<a1, a2, a3, a4, a5, a6, a7, a8>>) \in a1 \cup a2 \cup a3 \cup a4 \cup a5 \cup a6 \cup a7 \cup a8
<1> DEFINE c == <<a1, a2, a3, a4, a5, a6, a7, a8>>
<1>1. DOMAIN c = 1..8 /\ \A i \in 1..8 : Ok \notin c[i]
  BY SMT
<1>2. \/ FirstRefusal(c) = Ok /\ \A i \in 1..8 : c[i] = {}
      \/ FirstRefusal(c) # Ok /\ \E i \in 1..8 : FirstRefusal(c) \in c[i]
  <2> HIDE DEF c
  <2> QED  BY <1>1, FirstCheckDecides, SMT
<1>3. ASSUME NEW r, \E i \in 1..8 : r \in c[i]
      PROVE  r \in a1 \cup a2 \cup a3 \cup a4 \cup a5 \cup a6 \cup a7 \cup a8
  BY <1>3, SMT
<1>4. (\A i \in 1..8 : c[i] = {}) => a1 = {} /\ a2 = {} /\ a3 = {} /\ a4 = {} /\ a5 = {} /\ a6 = {} /\ a7 = {} /\ a8 = {}
  BY <1>1, SMT
<1> QED  BY <1>2, <1>3, <1>4

-----------------------------------------------------------------------------
\* What the four routes answer.
LEMMA HeadUploadSays ==
    \/ /\ HeadUpload = Ok
       /\ AuthMiddleware = {} /\ Flag = {} /\ Auth = {} /\ LengthGate = {}
       /\ RuleGate(TypeOr(OctetStream), asked.token.pubkey) = {}
    \/ /\ HeadUpload # Ok
       /\ \/ HeadUpload \in AuthMiddleware \/ Flag # {} \/ Auth # {} \/ LengthGate # {}
          \/ HeadUpload \in RuleGate(TypeOr(OctetStream), asked.token.pubkey)
          \/ HeadUpload[2] = "busy"
<1> DEFINE R == RuleGate(TypeOr(OctetStream), asked.token.pubkey)
<1>1. Ok \notin R
  BY RuleGateAdmits
<1> HIDE DEF R
<1>2. \/ /\ FirstRefusal(<<AuthMiddleware, Flag, Auth, LengthGate, R, Pool>>) = Ok
         /\ AuthMiddleware = {} /\ Flag = {} /\ Auth = {} /\ LengthGate = {} /\ R = {}
      \/ /\ FirstRefusal(<<AuthMiddleware, Flag, Auth, LengthGate, R, Pool>>) # Ok
         /\ FirstRefusal(<<AuthMiddleware, Flag, Auth, LengthGate, R, Pool>>)
               \in AuthMiddleware \cup Flag \cup Auth \cup LengthGate \cup R \cup Pool
  BY <1>1, ChecksRefuse, SixChecks
<1>3. HeadUpload = FirstRefusal(<<AuthMiddleware, Flag, Auth, LengthGate, R, Pool>>)
  BY DEF HeadUpload, R
<1>4. \/ HeadUpload = Ok /\ AuthMiddleware = {} /\ Flag = {} /\ Auth = {} /\ LengthGate = {} /\ R = {}
      \/ /\ HeadUpload # Ok
         /\ \/ HeadUpload \in AuthMiddleware \/ Flag # {} \/ Auth # {} \/ LengthGate # {}
            \/ HeadUpload \in R \/ HeadUpload[2] = "busy"
  BY <1>2, <1>3, ChecksRefuse
<1> QED  BY <1>4 DEF R

LEMMA HeadMediaSays ==
    LET R == RuleGate(Bare(asked.type), asked.token.pubkey)
    IN  \/ /\ HeadMedia = Ok
           /\ AuthMiddleware = {} /\ Flag = {} /\ Auth = {} /\ TooLarge = {}
           /\ asked.type = NoHeader \/ R = {}
        \/ /\ HeadMedia # Ok
           /\ \/ HeadMedia \in AuthMiddleware \/ Flag # {} \/ Auth # {} \/ TooLarge # {}
              \/ asked.type # NoHeader /\ R # {}
              \/ HeadMedia[2] = "busy"
<1> DEFINE R == RuleGate(Bare(asked.type), asked.token.pubkey)
           Q == IF asked.type = NoHeader THEN {} ELSE R
<1>1. Ok \notin R
  BY RuleGateAdmits
<1> HIDE DEF R
<1>2. Ok \notin Q /\ (Q = {} <=> asked.type = NoHeader \/ R = {})
  BY <1>1
<1>3. HeadMedia = FirstRefusal(<<AuthMiddleware, Flag, Auth, Pool, TooLarge, Q>>)
  BY DEF HeadMedia, R
<1> HIDE DEF Q
<1>4. \/ /\ FirstRefusal(<<AuthMiddleware, Flag, Auth, Pool, TooLarge, Q>>) = Ok
         /\ AuthMiddleware = {} /\ Flag = {} /\ Auth = {} /\ TooLarge = {} /\ Q = {}
      \/ /\ FirstRefusal(<<AuthMiddleware, Flag, Auth, Pool, TooLarge, Q>>) # Ok
         /\ FirstRefusal(<<AuthMiddleware, Flag, Auth, Pool, TooLarge, Q>>)
               \in AuthMiddleware \cup Flag \cup Auth \cup Pool \cup TooLarge \cup Q
  BY <1>2, ChecksRefuse, SixChecks, SMT
<1>5. \/ HeadMedia = Ok /\ AuthMiddleware = {} /\ Flag = {} /\ Auth = {} /\ TooLarge = {} /\ Q = {}
      \/ /\ HeadMedia # Ok
         /\ \/ HeadMedia \in AuthMiddleware \/ Flag # {} \/ Auth # {} \/ TooLarge # {}
            \/ Q # {} \/ HeadMedia[2] = "busy"
  BY <1>3, <1>4, ChecksRefuse
<1> QED  BY <1>2, <1>5 DEF R

\* Either PUT, on its own route.
PutSays(r) ==
    \/ /\ r = Ok
       /\ AuthMiddleware = {} /\ Flag = {} /\ Auth = {} /\ LengthGate = {} /\ PutRule = {}
    \/ /\ r # Ok
       /\ \/ r \in AuthMiddleware \/ Flag # {} \/ Auth # {} \/ r \in LengthGate
          \/ r \in PutRule \/ r[2] \in {"sha", "x", "busy"}

LEMMA PutUploadSays ==
    ASSUME nodeConf.route = "upload"
    PROVE  PutSays(PutUpload)
<1>1. Ok \notin PutRule
  BY RuleGateAdmits DEF PutRule
<1>2. PutPubkey = IF nodeConf.requireAuth THEN asked.token.pubkey ELSE "none"
  BY DEF PutPubkey
<1>3. PutUpload = FirstRefusal(<<AuthMiddleware, Flag, Auth, LengthGate, PutRule, ShaFormat, RequireXTag, Pool>>)
  BY <1>2 DEF PutUpload, PutRule
<1>4. \/ /\ FirstRefusal(<<AuthMiddleware, Flag, Auth, LengthGate, PutRule, ShaFormat, RequireXTag, Pool>>) = Ok
         /\ AuthMiddleware = {} /\ Flag = {} /\ Auth = {} /\ LengthGate = {} /\ PutRule = {}
      \/ /\ FirstRefusal(<<AuthMiddleware, Flag, Auth, LengthGate, PutRule, ShaFormat, RequireXTag, Pool>>) # Ok
         /\ FirstRefusal(<<AuthMiddleware, Flag, Auth, LengthGate, PutRule, ShaFormat, RequireXTag, Pool>>)
               \in AuthMiddleware \cup Flag \cup Auth \cup LengthGate \cup PutRule
                     \cup ShaFormat \cup RequireXTag \cup Pool
  BY <1>1, ChecksRefuse, EightChecks, SMT
<1> QED  BY <1>3, <1>4, ChecksRefuse DEF PutSays

LEMMA PutMediaSays ==
    ASSUME nodeConf.route # "upload"
    PROVE  PutSays(PutMedia)
<1>1. Ok \notin PutRule
  BY RuleGateAdmits DEF PutRule
<1>2. PutPubkey = asked.token.pubkey
  BY DEF PutPubkey
<1>3. PutMedia = FirstRefusal(<<AuthMiddleware, Flag, Auth, LengthGate, PutRule, ShaFormat, Pool>>)
  BY <1>2 DEF PutMedia, PutRule
<1>4. \/ /\ FirstRefusal(<<AuthMiddleware, Flag, Auth, LengthGate, PutRule, ShaFormat, Pool>>) = Ok
         /\ AuthMiddleware = {} /\ Flag = {} /\ Auth = {} /\ LengthGate = {} /\ PutRule = {}
      \/ /\ FirstRefusal(<<AuthMiddleware, Flag, Auth, LengthGate, PutRule, ShaFormat, Pool>>) # Ok
         /\ FirstRefusal(<<AuthMiddleware, Flag, Auth, LengthGate, PutRule, ShaFormat, Pool>>)
               \in AuthMiddleware \cup Flag \cup Auth \cup LengthGate \cup PutRule
                     \cup ShaFormat \cup Pool
  BY <1>1, ChecksRefuse, SevenChecks
<1> QED  BY <1>3, <1>4, ChecksRefuse DEF PutSays

\* A media length that HEAD finds too large the PUT does not take.
LEMMA TooLargeIsNoLength ==
    TooLarge # {} => LengthGate # {}
<1>1. NoLength # NaL
  BY SMT DEF NoLength, NaL
<1> QED  BY <1>1 DEF LengthGate

\* The rule HEAD /upload asks for, and the one of the PUT.
LEMMA UploadRules ==
    ASSUME nodeConf \in NodeConf, nodeConf.route = "upload"
    PROVE  LET R == RuleGate(TypeOr(OctetStream), asked.token.pubkey)
           IN  /\ R = {} => \/ PutRule = {}
                            \/ ~nodeConf.requireAuth /\ asked.token # NoToken
               /\ R # {} => (asked.type # NoHeader /\ asked.type[3]) \/ PutRule # {}
<1> DEFINE T == TypeOr(OctetStream)
           K == asked.token.pubkey
<1>1. PutPubkey = K \/ (PutPubkey = "none" /\ ~nodeConf.requireAuth)
  BY DEF PutPubkey
<1>2. asked.token = NoToken => K = "none"
  BY SMT DEF NoToken
<1>3. asked.type = NoHeader \/ ~asked.type[3] => ~T[3]
  <2>1. OctetStream[3] = FALSE
    BY DEF OctetStream
  <2> QED  BY <2>1 DEF TypeOr
<1>4. RuleGate(T, K) = {} <=> Admits(T, K)
  BY RuleGateAdmits
<1>5. PutRule = {} <=> Admits(Bare(T), PutPubkey)
  BY RuleGateAdmits DEF PutRule
<1>6. /\ Admits(T, K) => Admits(Bare(T), K)
      /\ ~T[3] => (Admits(Bare(T), K) => Admits(T, K))
  BY BareIsAdmitted
<1>7. Admits(Bare(T), "none") => Admits(Bare(T), K)
  BY NobodyIsAnybody
<1> HIDE DEF T, K
<1>8. /\ RuleGate(T, K) = {} => PutRule = {} \/ (~nodeConf.requireAuth /\ asked.token # NoToken)
      /\ RuleGate(T, K) # {} => (asked.type # NoHeader /\ asked.type[3]) \/ PutRule # {}
  BY <1>1, <1>2, <1>3, <1>4, <1>5, <1>6, <1>7
<1> QED  BY <1>8 DEF T, K

\* The checks that neither time nor the pool moves.
LEMMA AdmissionFixed ==
    ASSUME nodeConf' = nodeConf, asked' = asked
    PROVE  /\ Flag' = Flag /\ Auth' = Auth /\ TooLarge' = TooLarge /\ LengthGate' = LengthGate
           /\ PutRule' = PutRule
           /\ RuleGate(TypeOr(OctetStream), asked.token.pubkey)'
                 = RuleGate(TypeOr(OctetStream), asked.token.pubkey)
<1>1. Flag' = Flag
  BY SMT DEF Flag
<1>2. Auth' = Auth
  BY SMT DEF Auth, RequireAuth
<1>3. TooLarge' = TooLarge
  BY SMT DEF TooLarge
<1>4. LengthGate' = LengthGate
  BY <1>3 DEF LengthGate
<1>5. TypeOr(OctetStream)' = TypeOr(OctetStream) /\ PutPubkey' = PutPubkey
  BY DEF TypeOr, PutPubkey
<1>6. PutRule' = PutRule
  BY <1>5, SMT DEF PutRule, RuleGate
<1>7. RuleGate(TypeOr(OctetStream), asked.token.pubkey)'
         = RuleGate(TypeOr(OctetStream), asked.token.pubkey)
  BY <1>5, SMT DEF RuleGate
<1> QED  BY <1>1, <1>2, <1>3, <1>4, <1>6, <1>7

LEMMA TokenFixed ==
    ASSUME asked' = asked, nodeTime' = nodeTime
    PROVE  /\ Clean(asked.token)' = Clean(asked.token)
           /\ Future(asked.token)' = Future(asked.token)
           /\ Late(asked.token)' = Late(asked.token)
BY DEF Clean, Future, Late

-----------------------------------------------------------------------------
LEMMA AskHeadKeeps ==
    ASSUME AdmissionInv, AskHead
    PROVE  AdmissionInv'
<1>1. /\ nodeConf' = nodeConf /\ asked' = asked /\ nodeTime' = nodeTime /\ put' = Unanswered
      /\ told' = IF nodeConf.route = "upload" THEN HeadUpload ELSE HeadMedia
  BY DEF AskHead
<1>2. nodeConf \in NodeConf /\ asked \in Ask /\ nodeTime \in Int
  BY DEF AdmissionInv
<1>3. PreflightHolds'
  BY <1>1 DEF PreflightHolds, Unanswered
<1>4. ASSUME AuthMiddleware = {}
      PROVE  asked.token # NoToken => Clean(asked.token) /\ ~Future(asked.token)
  BY <1>4, AuthMiddlewareSays
<1>5. ASSUME told' \in AuthMiddleware
      PROVE  Overcome' \/ Blocked
  BY <1>5, AuthMiddlewareSays DEF Overcome, Blocked
<1>6. ASSUME told'[2] = "busy"
      PROVE  Overcome'
  BY <1>6 DEF Overcome
<1>7. /\ told' = Ok => Passed
      /\ told' # Ok => Overcome' \/ Blocked
  <2>1. CASE nodeConf.route = "upload"
    <3> DEFINE R == RuleGate(TypeOr(OctetStream), asked.token.pubkey)
    <3>1. told' = HeadUpload
      BY <1>1, <2>1
    <3>2. CASE told' = Ok
      <4>1. AuthMiddleware = {} /\ Flag = {} /\ Auth = {} /\ LengthGate = {} /\ R = {}
        BY <3>1, <3>2, HeadUploadSays
      <4> QED  BY <2>1, <3>2, <4>1, <1>4 DEF Passed
    <3>3. CASE told' # Ok
      <4>1. CASE told' \in R
        <5>1. told'[2] = "rule" /\ R # {}
          BY <4>1, RuleGateAdmits
        <5>2. (asked.type # NoHeader /\ asked.type[3]) \/ PutRule # {}
          BY <1>2, <2>1, <5>1, UploadRules
        <5>3. Overcome' \/ Blocked
          BY <1>1, <2>1, <5>1, <5>2 DEF Overcome, Blocked
        <5> QED  BY <3>3, <5>3
      <4>2. CASE Flag # {} \/ Auth # {} \/ LengthGate # {}
        BY <3>3, <4>2 DEF Blocked
      <4> QED  BY <3>1, <3>3, <4>1, <4>2, <1>5, <1>6, HeadUploadSays
    <3> QED  BY <3>2, <3>3
  <2>2. CASE nodeConf.route # "upload"
    <3> DEFINE R == RuleGate(Bare(asked.type), asked.token.pubkey)
    <3>1. told' = HeadMedia
      BY <1>1, <2>2
    <3>2. asked.type # NoHeader => PutRule = R
      BY <2>2 DEF PutRule, PutPubkey, TypeOr
    <3>3. CASE told' = Ok
      <4>1. /\ AuthMiddleware = {} /\ Flag = {} /\ Auth = {} /\ TooLarge = {}
            /\ asked.type = NoHeader \/ R = {}
        BY <3>1, <3>3, HeadMediaSays
      <4> QED  BY <2>2, <3>2, <3>3, <4>1, <1>4 DEF Passed
    <3>4. CASE told' # Ok
      <4>1. CASE Flag # {} \/ Auth # {} \/ TooLarge # {} \/ (asked.type # NoHeader /\ R # {})
        BY <3>2, <3>4, <4>1, TooLargeIsNoLength DEF Blocked
      <4> QED  BY <3>1, <3>4, <4>1, <1>5, <1>6, HeadMediaSays
    <3> QED  BY <3>3, <3>4
  <2> QED  BY <2>1, <2>2
<1>8. Passed' = Passed /\ Blocked' = Blocked
  BY <1>1, AdmissionFixed, TokenFixed DEF Passed, Blocked
<1> QED  BY <1>1, <1>2, <1>3, <1>7, <1>8 DEF AdmissionInv

LEMMA SendPutKeeps ==
    ASSUME AdmissionInv, SendPut
    PROVE  AdmissionInv'
<1>1. /\ nodeConf' = nodeConf /\ asked' = asked /\ nodeTime' = nodeTime /\ told' = told
      /\ put' = IF nodeConf.route = "upload" THEN PutUpload ELSE PutMedia
  BY DEF SendPut
<1>2. PutSays(put')
  <2>1. CASE nodeConf.route = "upload"
    BY <1>1, <2>1, PutUploadSays
  <2>2. CASE nodeConf.route # "upload"
    BY <1>1, <2>2, PutMediaSays
  <2> QED  BY <2>1, <2>2
<1>3. nodeConf \in NodeConf
  BY DEF AdmissionInv
<1>4. ASSUME told = Ok, put' # Ok
      PROVE  LeftOpen'
  <2>1. Passed
    BY <1>4 DEF AdmissionInv
  <2>2. CASE put' \in AuthMiddleware
    <3>1. put'[2] = "expired"
      BY <2>1, <2>2, AuthMiddlewareSays DEF Passed
    <3> QED  BY <3>1 DEF LeftOpen
  <2>3. CASE put' \in LengthGate
    <3>1. nodeConf.route = "media" /\ put' \notin TooLarge
      BY <1>3, <2>1, <2>3, AdmissionAssumption DEF AdmissionAssumption, Passed
    <3>2. put'[2] = "length"
      BY <2>3, <3>1, ChecksRefuse
    <3> QED  BY <1>1, <3>1, <3>2 DEF LeftOpen
  <2>4. CASE put' \in PutRule
    <3>1. put'[2] = "rule"
      BY <2>4, RuleGateAdmits DEF PutRule
    <3>2. nodeConf.route = "upload" => ~nodeConf.requireAuth /\ asked.token # NoToken
      BY <1>3, <2>1, <2>4, UploadRules DEF Passed
    <3>3. nodeConf.route # "upload" => nodeConf.route = "media" /\ asked.type = NoHeader
      BY <1>3, <2>1, <2>4, AdmissionAssumption DEF AdmissionAssumption, Passed
    <3> QED  BY <1>1, <3>1, <3>2, <3>3 DEF LeftOpen
  <2>5. CASE put'[2] \in {"sha", "x", "busy"}
    BY <2>5 DEF LeftOpen
  <2> QED  BY <1>2, <1>4, <2>1, <2>2, <2>3, <2>4, <2>5 DEF PutSays, Passed
<1>5. ASSUME told \notin {Ok, Unanswered}, put' = Ok
      PROVE  Overcome'
  <2>1. ~Blocked
    BY <1>2, <1>5, AuthMiddlewareSays DEF PutSays, Blocked
  <2>2. Overcome
    BY <1>5, <2>1 DEF AdmissionInv
  <2> QED  BY <1>1, <2>2 DEF Overcome
<1>6. PreflightHolds'
  BY <1>1, <1>4, <1>5 DEF PreflightHolds
<1>7. Passed' = Passed /\ Blocked' = Blocked /\ Overcome' = Overcome
  <2>1. Passed' = Passed /\ Blocked' = Blocked
    BY <1>1, AdmissionFixed, TokenFixed DEF Passed, Blocked
  <2> QED  BY <1>1, <2>1 DEF Overcome
<1> QED  BY <1>1, <1>6, <1>7 DEF AdmissionInv

LEMMA PoolChangesKeeps ==
    ASSUME AdmissionInv, UNCHANGED <<nodeConf, asked, nodeTime, told, put>>
    PROVE  AdmissionInv'
<1>1. Passed' = Passed /\ Blocked' = Blocked
  BY AdmissionFixed, TokenFixed DEF Passed, Blocked
<1>2. Overcome' = Overcome /\ PreflightHolds' = PreflightHolds
  BY DEF Overcome, PreflightHolds, LeftOpen
<1> QED  BY <1>1, <1>2 DEF AdmissionInv

\* Time only runs out: a token that was not of the future never will be, and
\* an expired one stays expired.
LEMMA SecondPassesKeeps ==
    ASSUME AdmissionInv, SecondPasses
    PROVE  AdmissionInv'
<1>1. /\ nodeConf' = nodeConf /\ asked' = asked /\ told' = told /\ put' = put
      /\ nodeTime' = nodeTime + 1
  BY DEF SecondPasses
<1>2. nodeConf \in NodeConf /\ asked \in Ask /\ nodeTime \in Int
  BY DEF AdmissionInv
<1>3. asked.token.created \in Int /\ asked.token.expiration \in Int /\ ClockSkew \in Int
  BY <1>2, AdmissionAssumption DEF AdmissionAssumption
<1>4. /\ Clean(asked.token)' = Clean(asked.token)
      /\ ~Future(asked.token) => ~Future(asked.token)'
      /\ Late(asked.token) => Late(asked.token)'
  <2>1. Clean(asked.token)' = Clean(asked.token)
    BY <1>1 DEF Clean
  <2>2. ~Future(asked.token) => ~Future(asked.token)'
    BY <1>1, <1>2, <1>3, SMT DEF Future
  <2>3. Late(asked.token) => Late(asked.token)'
    BY <1>1, <1>2, <1>3, SMT DEF Late
  <2> QED  BY <2>1, <2>2, <2>3
<1>5. (Passed => Passed') /\ (Blocked => Blocked')
  BY <1>1, <1>4, AdmissionFixed DEF Passed, Blocked
<1>6. Overcome' = Overcome /\ PreflightHolds' = PreflightHolds
  BY <1>1 DEF Overcome, PreflightHolds, LeftOpen
<1>7. nodeTime' \in Int
  BY <1>1, <1>2, SMT
<1> QED  BY <1>1, <1>2, <1>5, <1>6, <1>7 DEF AdmissionInv

\* A preflight can be relied on, whatever the node's rules, the token and the
\* headers: HEAD /upload and HEAD /media and the PUT handlers are separate code
\* (routes/upload.ts, routes/media.ts), and agree up to what LeftOpen and
\* Overcome name.
THEOREM PreflightsHold == AdmissionSpec => []PreflightHolds
<1>1. AdmissionInit => AdmissionInv
  <2> SUFFICES ASSUME AdmissionInit PROVE AdmissionInv
    OBVIOUS
  <2>1. nodeConf \in NodeConf /\ asked \in Ask /\ nodeTime \in Int
    BY SMT DEF AdmissionInit
  <2>2. told = Unanswered /\ told # Ok
    <3>1. Unanswered[1] = 0 /\ Ok[1] = 200
      BY DEF Unanswered, Ok
    <3> QED  BY <3>1, SMT DEF AdmissionInit
  <2>3. PreflightHolds
    BY <2>2 DEF PreflightHolds
  <2> QED  BY <2>1, <2>2, <2>3 DEF AdmissionInv
<1>2. AdmissionInv /\ [AdmissionNext]_admissionVars => AdmissionInv'
  <2> SUFFICES ASSUME AdmissionInv, [AdmissionNext]_admissionVars PROVE AdmissionInv'
    OBVIOUS
  <2>1. CASE AskHead
    BY <2>1, AskHeadKeeps
  <2>2. CASE SendPut
    BY <2>2, SendPutKeeps
  <2>3. CASE PoolChanges \/ UNCHANGED admissionVars
    <3>1. UNCHANGED <<nodeConf, asked, nodeTime, told>>
      BY <2>3 DEF PoolChanges, admissionVars
    <3>2. put' = put
      BY <2>3 DEF PoolChanges, admissionVars
    <3> QED  BY <3>1, <3>2, PoolChangesKeeps
  <2>4. CASE SecondPasses
    BY <2>4, SecondPassesKeeps
  <2> QED  BY <2>1, <2>2, <2>3, <2>4 DEF AdmissionNext
<1>3. AdmissionInv => PreflightHolds
  BY DEF AdmissionInv
<1> QED  BY <1>1, <1>2, <1>3, PTL DEF AdmissionSpec

-----------------------------------------------------------------------------
(* MeshSchema and MeshWrites.                                              *)

\* A list that is not empty has a next element (the loops over a request's
\* migrations in schema.ts and over a batch in dispatcher.rs).
LEMMA MinIsMember ==
    ASSUME NEW S, S \subseteq Nat, S # {}
    PROVE  Min(S) \in S
<1> DEFINE R == OpToRel(<, Nat)
<1>1. R = {ss \in Nat \X Nat : ss[1] < ss[2]}
  BY DEF OpToRel
<1>2. IsWellFoundedOn(R, Nat)
  BY NatLessThanWellFounded
<1> HIDE DEF R
<1>3. PICK x \in S : \A y \in S : ~(<<y, x>> \in R)
  BY <1>2, WFMin
<1>4. ASSUME NEW y \in S, y < x
      PROVE  FALSE
  <2>1. <<y, x>> \in Nat \X Nat
    OBVIOUS
  <2>2. <<y, x>>[1] < <<y, x>>[2]
    BY <1>4
  <2>3. <<y, x>> \in R
    BY <2>1, <2>2, <1>1
  <2> QED  BY <2>3, <1>3
<1>5. \A y \in S : x <= y
  BY <1>4, SMT
<1> QED  BY <1>5 DEF Min

-----------------------------------------------------------------------------
(* MeshSchema.                                                             *)

Kind == {"plain", "alone"}
Migration == [kind : Kind, state : {"PENDING", "APPLIED"}]
Push == [at : {"idle", "read", "push", "wait"}, own : Nat, list : SUBSET Nat,
         left : SUBSET Provider]
Posted == [at : {"idle", "start", "next", "run", "log", "done", "failed"},
           node : Provider \cup {"none"}, list : SUBSET Nat, version : Nat]

SchemaTypeOK ==
    /\ migrations \in Seq(Migration)
    /\ ackedVersion \in [Provider -> Nat]
    /\ recorded \in [Provider -> SUBSET Nat]
    /\ metaVersion \in [Provider -> Nat]
    /\ effects \in [Provider -> [1..MaxVersion -> Nat]]
    /\ push \in [Pusher -> Push]
    /\ request \in [Pusher -> Posted]

\* A task only ever sends migrations that exist, and a request that runs one
\* is at some node and has it in its list.
RequestsSound ==
    \A w \in Pusher :
        /\ push[w].list \subseteq Since(0)
        /\ request[w].list \subseteq Since(0)
        /\ request[w].at # "idle" => request[w].node \in Provider
        /\ request[w].at \in {"run", "log"} => request[w].list # {}

\* No effect without a migration, and no effect of a plain one without its row.
EffectRecorded ==
    \A p \in Provider : \A v \in 1..MaxVersion :
        /\ effects[p][v] <= 1
        /\ v \notin Since(0) => effects[p][v] = 0
        /\ v \in Since(0) /\ migrations[v].kind = "plain" /\ v \notin recorded[p]
              => effects[p][v] = 0

SchemaInv == SchemaTypeOK /\ RequestsSound /\ EffectRecorded

\* What an idle task and an idle request hold.
LEMMA IdleRecords ==
    /\ NoPush \in Push /\ NoPush.list = {}
    /\ NoRequest \in Posted /\ NoRequest.list = {} /\ NoRequest.at = "idle"
<1>1. NoPush \in Push /\ NoPush.list = {}
  BY DEF NoPush, Push
<1>2. NoRequest \in Posted /\ NoRequest.list = {} /\ NoRequest.at = "idle"
  BY DEF NoRequest, Posted
<1> QED  BY <1>1, <1>2

-----------------------------------------------------------------------------
(* The gateway: effects and records stay, the lists name what exists.      *)

LEMMA AppendMigrationKeeps ==
    ASSUME SchemaInv, NEW c \in DdlClient, NEW kind \in Kind, AppendMigration(c, kind)
    PROVE  SchemaInv'
<1> DEFINE m == [kind |-> kind, state |-> "PENDING"]
<1>1. m \in Migration
  BY DEF Migration
<1>2. migrations \in Seq(Migration) /\ Len(migrations) \in Nat
  BY SMT DEF SchemaInv, SchemaTypeOK
<1>3. migrations' = Append(migrations, m)
  BY DEF AppendMigration
<1>4. Since(0) = 1..Len(migrations) /\ Since(0)' = 1..(Len(migrations) + 1)
  BY <1>2, <1>3, SMTT(30) DEF Since
<1>5. \A v \in Since(0) : migrations'[v] = migrations[v]
  BY <1>2, <1>3, <1>4, SMT
<1>6. UNCHANGED <<ackedVersion, recorded, metaVersion, effects, request>>
  BY DEF AppendMigration, agentVars
<1>7. c \in Pusher /\ Len(migrations) + 1 \in Nat
  BY <1>2, SMT DEF Pusher
<1> DEFINE n == [NoPush EXCEPT !.at = "read", !.own = Len(migrations) + 1]
<1>8. n \in Push /\ n.list = {} /\ push' = [push EXCEPT ![c] = n]
  <2>1. n \in Push
    BY IdleRecords, <1>7 DEF Push
  <2>2. n.list = {}
    BY IdleRecords, <1>7 DEF Push
  <2> QED  BY <2>1, <2>2 DEF AppendMigration
<1> HIDE DEF n
<1>9. SchemaTypeOK'
  <2>1. migrations' \in Seq(Migration)
    BY <1>1, <1>2, <1>3, SMT
  <2>2. push' \in [Pusher -> Push]
    BY <1>7, <1>8 DEF SchemaInv, SchemaTypeOK
  <2> QED  BY <2>1, <2>2, <1>6 DEF SchemaInv, SchemaTypeOK
<1>10. RequestsSound'
  <2>1. Since(0) \subseteq Since(0)'
    BY <1>2, <1>4, SMT
  <2>2. \A w \in Pusher : push'[w].list = {} \/ push'[w] = push[w]
    BY <1>8 DEF SchemaInv, SchemaTypeOK
  <2>3. \A w \in Pusher : push[w].list \subseteq Since(0) /\ request[w].list \subseteq Since(0)
    BY DEF SchemaInv, RequestsSound
  <2>4. \A w \in Pusher : push'[w].list \subseteq Since(0)' /\ request'[w].list \subseteq Since(0)'
    BY <1>6, <2>1, <2>2, <2>3
  <2> QED  BY <1>6, <2>4 DEF SchemaInv, RequestsSound
<1>11. EffectRecorded'
  <2> SUFFICES ASSUME NEW p \in Provider, NEW v \in 1..MaxVersion
               PROVE  /\ effects[p][v] <= 1
                      /\ v \notin Since(0)' => effects[p][v] = 0
                      /\ v \in Since(0)' /\ migrations'[v].kind = "plain" /\ v \notin recorded[p]
                            => effects[p][v] = 0
    BY <1>6 DEF EffectRecorded
  <2>1. Since(0) \subseteq Since(0)'
    BY <1>2, <1>4, SMT
  <2> QED  BY <2>1, <1>5 DEF SchemaInv, EffectRecorded
<1> QED  BY <1>9, <1>10, <1>11 DEF SchemaInv

\* A step that moves one task, sending only what exists, and leaves the rest.
LEMMA TaskMoves ==
    ASSUME SchemaInv, NEW w \in Pusher, NEW n \in Push, n.list \subseteq Since(0),
           push' = [push EXCEPT ![w] = n],
           UNCHANGED <<migrations, ackedVersion, recorded, metaVersion, effects, request>>
    PROVE  SchemaInv'
<1>1. SchemaTypeOK'
  BY DEF SchemaInv, SchemaTypeOK
<1>2. RequestsSound'
  BY DEF SchemaInv, SchemaTypeOK, RequestsSound, Since
<1>3. EffectRecorded'
  BY DEF SchemaInv, EffectRecorded, Since
<1> QED  BY <1>1, <1>2, <1>3 DEF SchemaInv

LEMMA ReadPendingKeeps ==
    ASSUME SchemaInv, NEW c \in DdlClient, NEW nodes \in SUBSET Provider,
           ReadPending(c, nodes)
    PROVE  SchemaInv'
<1> DEFINE n == [push[c] EXCEPT !.at = "push", !.list = PendingMigrations, !.left = nodes]
<1>1. c \in Pusher /\ push[c] \in Push
  BY DEF Pusher, SchemaInv, SchemaTypeOK
<1>2. PendingMigrations \subseteq Since(0) /\ Since(0) \subseteq Nat
  BY SMT DEF PendingMigrations, Since
<1>3. n \in Push /\ n.list = PendingMigrations
  BY <1>1, <1>2 DEF Push
<1>4. push' = [push EXCEPT ![c] = n]
  BY <1>1 DEF ReadPending, SchemaInv, SchemaTypeOK, Push
<1> HIDE DEF n
<1> QED  BY <1>1, <1>2, <1>3, <1>4, TaskMoves DEF ReadPending, agentVars

LEMMA StartSweepKeeps ==
    ASSUME SchemaInv, NEW nodes \in SUBSET Provider, StartSweep(nodes)
    PROVE  SchemaInv'
<1> DEFINE n == [push[Sweeper] EXCEPT !.at = "push", !.left = nodes]
<1>1. Sweeper \in Pusher /\ push[Sweeper] \in Push
  BY DEF Pusher, SchemaInv, SchemaTypeOK
<1>2. n \in Push /\ n.list = push[Sweeper].list
  BY <1>1 DEF Push
<1>3. push' = [push EXCEPT ![Sweeper] = n]
  BY <1>1 DEF StartSweep, SchemaInv, SchemaTypeOK, Push
<1> HIDE DEF n
<1>4. n.list \subseteq Since(0)
  BY <1>1, <1>2 DEF SchemaInv, RequestsSound
<1> QED  BY <1>1, <1>2, <1>3, <1>4, TaskMoves DEF StartSweep, agentVars

LEMMA SkipProviderKeeps ==
    ASSUME SchemaInv, NEW w \in Pusher, NEW p \in Provider, SkipProvider(w, p)
    PROVE  SchemaInv'
<1> DEFINE n == [push[w] EXCEPT !.left = push[w].left \ {p}]
<1>1. push[w] \in Push
  BY DEF SchemaInv, SchemaTypeOK
<1>2. n \in Push /\ n.list = push[w].list
  BY <1>1 DEF Push
<1>3. push' = [push EXCEPT ![w] = n]
  BY <1>1 DEF SkipProvider, SchemaInv, SchemaTypeOK, Push
<1> HIDE DEF n
<1>4. n.list \subseteq Since(0)
  BY <1>2 DEF SchemaInv, RequestsSound
<1> QED  BY <1>2, <1>3, <1>4, TaskMoves DEF SkipProvider, agentVars

LEMMA GiveUpKeeps ==
    ASSUME SchemaInv, NEW w \in Pusher, GiveUp(w)
    PROVE  SchemaInv'
<1> DEFINE n == [push[w] EXCEPT !.at = "push"]
<1>1. push[w] \in Push
  BY DEF SchemaInv, SchemaTypeOK
<1>2. n \in Push /\ n.list = push[w].list
  BY <1>1 DEF Push
<1>3. push' = [push EXCEPT ![w] = n]
  BY <1>1 DEF GiveUp, SchemaInv, SchemaTypeOK, Push
<1> HIDE DEF n
<1>4. n.list \subseteq Since(0)
  BY <1>2 DEF SchemaInv, RequestsSound
<1> QED  BY <1>2, <1>3, <1>4, TaskMoves DEF GiveUp, agentVars

LEMMA PostMigrationsKeeps ==
    ASSUME SchemaInv, NEW w \in Pusher, NEW p \in Provider, PostMigrations(w, p)
    PROVE  SchemaInv'
<1> DEFINE n == [push[w] EXCEPT !.at = "wait", !.left = push[w].left \ {p}]
           r == [at |-> "start", node |-> p, list |-> ListFor(w, p), version |-> 0]
<1>1. push[w] \in Push /\ Len(migrations) \in Nat /\ ackedVersion[p] \in Nat
  BY SMTT(30) DEF SchemaInv, SchemaTypeOK
<1>2. ListFor(w, p) \subseteq Since(0) /\ Since(0) \subseteq Nat
  BY <1>1, SMT DEF ListFor, Since, SchemaInv, RequestsSound
<1>3. n \in Push /\ n.list = push[w].list
  BY <1>1 DEF Push
<1>4. r \in Posted
  BY <1>2 DEF Posted
<1>5. push' = [push EXCEPT ![w] = n] /\ request' = [request EXCEPT ![w] = r]
  BY <1>1 DEF PostMigrations, SchemaInv, SchemaTypeOK, Push
<1>6. r.at = "start" /\ r.node = p /\ r.list = ListFor(w, p)
  OBVIOUS
<1>7. UNCHANGED <<migrations, ackedVersion, recorded, metaVersion, effects>>
  BY DEF PostMigrations
<1> HIDE DEF n, r
<1>8. SchemaTypeOK'
  BY <1>3, <1>4, <1>5, <1>7 DEF SchemaInv, SchemaTypeOK
<1>9. RequestsSound'
  BY <1>2, <1>3, <1>5, <1>6, <1>7 DEF SchemaInv, SchemaTypeOK, RequestsSound, Since
<1>10. EffectRecorded'
  BY <1>7 DEF SchemaInv, EffectRecorded, Since
<1> QED  BY <1>8, <1>9, <1>10 DEF SchemaInv

LEMMA HearAnswerKeeps ==
    ASSUME SchemaInv, NEW w \in Pusher, HearAnswer(w)
    PROVE  SchemaInv'
<1> DEFINE n == [push[w] EXCEPT !.at = "push"]
<1>1. push[w] \in Push /\ request[w] \in Posted /\ request[w].version \in Nat
  BY DEF SchemaInv, SchemaTypeOK, Posted
<1>2. n \in Push /\ n.list = push[w].list
  BY <1>1 DEF Push
<1>3. push' = [push EXCEPT ![w] = n] /\ request' = [request EXCEPT ![w] = NoRequest]
  BY <1>1 DEF HearAnswer, SchemaInv, SchemaTypeOK, Push
<1>4. ackedVersion' \in [Provider -> Nat]
  BY <1>1 DEF HearAnswer, SchemaInv, SchemaTypeOK
<1>5. UNCHANGED <<migrations, recorded, metaVersion, effects>>
  BY DEF HearAnswer
<1> HIDE DEF n
<1>6. SchemaTypeOK'
  BY <1>2, <1>3, <1>4, <1>5, IdleRecords DEF SchemaInv, SchemaTypeOK
<1>7. RequestsSound'
  BY <1>2, <1>3, <1>5, IdleRecords DEF SchemaInv, SchemaTypeOK, RequestsSound, Since
<1>8. EffectRecorded'
  BY <1>5 DEF SchemaInv, EffectRecorded, Since
<1> QED  BY <1>6, <1>7, <1>8 DEF SchemaInv

LEMMA FinishPushKeeps ==
    ASSUME SchemaInv, NEW w \in Pusher, FinishPush(w)
    PROVE  SchemaInv'
<1>1. push' = [push EXCEPT ![w] = NoPush]
  BY DEF FinishPush
<1>2. UNCHANGED <<ackedVersion, recorded, metaVersion, effects, request>>
  BY DEF FinishPush, agentVars
<1>3. /\ migrations' \in Seq(Migration)
      /\ Len(migrations') = Len(migrations)
      /\ \A v \in 1..Len(migrations) : migrations'[v].kind = migrations[v].kind
  <2>1. CASE w = Sweeper
    BY <2>1 DEF FinishPush, SchemaInv, SchemaTypeOK
  <2>2. CASE w # Sweeper
    <3>1. migrations' = [migrations EXCEPT ![push[w].own].state = "APPLIED"]
      BY <2>2 DEF FinishPush
    <3>2. migrations \in Seq(Migration)
      BY DEF SchemaInv, SchemaTypeOK
    <3>3. DOMAIN migrations = 1..Len(migrations) /\ Len(migrations) \in Nat
      BY <3>2, SMT
    <3>4. DOMAIN migrations' = 1..Len(migrations)
      BY <3>1, <3>3
    <3>5. \A v \in 1..Len(migrations) :
              /\ migrations'[v] \in Migration
              /\ migrations'[v].kind = migrations[v].kind
      <4> TAKE v \in 1..Len(migrations)
      <4>1. migrations[v] \in Migration
        BY <3>2, SMT
      <4>2. \/ migrations'[v] = migrations[v]
            \/ migrations'[v] = [migrations[v] EXCEPT !.state = "APPLIED"]
        BY <3>1, <3>3
      <4> QED  BY <4>1, <4>2 DEF Migration
    <3>6. migrations' \in [1..Len(migrations) -> Migration]
      BY <3>1, <3>4, <3>5
    <3>7. migrations' \in Seq(Migration) /\ Len(migrations') = Len(migrations)
      BY <3>3, <3>6, SMT
    <3> QED  BY <3>5, <3>7
  <2> QED  BY <2>1, <2>2
<1>4. Since(0)' = Since(0)
  BY <1>3 DEF Since
<1>5. SchemaTypeOK'
  BY <1>1, <1>2, <1>3, IdleRecords DEF SchemaInv, SchemaTypeOK
<1>6. RequestsSound'
  BY <1>1, <1>2, <1>4, IdleRecords DEF SchemaInv, SchemaTypeOK, RequestsSound
<1>7. EffectRecorded'
  <2>1. \A v \in Since(0) : migrations'[v].kind = migrations[v].kind
    BY <1>3, SMT DEF Since, SchemaInv, SchemaTypeOK
  <2> QED  BY <2>1, <1>2, <1>4 DEF SchemaInv, EffectRecorded
<1> QED  BY <1>5, <1>6, <1>7 DEF SchemaInv

LEMMA GatewayDiesKeeps ==
    ASSUME SchemaInv, GatewayDies
    PROVE  SchemaInv'
<1>1. push' = [w \in Pusher |-> NoPush]
  BY DEF GatewayDies
<1>2. request' = [w \in Pusher |-> IF request[w].at \in {"done", "failed"}
                                   THEN NoRequest ELSE request[w]]
  BY DEF GatewayDies
<1>3. UNCHANGED <<migrations, ackedVersion, recorded, metaVersion, effects>>
  BY DEF GatewayDies
<1>4. SchemaTypeOK'
  BY <1>1, <1>2, <1>3, IdleRecords DEF SchemaInv, SchemaTypeOK
<1>5. RequestsSound'
  BY <1>1, <1>2, <1>3, IdleRecords DEF SchemaInv, SchemaTypeOK, RequestsSound, Since
<1>6. EffectRecorded'
  BY <1>3 DEF SchemaInv, EffectRecorded, Since
<1> QED  BY <1>4, <1>5, <1>6 DEF SchemaInv

-----------------------------------------------------------------------------
(* The agent.                                                              *)

\* A step that moves one request, within its list, and has no effect.
LEMMA RequestMoves ==
    ASSUME SchemaInv, NEW w \in Pusher, NEW r \in Posted,
           r.list \subseteq request[w].list,
           r.at # "idle" => r.node \in Provider,
           r.at \in {"run", "log"} => r.list # {},
           request' = [request EXCEPT ![w] = r],
           metaVersion' \in [Provider -> Nat],
           UNCHANGED <<migrations, ackedVersion, recorded, effects, push>>
    PROVE  SchemaInv'
<1>1. SchemaTypeOK'
  BY DEF SchemaInv, SchemaTypeOK
<1>2. RequestsSound'
  BY DEF SchemaInv, SchemaTypeOK, RequestsSound, Since
<1>3. EffectRecorded'
  BY DEF SchemaInv, EffectRecorded, Since
<1> QED  BY <1>1, <1>2, <1>3 DEF SchemaInv

\* An answer that has nothing but the version to show.
LEMMA ReplyMoves ==
    ASSUME SchemaInv, NEW w \in Pusher, NEW at \in {"done", "failed"},
           request[w].at # "idle", Reply(w, at),
           metaVersion' \in [Provider -> Nat],
           UNCHANGED <<migrations, ackedVersion, recorded, effects, push>>
    PROVE  SchemaInv'
<1> DEFINE a == [request[w] EXCEPT !.at = at]
<1>1. request[w] \in Posted /\ request[w].node \in Provider
  BY DEF SchemaInv, SchemaTypeOK, RequestsSound
<1>2. /\ a \in Posted /\ a.list = request[w].list /\ a.node = request[w].node
      /\ a.at = at
  BY <1>1 DEF Posted
<1>3. request' = [request EXCEPT ![w] = IF push[w].at = "wait" THEN a ELSE NoRequest]
  BY DEF Reply, SchemaInv, SchemaTypeOK
<1> HIDE DEF a
<1>4. CASE push[w].at = "wait"
  <2>1. request' = [request EXCEPT ![w] = a]
    BY <1>3, <1>4
  <2> QED  BY <2>1, <1>1, <1>2, RequestMoves
<1>5. CASE push[w].at # "wait"
  <2>1. request' = [request EXCEPT ![w] = NoRequest]
    BY <1>3, <1>5
  <2> QED  BY <2>1, IdleRecords, RequestMoves
<1> QED  BY <1>4, <1>5

LEMMA CurrentVersionKeeps ==
    ASSUME SchemaInv, NEW w \in Pusher, CurrentVersion(w)
    PROVE  SchemaInv'
<1> DEFINE r == [request[w] EXCEPT !.at = "next", !.version = metaVersion[request[w].node]]
<1>1. request[w] \in Posted /\ request[w].node \in Provider /\ metaVersion[request[w].node] \in Nat
  BY DEF CurrentVersion, SchemaInv, SchemaTypeOK, RequestsSound
<1>2. /\ r \in Posted /\ r.list = request[w].list /\ r.node = request[w].node
      /\ r.at = "next"
  BY <1>1 DEF Posted
<1>3. request' = [request EXCEPT ![w] = r]
  BY <1>1 DEF CurrentVersion, SchemaInv, SchemaTypeOK, Posted
<1>4. UNCHANGED <<migrations, ackedVersion, recorded, metaVersion, effects, push>>
  BY DEF CurrentVersion, gatewayVars
<1> HIDE DEF r
<1>5. metaVersion' \in [Provider -> Nat]
  BY <1>4 DEF SchemaInv, SchemaTypeOK
<1> QED  BY <1>1, <1>2, <1>3, <1>4, <1>5, RequestMoves

LEMMA LookUpMigrationKeeps ==
    ASSUME SchemaInv, NEW w \in Pusher, LookUpMigration(w)
    PROVE  SchemaInv'
<1> DEFINE r == request[w]
           skip == [r EXCEPT !.list = r.list \ {Min(r.list)}]
           run == [r EXCEPT !.at = "run"]
<1>1. r \in Posted /\ r.node \in Provider /\ r.at = "next" /\ r.list # {}
  BY DEF LookUpMigration, SchemaInv, SchemaTypeOK, RequestsSound
<1>2. /\ skip \in Posted /\ skip.list \subseteq r.list /\ skip.node = r.node
      /\ skip.at = "next"
  BY <1>1 DEF Posted
<1>3. run \in Posted /\ run.list = r.list /\ run.node = r.node /\ run.at = "run"
  BY <1>1 DEF Posted
<1>4. request' = [request EXCEPT ![w] = skip] \/ request' = [request EXCEPT ![w] = run]
  BY DEF LookUpMigration
<1>5. UNCHANGED <<migrations, ackedVersion, recorded, metaVersion, effects, push>>
  BY DEF LookUpMigration, gatewayVars
<1>6. metaVersion' \in [Provider -> Nat]
  BY <1>5 DEF SchemaInv, SchemaTypeOK
<1> HIDE DEF skip, run
<1>7. CASE request' = [request EXCEPT ![w] = skip]
  BY <1>1, <1>2, <1>5, <1>6, <1>7, RequestMoves
<1>8. CASE request' = [request EXCEPT ![w] = run]
  BY <1>1, <1>3, <1>5, <1>6, <1>8, RequestMoves
<1> QED  BY <1>4, <1>7, <1>8

LEMMA SchemaFailsKeeps ==
    ASSUME SchemaInv, NEW w \in Pusher, SchemaFails(w)
    PROVE  SchemaInv'
<1>1. UNCHANGED <<migrations, ackedVersion, recorded, metaVersion, effects, push>>
  BY DEF SchemaFails, gatewayVars
<1>2. metaVersion' \in [Provider -> Nat]
  BY <1>1 DEF SchemaInv, SchemaTypeOK
<1> QED  BY <1>1, <1>2, ReplyMoves DEF SchemaFails

LEMMA WriteVersionKeeps ==
    ASSUME SchemaInv, NEW w \in Pusher, WriteVersion(w)
    PROVE  SchemaInv'
<1>1. UNCHANGED <<migrations, ackedVersion, recorded, effects, push>>
  BY DEF WriteVersion, gatewayVars
<1>2. request[w].at # "idle" /\ Reply(w, "done")
  BY DEF WriteVersion
<1>3. metaVersion' \in [Provider -> Nat]
  BY DEF WriteVersion, SchemaInv, SchemaTypeOK, Posted
<1> QED  BY <1>1, <1>2, <1>3, ReplyMoves

\* The request that runs a migration has a node and a migration to run.
LEMMA RunsOne ==
    ASSUME SchemaInv, NEW w \in Pusher, request[w].at \in {"run", "log"}
    PROVE  /\ request[w] \in Posted
           /\ request[w].node \in Provider
           /\ Min(request[w].list) \in request[w].list
           /\ Min(request[w].list) \in Since(0)
           /\ Min(request[w].list) \in Nat
<1>1. request[w] \in Posted /\ request[w].node \in Provider
  BY DEF SchemaInv, SchemaTypeOK, RequestsSound
<1>2. request[w].list \subseteq Since(0) /\ request[w].list # {}
  BY DEF SchemaInv, RequestsSound
<1>3. request[w].list \subseteq Nat
  BY <1>1 DEF Posted
<1>4. Min(request[w].list) \in request[w].list
  BY <1>2, <1>3, MinIsMember
<1> QED  BY <1>1, <1>2, <1>3, <1>4

\* A migration recorded and taken off its request's list.  What it did to the
\* node before is the caller's: once the row is there, one effect is allowed.
LEMMA RecordingMoves ==
    ASSUME SchemaInv, NEW w \in Pusher, request[w].at \in {"run", "log"}, Recording(w),
           effects' \in [Provider -> [1..MaxVersion -> Nat]],
           \A p \in Provider : \A v \in 1..MaxVersion :
               \/ effects'[p][v] = effects[p][v]
               \/ /\ p = request[w].node /\ v = Min(request[w].list)
                  /\ effects'[p][v] = 1,
           UNCHANGED <<migrations, ackedVersion, metaVersion, push>>
    PROVE  SchemaInv'
<1> DEFINE r == request[w]
           v0 == Min(r.list)
           next == Advanced(r)
<1>1. r \in Posted /\ r.node \in Provider /\ v0 \in r.list /\ v0 \in Since(0) /\ v0 \in Nat
  BY RunsOne
<1>2. /\ recorded' = [recorded EXCEPT ![r.node] = recorded[r.node] \cup {v0}]
      /\ request' = [request EXCEPT ![w] = next]
  BY DEF Recording
<1> HIDE DEF v0
<1>3. /\ next \in Posted /\ next.list \subseteq r.list /\ next.node = r.node
      /\ next.at = "next"
  BY <1>1 DEF Posted, Advanced, v0
<1> HIDE DEF next
<1>4. SchemaTypeOK'
  BY <1>1, <1>2, <1>3 DEF SchemaInv, SchemaTypeOK
<1>5. Since(0)' = Since(0)
  BY DEF Since
<1>6. RequestsSound'
  <2>1. request'[w] = next /\ \A q \in Pusher \ {w} : request'[q] = request[q]
    BY <1>2 DEF SchemaInv, SchemaTypeOK
  <2>2. /\ next.list \subseteq Since(0) /\ next.node \in Provider
        /\ next.at \notin {"idle", "run", "log"}
    BY <1>1, <1>3 DEF SchemaInv, RequestsSound
  <2>3. \A q \in Pusher : push'[q] = push[q]
    OBVIOUS
  <2>4. \A q \in Pusher : push'[q].list \subseteq Since(0)'
    BY <1>5, <2>3 DEF SchemaInv, RequestsSound
  <2>5. \A q \in Pusher : /\ request'[q].list \subseteq Since(0)'
                          /\ request'[q].at # "idle" => request'[q].node \in Provider
                          /\ request'[q].at \in {"run", "log"} => request'[q].list # {}
    <3>1. TAKE q \in Pusher
    <3>2. CASE q = w
      BY <1>5, <2>1, <2>2, <3>2
    <3>3. CASE q # w
      BY <1>5, <2>1, <3>3 DEF SchemaInv, RequestsSound
    <3> QED  BY <3>2, <3>3
  <2> QED  BY <2>4, <2>5 DEF RequestsSound
<1>7. EffectRecorded'
  <2> SUFFICES ASSUME NEW p \in Provider, NEW v \in 1..MaxVersion
               PROVE  /\ effects'[p][v] <= 1
                      /\ v \notin Since(0) => effects'[p][v] = 0
                      /\ v \in Since(0) /\ migrations[v].kind = "plain" /\ v \notin recorded'[p]
                            => effects'[p][v] = 0
    BY <1>5, ZenonT(30) DEF EffectRecorded
  <2>1. CASE effects'[p][v] = effects[p][v]
    <3>1. recorded[p] \subseteq recorded'[p]
      BY <1>1, <1>2 DEF SchemaInv, SchemaTypeOK
    <3> QED  BY <3>1, <2>1 DEF SchemaInv, EffectRecorded
  <2>2. CASE p = r.node /\ v = v0 /\ effects'[p][v] = 1
    <3>1. v0 \in recorded'[r.node]
      BY <1>1, <1>2 DEF SchemaInv, SchemaTypeOK
    <3>2. v \in recorded'[p]
      BY <3>1, <2>2
    <3>3. v \in Since(0)
      BY <1>1, <2>2, ZenonT(30)
    <3>4. \A k : k = 1 => k <= 1
      BY SMT
    <3>5. effects'[p][v] <= 1
      BY <2>2, <3>4
    <3> QED  BY <3>2, <3>3, <3>5
  <2> QED  BY <2>1, <2>2 DEF v0
<1> QED  BY <1>4, <1>6, <1>7 DEF SchemaInv

LEMMA RunPlainKeeps ==
    ASSUME SchemaInv, NEW w \in Pusher, RunPlain(w)
    PROVE  SchemaInv'
<1> DEFINE r == request[w]
           v0 == Min(r.list)
<1>1. r.at = "run" /\ migrations[v0].kind = "plain"
  BY DEF RunPlain
<1>2. r \in Posted /\ r.node \in Provider /\ v0 \in Since(0) /\ v0 \in Nat
  BY <1>1, RunsOne
<1>3. UNCHANGED <<migrations, ackedVersion, metaVersion, push>>
  BY DEF RunPlain, gatewayVars
<1>4. CASE v0 \in recorded[r.node]
  <2>1. Reply(w, "failed") /\ UNCHANGED <<recorded, effects>>
    BY <1>4 DEF RunPlain
  <2>2. metaVersion' \in [Provider -> Nat]
    BY <1>3 DEF SchemaInv, SchemaTypeOK
  <2> QED  BY <2>1, <2>2, <1>1, <1>3, ReplyMoves
<1>5. CASE v0 \notin recorded[r.node]
  <2>1. Recording(w) /\ effects' = [effects EXCEPT ![r.node][v0] = @ + 1]
    BY <1>5 DEF RunPlain
  <2> HIDE DEF v0
  <2>2. effects \in [Provider -> [1..MaxVersion -> Nat]]
    BY DEF SchemaInv, SchemaTypeOK
  <2>3. v0 \in 1..MaxVersion => effects[r.node][v0] = 0
    BY <1>1, <1>2, <1>5 DEF SchemaInv, EffectRecorded
  <2>4. effects' \in [Provider -> [1..MaxVersion -> Nat]]
    <3> DEFINE f == [effects[r.node] EXCEPT ![v0] = effects[r.node][v0] + 1]
    <3>1. effects[r.node] \in [1..MaxVersion -> Nat]
      BY <2>2, <1>2
    <3>2. f \in [1..MaxVersion -> Nat]
      <4>1. CASE v0 \in 1..MaxVersion
        <5>1. effects[r.node][v0] \in Nat
          BY <3>1, <4>1
        <5>2. \A k \in Nat : k + 1 \in Nat
          BY SMT
        <5> QED  BY <3>1, <5>1, <5>2
      <4>2. CASE v0 \notin 1..MaxVersion
        BY <3>1, <4>2
      <4> QED  BY <4>1, <4>2
    <3>3. effects' = [effects EXCEPT ![r.node] = f]
      BY <2>1, <2>2
    <3> HIDE DEF f
    <3> QED  BY <3>2, <3>3, <2>2
  <2>5. \A p \in Provider : \A v \in 1..MaxVersion :
            \/ effects'[p][v] = effects[p][v]
            \/ p = r.node /\ v = v0 /\ effects'[p][v] = 1
    BY <2>1, <2>2, <2>3, <1>2, SMTT(30)
  <2> QED  BY <2>1, <2>4, <2>5, <1>1, <1>3, RecordingMoves DEF v0
<1> QED  BY <1>4, <1>5

LEMMA RunAloneKeeps ==
    ASSUME SchemaInv, NEW w \in Pusher, RunAlone(w)
    PROVE  SchemaInv'
<1> DEFINE r == request[w]
           v0 == Min(r.list)
           log == [r EXCEPT !.at = "log"]
<1>1. r.at = "run" /\ migrations[v0].kind = "alone"
  BY DEF RunAlone
<1>2. r \in Posted /\ r.node \in Provider /\ v0 \in r.list /\ v0 \in Since(0) /\ v0 \in Nat
  BY <1>1, RunsOne
<1>3. UNCHANGED <<migrations, ackedVersion, recorded, metaVersion, push>>
  BY DEF RunAlone, gatewayVars
<1>4. /\ effects' = [effects EXCEPT ![r.node][v0] = 1]
      /\ request' = [request EXCEPT ![w] = log]
  BY <1>2 DEF RunAlone, SchemaInv, SchemaTypeOK
<1> HIDE DEF v0
<1>5. log \in Posted /\ log.list = r.list /\ log.node = r.node /\ log.at = "log"
  BY <1>2 DEF Posted
<1> HIDE DEF log
<1>6. effects' \in [Provider -> [1..MaxVersion -> Nat]]
  BY <1>4 DEF SchemaInv, SchemaTypeOK
<1>7. SchemaTypeOK'
  BY <1>3, <1>4, <1>5, <1>6 DEF SchemaInv, SchemaTypeOK
<1>8. Since(0)' = Since(0)
  BY <1>3 DEF Since
<1>9. RequestsSound'
  BY <1>2, <1>3, <1>4, <1>5, <1>8 DEF SchemaInv, SchemaTypeOK, RequestsSound
<1>10. EffectRecorded'
  <2> SUFFICES ASSUME NEW p \in Provider, NEW v \in 1..MaxVersion
               PROVE  /\ effects'[p][v] <= 1
                      /\ v \notin Since(0) => effects'[p][v] = 0
                      /\ v \in Since(0) /\ migrations[v].kind = "plain" /\ v \notin recorded[p]
                            => effects'[p][v] = 0
    BY <1>3, <1>8 DEF EffectRecorded
  <2>1. CASE p = r.node /\ v = v0
    <3>1. effects'[p][v] = 1
      BY <2>1, <1>4, ZenonT(30) DEF SchemaInv, SchemaTypeOK
    <3>2. \A k : k = 1 => k <= 1
      BY SMT
    <3>3. effects'[p][v] <= 1
      BY <3>1, <3>2
    <3> QED  BY <3>3, <2>1, <1>1, <1>2
  <2>2. CASE ~(p = r.node /\ v = v0)
    <3>1. effects'[p][v] = effects[p][v]
      BY <2>2, <1>4 DEF SchemaInv, SchemaTypeOK
    <3> QED  BY <3>1 DEF SchemaInv, EffectRecorded
  <2> QED  BY <2>1, <2>2
<1> QED  BY <1>7, <1>9, <1>10 DEF SchemaInv

LEMMA LogAloneKeeps ==
    ASSUME SchemaInv, NEW w \in Pusher, LogAlone(w)
    PROVE  SchemaInv'
<1>1. request[w].at = "log"
  BY DEF LogAlone
<1>2. UNCHANGED <<migrations, ackedVersion, metaVersion, effects, push>>
  BY DEF LogAlone, gatewayVars
<1>3. /\ metaVersion' \in [Provider -> Nat]
      /\ effects' \in [Provider -> [1..MaxVersion -> Nat]]
  BY <1>2 DEF SchemaInv, SchemaTypeOK
<1>4. CASE Reply(w, "failed") /\ UNCHANGED recorded
  BY <1>1, <1>2, <1>3, <1>4, ReplyMoves
<1>5. CASE Recording(w)
  BY <1>1, <1>2, <1>3, <1>5, RecordingMoves
<1> QED  BY <1>4, <1>5 DEF LogAlone

-----------------------------------------------------------------------------
LEMMA StepKeepsSchemaInv ==
    ASSUME SchemaInv, [SchemaNext]_schemaVars
    PROVE  SchemaInv'
<1>1. ASSUME NEW c \in DdlClient, NEW kind \in Kind, AppendMigration(c, kind)
      PROVE  SchemaInv'
  BY <1>1, AppendMigrationKeeps
<1>2. ASSUME NEW nodes \in SUBSET Provider,
             StartSweep(nodes) \/ \E c \in DdlClient : ReadPending(c, nodes)
      PROVE  SchemaInv'
  BY <1>2, StartSweepKeeps, ReadPendingKeeps
<1>3. CASE GatewayDies
  BY <1>3, GatewayDiesKeeps
<1>4. ASSUME NEW w \in Pusher, NEW p \in Provider, SkipProvider(w, p) \/ PostMigrations(w, p)
      PROVE  SchemaInv'
  BY <1>4, SkipProviderKeeps, PostMigrationsKeeps
<1>5. ASSUME NEW w \in Pusher, HearAnswer(w) \/ GiveUp(w) \/ FinishPush(w)
      PROVE  SchemaInv'
  BY <1>5, HearAnswerKeeps, GiveUpKeeps, FinishPushKeeps
<1>6. ASSUME NEW w \in Pusher, CurrentVersion(w) \/ LookUpMigration(w) \/ WriteVersion(w)
      PROVE  SchemaInv'
  BY <1>6, CurrentVersionKeeps, LookUpMigrationKeeps, WriteVersionKeeps
<1>7. ASSUME NEW w \in Pusher, RunPlain(w) \/ RunAlone(w) \/ LogAlone(w) \/ SchemaFails(w)
      PROVE  SchemaInv'
  BY <1>7, RunPlainKeeps, RunAloneKeeps, LogAloneKeeps, SchemaFailsKeeps
<1>8. CASE UNCHANGED schemaVars
  BY <1>8 DEF schemaVars, SchemaInv, SchemaTypeOK, RequestsSound, EffectRecorded, Since
<1> QED  BY <1>1, <1>2, <1>3, <1>4, <1>5, <1>6, <1>7, <1>8 DEF SchemaNext, Kind

\* However the pushes of any number of clients, the catch-up loop, timeouts and
\* restarts of the gateway overlap on any number of nodes, no statement takes
\* effect twice on a node (schema.ts, POST /schema).
THEOREM MigrationsTakeEffectOnce == SchemaSpec => []MigratedOnce
<1>1. SchemaInit => SchemaInv
  <2> SUFFICES ASSUME SchemaInit
               PROVE  SchemaInv
    OBVIOUS
  <2>1. SchemaTypeOK
    <3>1. migrations \in Seq(Migration) /\ 0 \in Nat
      BY SMT DEF SchemaInit
    <3> QED  BY IdleRecords, <3>1 DEF SchemaInit, SchemaTypeOK
  <2>2. RequestsSound
    BY IdleRecords DEF SchemaInit, RequestsSound
  <2>3. \A p \in Provider : \A v \in 1..MaxVersion : effects[p][v] = 0
    BY DEF SchemaInit
  <2>4. EffectRecorded
    BY <2>3, SMT DEF EffectRecorded
  <2> QED  BY <2>1, <2>2, <2>4 DEF SchemaInv
<1>2. SchemaInv /\ [SchemaNext]_schemaVars => SchemaInv'
  BY StepKeepsSchemaInv
<1>3. SchemaInv => MigratedOnce
  BY DEF SchemaInv, EffectRecorded, MigratedOnce
<1> QED  BY <1>1, <1>2, <1>3, PTL DEF SchemaSpec

-----------------------------------------------------------------------------
(* MeshWrites.                                                             *)

Known == 1..Len(rowOf)
Tick == [at : {"idle", "next", "sent", "acked", "placed"}, nodes : SUBSET MeshNode,
         batch : SUBSET Nat, to : MeshNode \cup {NoNode}]

\* The queue holds operations that exist, and an effect is there where the row
\* of the operation is.
QueueSound ==
    /\ rowOf \in Seq(MeshRow) /\ Len(rowOf) <= MaxOps
    /\ queued \subseteq Known
    /\ opKeys \in [MeshNode -> SUBSET Op]
    /\ applied \in [MeshNode -> [Op -> Nat]]
    /\ \A n \in MeshNode : \A o \in Op : applied[n][o] = IF o \in opKeys[n] THEN 1 ELSE 0
    /\ \A o \in Known : o \in queued \/ \E n \in MeshNode : o \in opKeys[n]

\* What was sent goes to a node and is an operation that exists; what is
\* acknowledged has its row there.
TickSound ==
    /\ tick \in Tick
    /\ tick.batch \subseteq Known
    /\ tick.at # "idle" => tick.nodes # {}
    /\ tick.at \in {"sent", "acked", "placed"} => tick.batch # {} /\ tick.to \in MeshNode
    /\ tick.at \in {"acked", "placed"} => Current \in opKeys[tick.to]
    /\ stray \subseteq MeshNode \X Known

WritesInv == QueueSound /\ TickSound

LEMMA KnownAreOps ==
    ASSUME WritesInv
    PROVE  Known \subseteq Op /\ Known \subseteq Nat /\ Len(rowOf) \in Nat
<1>1. Len(rowOf) \in Nat /\ Len(rowOf) <= MaxOps
  BY SMT DEF WritesInv, QueueSound
<1>2. MaxOps \in Nat
  BY WritesAssumption
<1> QED  BY <1>1, <1>2, SMT DEF Known, Op

LEMMA CurrentIsKnown ==
    ASSUME WritesInv, tick.batch # {}
    PROVE  Current \in tick.batch /\ Current \in Known
<1>1. tick.batch \subseteq Nat /\ tick.batch \subseteq Known
  BY KnownAreOps DEF WritesInv, TickSound
<1>2. Current \in tick.batch
  BY <1>1, MinIsMember DEF Current
<1> QED  BY <1>1, <1>2

\* The dispatcher's record moves, the queue and the nodes stay.
LEMMA TickMoves ==
    ASSUME WritesInv, NEW t \in Tick, tick' = t, t.batch \subseteq Known,
           t.at # "idle" => t.nodes # {},
           t.at \in {"sent", "acked", "placed"} => t.batch # {} /\ t.to \in MeshNode,
           t.at \in {"acked", "placed"} => Min(t.batch) \in opKeys[t.to],
           stray' \subseteq MeshNode \X Known,
           UNCHANGED <<rowOf, queued, opKeys, applied>>
    PROVE  WritesInv'
<1>1. Known' = Known /\ Current' = Min(t.batch)
  BY DEF Known, Current
<1>2. QueueSound'
  BY <1>1 DEF WritesInv, QueueSound
<1>3. TickSound'
  BY <1>1 DEF TickSound
<1> QED  BY <1>2, <1>3 DEF WritesInv

LEMMA EnqueueKeeps ==
    ASSUME WritesInv, NEW r \in MeshRow, NEW nodes \in SUBSET MeshNode, EnqueueWriteOp(r, nodes)
    PROVE  WritesInv'
<1>1. /\ rowOf' = Append(rowOf, r) /\ queued' = queued \cup {Len(rowOf) + 1}
      /\ Len(rowOf) < MaxOps /\ UNCHANGED <<opKeys, applied, tick, stray>>
  BY DEF EnqueueWriteOp, agentTables
<1>2. rowOf \in Seq(MeshRow) /\ Len(rowOf) \in Nat /\ MaxOps \in Nat
  BY WritesAssumption, SMT DEF WritesInv, QueueSound, WritesAssumption
<1>3. /\ rowOf' \in Seq(MeshRow) /\ Len(rowOf') = Len(rowOf) + 1
      /\ Known' = Known \cup {Len(rowOf) + 1} /\ Len(rowOf') <= MaxOps
  BY <1>1, <1>2, SMT DEF Known
<1>4. Current' = Current
  BY <1>1 DEF Current
<1>5. QueueSound'
  BY <1>1, <1>3 DEF WritesInv, QueueSound
<1>6. TickSound'
  BY <1>1, <1>3, <1>4 DEF WritesInv, TickSound
<1> QED  BY <1>5, <1>6 DEF WritesInv

\* select_owner chooses one of the nodes it is given.
LEMMA OwnerIsANode ==
    ASSUME NEW r \in MeshRow, NEW nodes \in SUBSET MeshNode, nodes # {}, NEW existing
    PROVE  SelectOwner(r, nodes, existing) \in nodes
BY WritesAssumption DEF SelectOwner, WritesAssumption

LEMMA TakeKeeps ==
    ASSUME WritesInv, NEW nodes \in SUBSET MeshNode, TakeWriteOps(nodes)
    PROVE  WritesInv'
<1> DEFINE t == [at |-> "next", nodes |-> nodes, batch |-> Oldest(queued), to |-> NoNode]
<1>1. Oldest(queued) \subseteq Known /\ Oldest(queued) \subseteq Nat
  BY KnownAreOps DEF Oldest, WritesInv, QueueSound
<1>2. t \in Tick /\ t.at = "next" /\ t.batch = Oldest(queued) /\ t.nodes = nodes
  BY <1>1 DEF Tick
<1>3. tick' = t /\ nodes # {} /\ UNCHANGED <<rowOf, queued, opKeys, applied, stray>>
  BY DEF TakeWriteOps, agentTables
<1> HIDE DEF t
<1>4. stray' \subseteq MeshNode \X Known
  BY <1>3 DEF WritesInv, TickSound
<1> QED  BY <1>1, <1>2, <1>3, <1>4, TickMoves

LEMMA SendKeeps ==
    ASSUME WritesInv, SendOp
    PROVE  WritesInv'
<1> DEFINE owner == SelectOwner(rowOf[Current], tick.nodes, placement[rowOf[Current]])
           t == [tick EXCEPT !.at = "sent", !.to = owner]
<1>1. tick \in Tick /\ tick.at = "next" /\ tick.batch # {} /\ tick.nodes # {}
  BY DEF SendOp, WritesInv, TickSound
<1>2. rowOf[Current] \in MeshRow
  BY <1>1, CurrentIsKnown, SMT DEF WritesInv, QueueSound, Known
<1>3. owner \in tick.nodes /\ tick.nodes \in SUBSET MeshNode
  BY <1>1, <1>2, OwnerIsANode DEF Tick
<1>4. tick' = t /\ UNCHANGED <<rowOf, queued, opKeys, applied, stray>>
  BY DEF SendOp, agentTables
<1> HIDE DEF owner
<1>5. t \in Tick /\ t.at = "sent" /\ t.to = owner /\ t.batch = tick.batch /\ t.nodes = tick.nodes
  BY <1>1, <1>3 DEF Tick
<1> HIDE DEF t
<1>6. t.batch \subseteq Known /\ stray' \subseteq MeshNode \X Known
  BY <1>4, <1>5 DEF WritesInv, TickSound
<1> QED  BY <1>1, <1>3, <1>4, <1>5, <1>6, TickMoves

\* The agent's transaction: afterwards the row is there, once with its effect.
LEMMA ApplyKeepsQueue ==
    ASSUME WritesInv, NEW n \in MeshNode, NEW o \in Known, ApplyOp(n, o),
           UNCHANGED <<rowOf, queued>>
    PROVE  /\ QueueSound'
           /\ o \in opKeys'[n]
           /\ \A m \in MeshNode : opKeys[m] \subseteq opKeys'[m]
<1>1. o \in Op /\ Known' = Known
  BY KnownAreOps DEF Known
<1>2. /\ opKeys \in [MeshNode -> SUBSET Op] /\ applied \in [MeshNode -> [Op -> Nat]]
      /\ \A m \in MeshNode : \A p \in Op : applied[m][p] = IF p \in opKeys[m] THEN 1 ELSE 0
  BY DEF WritesInv, QueueSound
<1>3. /\ opKeys' = [opKeys EXCEPT ![n] = opKeys[n] \cup {o}]
      /\ applied' = IF o \in opKeys[n] THEN applied
                    ELSE [applied EXCEPT ![n][o] = applied[n][o] + 1]
  BY <1>2 DEF ApplyOp
<1>4. /\ opKeys' \in [MeshNode -> SUBSET Op] /\ o \in opKeys'[n]
      /\ \A m \in MeshNode : opKeys[m] \subseteq opKeys'[m]
      /\ \A m \in MeshNode : \A p \in Op :
             p \in opKeys'[m] <=> p \in opKeys[m] \/ (m = n /\ p = o)
  BY <1>1, <1>2, <1>3
<1>5. /\ applied' \in [MeshNode -> [Op -> Nat]]
      /\ \A m \in MeshNode : \A p \in Op : applied'[m][p] = IF p \in opKeys'[m] THEN 1 ELSE 0
  <2>1. CASE o \in opKeys[n]
    BY <2>1, <1>2, <1>3, <1>4
  <2>2. CASE o \notin opKeys[n]
    <3> DEFINE f == [applied[n] EXCEPT ![o] = applied[n][o] + 1]
    <3>1. applied[n] \in [Op -> Nat] /\ applied[n][o] = 0
      BY <2>2, <1>1, <1>2, ZenonT(30)
    <3>2. f \in [Op -> Nat] /\ f[o] = 1 /\ \A p \in Op \ {o} : f[p] = applied[n][p]
      BY <3>1, <1>1, SMT
    <3>3. applied' = [applied EXCEPT ![n] = f]
      BY <2>2, <1>2, <1>3
    <3> HIDE DEF f
    <3>4. applied' \in [MeshNode -> [Op -> Nat]]
      BY <3>2, <3>3, <1>2
    <3>5. applied'[n] = f /\ \A m \in MeshNode \ {n} : applied'[m] = applied[m]
      BY <3>3, <1>2
    <3> QED  BY <3>2, <3>4, <3>5, <1>1, <1>2, <1>4, SMTT(30)
  <2> QED  BY <2>1, <2>2
<1>6. \A p \in Known : p \in queued \/ \E m \in MeshNode : p \in opKeys'[m]
  BY <1>4 DEF WritesInv, QueueSound
<1> QED  BY <1>1, <1>4, <1>5, <1>6 DEF WritesInv, QueueSound

LEMMA OpAppliedKeeps ==
    ASSUME WritesInv, OpApplied
    PROVE  WritesInv'
<1> DEFINE t == [tick EXCEPT !.at = "acked"]
<1>1. tick \in Tick /\ tick.at = "sent" /\ tick.batch # {} /\ tick.to \in MeshNode
  BY DEF OpApplied, WritesInv, TickSound
<1>2. Current \in Known /\ ApplyOp(tick.to, Current) /\ UNCHANGED <<rowOf, queued, stray>>
  BY <1>1, CurrentIsKnown DEF OpApplied
<1>3. QueueSound' /\ Current \in opKeys'[tick.to]
  BY <1>1, <1>2, ApplyKeepsQueue
<1>4. /\ tick' = t /\ t \in Tick /\ t.at = "acked" /\ t.to = tick.to /\ t.batch = tick.batch
      /\ t.nodes = tick.nodes
  BY <1>1 DEF OpApplied, Tick
<1> HIDE DEF t
<1>5. Known' = Known /\ Current' = Current
  BY <1>2, <1>4 DEF Known, Current
<1>6. TickSound'
  BY <1>1, <1>2, <1>3, <1>4, <1>5 DEF WritesInv, TickSound
<1> QED  BY <1>3, <1>6 DEF WritesInv

LEMMA StrayKeeps ==
    ASSUME WritesInv, NEW n \in MeshNode, NEW o \in Op, StrayApplied(n, o)
    PROVE  WritesInv'
<1>1. <<n, o>> \in stray /\ ApplyOp(n, o) /\ UNCHANGED <<rowOf, queued, tick>>
  BY DEF StrayApplied
<1>2. o \in Known
  BY <1>1 DEF WritesInv, TickSound
<1>3. QueueSound' /\ \A m \in MeshNode : opKeys[m] \subseteq opKeys'[m]
  BY <1>1, <1>2, ApplyKeepsQueue
<1>4. Known' = Known /\ Current' = Current
  BY <1>1 DEF Known, Current
<1>5. stray' \subseteq stray
  BY DEF StrayApplied
<1>6. TickSound'
  BY <1>1, <1>3, <1>4, <1>5 DEF WritesInv, TickSound
<1> QED  BY <1>3, <1>6 DEF WritesInv

\* The rest of a batch, after its current operation.
LEMMA NextOfBatch ==
    ASSUME WritesInv
    PROVE  LET t == [tick EXCEPT !.at = "next", !.batch = @ \ {Current}, !.to = NoNode]
           IN  t \in Tick /\ t.at = "next" /\ t.batch \subseteq Known /\ t.nodes = tick.nodes
<1>1. tick \in Tick /\ tick.batch \subseteq Known
  BY DEF WritesInv, TickSound
<1> QED  BY <1>1 DEF Tick

LEMMA OpFailedKeeps ==
    ASSUME WritesInv, OpFailed
    PROVE  WritesInv'
<1> DEFINE t == [tick EXCEPT !.at = "next", !.batch = @ \ {Current}, !.to = NoNode]
<1>1. tick.batch # {} /\ tick.to \in MeshNode /\ tick.nodes # {}
  BY DEF OpFailed, WritesInv, TickSound
<1>2. Current \in Known
  BY <1>1, CurrentIsKnown
<1>3. stray' \subseteq MeshNode \X Known
  BY <1>1, <1>2, SMT DEF OpFailed, WritesInv, TickSound
<1>4. tick' = t /\ UNCHANGED <<rowOf, queued, opKeys, applied>>
  BY DEF OpFailed, agentTables
<1>5. t \in Tick /\ t.at = "next" /\ t.batch \subseteq Known /\ t.nodes = tick.nodes
  BY NextOfBatch
<1> HIDE DEF t
<1> QED  BY <1>1, <1>3, <1>4, <1>5, TickMoves

LEMMA MarkPlacedKeeps ==
    ASSUME WritesInv, MarkPlaced
    PROVE  WritesInv'
<1> DEFINE t == [tick EXCEPT !.at = "placed"]
<1>1. tick \in Tick /\ tick.at = "acked"
  BY DEF MarkPlaced, WritesInv, TickSound
<1>2. /\ t \in Tick /\ t.at = "placed" /\ t.to = tick.to /\ t.batch = tick.batch
      /\ t.nodes = tick.nodes
  BY <1>1 DEF Tick
<1>3. tick' = t /\ UNCHANGED <<rowOf, queued, opKeys, applied, stray>>
  BY DEF MarkPlaced, agentTables
<1> HIDE DEF t
<1>4. /\ t.batch \subseteq Known /\ t.nodes # {} /\ t.batch # {} /\ t.to \in MeshNode
      /\ Min(t.batch) \in opKeys[t.to] /\ stray' \subseteq MeshNode \X Known
  BY <1>1, <1>2, <1>3 DEF WritesInv, TickSound, Current
<1> QED  BY <1>2, <1>3, <1>4, TickMoves

\* An operation is deleted from the queue when its row is on a node.
LEMMA DeleteKeeps ==
    ASSUME WritesInv, DeleteWriteOp
    PROVE  WritesInv'
<1> DEFINE t == [tick EXCEPT !.at = "next", !.batch = @ \ {Current}, !.to = NoNode]
<1>1. /\ tick.to \in MeshNode /\ tick.nodes # {} /\ Current \in opKeys[tick.to]
  BY DEF DeleteWriteOp, WritesInv, TickSound
<1>2. /\ tick' = t /\ queued' = queued \ {Current}
      /\ UNCHANGED <<rowOf, opKeys, applied, stray>>
  BY DEF DeleteWriteOp, agentTables
<1>3. t \in Tick /\ t.at = "next" /\ t.batch \subseteq Known /\ t.nodes = tick.nodes
  BY NextOfBatch
<1> HIDE DEF t
<1>4. Known' = Known
  BY <1>2 DEF Known
<1>5. QueueSound'
  BY <1>1, <1>2, <1>4, SMT DEF WritesInv, QueueSound
<1>6. TickSound'
  BY <1>1, <1>2, <1>3, <1>4 DEF WritesInv, TickSound
<1> QED  BY <1>5, <1>6 DEF WritesInv

\* The dispatcher stops, at its end or with the gateway.
LEMMA TickStops ==
    ASSUME WritesInv, TickEnds \/ GatewayStops
    PROVE  WritesInv'
<1>1. IdleTick \in Tick /\ IdleTick.at = "idle" /\ IdleTick.batch = {}
  BY DEF IdleTick, Tick
<1>2. tick' = IdleTick /\ UNCHANGED <<rowOf, queued, opKeys, applied>>
  BY DEF TickEnds, GatewayStops, agentTables
<1>3. stray' \subseteq MeshNode \X Known
  <2>1. CASE tick.at = "sent"
    <3>1. <<tick.to, Current>> \in MeshNode \X Known
      BY <2>1, CurrentIsKnown DEF WritesInv, TickSound
    <3> QED  BY <3>1 DEF TickEnds, GatewayStops, WritesInv, TickSound
  <2>2. CASE tick.at # "sent"
    BY <2>2 DEF TickEnds, GatewayStops, WritesInv, TickSound
  <2> QED  BY <2>1, <2>2
<1> QED  BY <1>1, <1>2, <1>3, TickMoves

LEMMA StepKeepsWritesInv ==
    ASSUME WritesInv, [WritesNext]_writesVars
    PROVE  WritesInv'
<1>1. CASE UNCHANGED <<rowOf, queued, opKeys, applied, tick, stray>>
  BY <1>1 DEF WritesInv, QueueSound, TickSound, Known, Current
<1>2. CASE PlaceRow
  BY <1>1, <1>2 DEF PlaceRow, agentTables
<1>3. CASE UNCHANGED writesVars
  BY <1>1, <1>3 DEF writesVars
<1>4. CASE \E nodes \in SUBSET MeshNode :
               TakeWriteOps(nodes) \/ \E r \in MeshRow : EnqueueWriteOp(r, nodes)
  BY <1>4, TakeKeeps, EnqueueKeeps
<1>5. CASE \E n \in MeshNode, o \in Op : StrayApplied(n, o)
  BY <1>5, StrayKeeps
<1> QED  BY <1>2, <1>3, <1>4, <1>5, SendKeeps, OpAppliedKeeps, OpFailedKeeps, MarkPlacedKeeps,
            DeleteKeeps, TickStops DEF WritesNext

\* Whatever answers are lost, requests arrive late and restarts fall between,
\* a queued write is applied at most once on a node, and on some node before it
\* leaves the queue, however rows are hashed to nodes (apply.ts, dispatcher.rs).
THEOREM WritesTakeEffectOnce == WritesSpec => []EffectivelyOnce
<1>1. WritesInit => WritesInv
  <2> SUFFICES ASSUME WritesInit
               PROVE  WritesInv
    OBVIOUS
  <2>1. rowOf \in Seq(MeshRow) /\ Len(rowOf) = 0 /\ Known = {} /\ 0 <= MaxOps
    BY WritesAssumption, SMT DEF WritesInit, Known, WritesAssumption
  <2>2. QueueSound
    BY <2>1, SMT DEF WritesInit, QueueSound
  <2>3. IdleTick \in Tick /\ IdleTick.at = "idle" /\ IdleTick.batch = {}
    BY DEF IdleTick, Tick
  <2>4. TickSound
    BY <2>1, <2>3 DEF WritesInit, TickSound
  <2> QED  BY <2>2, <2>4 DEF WritesInv
<1>2. WritesInv /\ [WritesNext]_writesVars => WritesInv'
  BY StepKeepsWritesInv
<1>3. WritesInv => EffectivelyOnce
  <2> SUFFICES ASSUME WritesInv, NEW o \in DOMAIN rowOf
               PROVE  /\ \A n \in MeshNode : applied[n][o] <= 1
                      /\ o \in queued \/ \E n \in MeshNode : applied[n][o] = 1
    BY DEF EffectivelyOnce
  <2>1. o \in Known /\ o \in Op
    BY KnownAreOps, SMT DEF WritesInv, QueueSound, Known
  <2> QED  BY <2>1, SMT DEF WritesInv, QueueSound
<1> QED  BY <1>1, <1>2, <1>3, PTL DEF WritesSpec
=============================================================================
