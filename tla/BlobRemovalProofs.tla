-------------------------- MODULE BlobRemovalProofs -------------------------
(***************************************************************************)
(* What a removal leaves behind: the record of a moderation, and no bytes  *)
(* without an owner.  Both are about one request at a time: the histories  *)
(* of the model name the hashes for which something else got in between.   *)
(***************************************************************************)
EXTENDS BlobStoreProofs

\* Leaves that name no prover are for Zenon.
USE Zenon

\* A moderation removes only rows whose owners it has read and will record.
Records(t) ==
    job[t] = "moderate" /\ on[t] \notin raced =>
        /\ rpc[t] = "remove" => Owners(on[t]) \subseteq owed[t]
        /\ rpc[t] = "call" => gone[t] \cup todo[t] \subseteq owed[t]
        /\ pc[t] = "row" => who[t] \in owed[t]

Owes(t, u, h) ==
    /\ job[t] = "moderate" /\ on[t] = h /\ u \in owed[t]
    /\ rpc[t] \in {"erase", "audit"} \/ (pc[t] = "done" /\ res[t] = "ok")

AuditInv ==
    /\ \A t \in Tx : Records(t)
    /\ \A u \in Npub, h \in Hash : <<u, h>> \in unaudited /\ h \notin raced \cup faulted =>
         \E t \in Tx : Owes(t, u, h)

\* A hash whose requests ran one at a time and without a failed call.
Clean(h) == h \in Hash /\ h \notin overlapped \cup raced \cup faulted
Held(h) == {n \in Node : <<n, h>> \in stored}

\* The rows of such a hash name exactly the nodes that have it.
Exact(h) == \A u \in Owners(h) : replicas[<<u, h>>] = Held(h)
RowsExact == \A h \in Hash : Clean(h) => Exact(h)

\* Nobody works on it: without an owner it is nowhere.
RestEmpty ==
    \A h \in Hash : Clean(h) /\ Owners(h) = {} /\ (\A t \in Tx : h \notin Working(t)) => Held(h) = {}

\* Where the bytes of h are while request t works on it.
Stands(t, h) ==
    /\ rpc[t] = "put" => Owners(h) = {} /\ Held(h) = reps[t]
    /\ rpc[t] = "call" /\ job[t] = "upload" =>
         /\ Held(h) = reps[t]
         /\ fresh[t] = TRUE /\ pc[t] # "done" => Owners(h) = {}
         /\ fresh[t] = TRUE /\ pc[t] = "done" /\ res[t] # "ok" => Owners(h) = {} /\ res[t] # "already_exists"
         /\ fresh[t] = FALSE \/ (pc[t] = "done" /\ res[t] = "ok") => Owners(h) # {}
    /\ rpc[t] = "undo" => Owners(h) = {} /\ Held(h) = reps[t]
    /\ rpc[t] = "erase" => Owners(h) = {} /\ Held(h) \subseteq cand[t]
    /\ rpc[t] = "audit" => Owners(h) = {} /\ Held(h) = {}
    /\ rpc[t] = "remove" => Owners(h) # {} /\ Held(h) = reps[t]
    /\ rpc[t] = "call" /\ job[t] \in Removal =>
         /\ Held(h) = reps[t]
         /\ pc[t] # "done" \/ res[t] # "ok" => Owners(h) # {}
         /\ pc[t] = "commit" => left[t] = Cardinality(Owners(h) \ gone[t])
         /\ pc[t] = "done" /\ res[t] = "ok" /\ left[t] # 0 => Owners(h) # {}

Knows(t) == \A h \in Hash : on[t] = h /\ Clean(h) => Stands(t, h)

\* The page a purge has listed is still what the rows say.
PageFresh(t) ==
    /\ \A b, c \in batch[t] : b[1] = c[1] => b = c
    /\ \A b \in batch[t] : b[1] # on[t]
    /\ \A b \in batch[t] : Clean(b[1]) => by[t] \in Owners(b[1]) /\ b[2] = Held(b[1])

OrphanInv == RowsExact /\ RestEmpty /\ \A t \in Tx : Knows(t) /\ PageFresh(t)

-----------------------------------------------------------------------------
(* A moderation is recorded.                                               *)

LEMMA NothingToRecord ==
    ASSUME NEW t \in Tx, job'[t] # "moderate" \/ (rpc'[t] \notin {"remove", "call"} /\ pc'[t] # "row")
    PROVE  Records(t)'
BY DEF Records

\* No other request changes what a moderation has read.
LEMMA OthersRecord ==
    ASSUME Base, NEW t \in Tx, NEW s \in Tx, s # t, Same(s), Records(s), raced \subseteq raced',
           \A h \in Hash : \/ Owners(h)' \subseteq Owners(h)
                           \/ h = on[t] /\ job[t] = "upload" /\ rpc[t] = "call"
    PROVE  Records(s)'
<1> SUFFICES ASSUME job[s] = "moderate", on[s] \notin raced
             PROVE  Records(s)'
  BY DEF Records, Same, RequestSame
<1>1. on[s] \in Hash
  BY DEF Base, Shapes, Shape
<1>2. PICK h \in Hash : h = on[s] /\ h = on'[s]
  BY <1>1 DEF Same, RequestSame
<1>3. ~(on[s] = on[t] /\ job[t] = "upload")
  BY <1>1, NoRace DEF Erasing
<1>4. Owners(h)' \subseteq Owners(h)
  BY <1>2, <1>3
<1>5. Owners(on[s])' = Owners(h)'
  BY <1>2 DEF Owners
<1> DEFINE P == Owners(h)'
<1>6. rpc[s] = "remove" => P \subseteq owed[s]
  BY <1>2, <1>4 DEF Records
<1> HIDE DEF P
<1> QED  BY <1>2, <1>5, <1>6 DEF Records, Same, RequestSame, TransactionSame, P

LEMMA StartsRecord ==
    ASSUME Base, Base', NEW t \in Tx, Starts(t)
    PROVE  Records(t)'
<1>1. ASSUME NEW h \in Hash, ModerateStarts(t, h), DeleteLookup(t, h, Owners(h))
      PROVE  Records(t)'
  <2>1. /\ rpc'[t] = "remove" /\ on'[t] = h /\ owed'[t] = Owners(h)
        /\ UNCHANGED <<blob, pc>> /\ pc[t] = "idle"
    BY <1>1, SMT DEF ModerateStarts, Receive, DeleteLookup, ledgerVars, dbVars, txVars, Shapes, Shape, Base,
       StoreTypeOK, Set, Goto
  <2>2. Owners(on[t])' = Owners(h)
    BY <2>1 DEF Owners
  <2> QED  BY <2>1, <2>2 DEF Records
<1>2. CASE ~\E h \in Hash : ModerateStarts(t, h) /\ DeleteLookup(t, h, Owners(h))
  <2>1. job'[t] # "moderate"
    BY <1>2, ZenonT(30) DEF Starts, UploadReuse, UploadStore, UploadStarts, DeleteStarts, PurgeStarts, Receive, Base,
       StoreTypeOK, Set
  <2> QED  BY <2>1, NothingToRecord
<1> QED  BY <1>1, <1>2

\* findMany finds no owner that getBlob did not.
LEMMA RemoveRecords ==
    ASSUME Base, Base', NEW t \in Tx, Remove(t), Records(t), raced \subseteq raced'
    PROVE  Records(t)'
<1>1. rpc[t] = "remove" /\ pc[t] = "idle"
  BY DEF Remove, Shapes, Shape, Base
<1>2. rpc'[t] = "call" /\ UNCHANGED <<job, on, owed>>
  BY DEF Remove, Goto, StoreTypeOK, Base
<1> SUFFICES ASSUME job[t] = "moderate", on[t] \notin raced
             PROVE  Records(t)'
  BY <1>2 DEF Records
<1>3. Owners(on[t]) \subseteq owed[t]
  BY <1>1 DEF Records
<1>4. DelFind(t, on[t], Owners(on[t]))
  BY DEF Remove, DelFindAll
<1>5. gone[t] = {}
  BY <1>1 DEF IInv, Isolation, Isolated, Base
<1>6. CASE Owners(on[t]) = {}
  <2>1. pc'[t] = "done" /\ gone'[t] = {} /\ todo'[t] = {}
    BY <1>4, <1>6, TransactionEnds DEF DelFind, Rollback
  <2> QED  BY <1>2, <2>1 DEF Records
<1>7. CASE Owners(on[t]) # {}
  <2>1. PICK u \in Owners(on[t]) : who'[t] = u /\ todo'[t] = Owners(on[t]) \ {u} /\ gone'[t] = gone[t]
    BY <1>4, <1>7 DEF DelFind, IInv, TypeOK, Base
  <2> QED  BY <1>2, <1>3, <1>5, <2>1 DEF Records
<1> QED  BY <1>6, <1>7

LEMMA LedgerRecords ==
    ASSUME Base, Base', NEW t \in Tx, LedgerStep(t) \/ LedgerAbort(t), Records(t), raced \subseteq raced'
    PROVE  Records(t)'
<1>1. (Step(t) \/ Abort(t)) /\ rpc[t] = "call" /\ UNCHANGED <<rpc, job, on, owed>>
  BY LedgerFits DEF LedgerStep, LedgerAbort, RowsWritten, reqVars
<1> SUFFICES ASSUME job[t] = "moderate", on[t] \notin raced
             PROVE  Records(t)'
  BY <1>1 DEF Records
<1>2. gone[t] \cup todo[t] \subseteq owed[t] /\ (pc[t] = "row" => who[t] \in owed[t])
  BY <1>1 DEF Records
<1>3. CASE Moves(t)
  <2>1. pc[t] \in {"row", "user", "count", "commit", "done"}
    BY <1>1 DEF Shapes, Shape, Base
  <2>2. gone'[t] \cup todo'[t] \subseteq owed[t] /\ (pc'[t] = "row" => who'[t] \in owed[t])
    BY <1>2, <1>3, <2>1, TransactionMoves
  <2> QED  BY <1>1, <2>2 DEF Records
<1>4. CASE \E a : Finish(t, a)
  <2>1. pc'[t] = "done" /\ gone'[t] = {} /\ todo'[t] = {}
    BY <1>4, TransactionEnds
  <2> QED  BY <1>1, <2>1 DEF Records
<1> QED  BY <1>1, <1>3, <1>4, TransactionCases DEF PostCommit, DelCommit, Fails, Rollback

LEMMA ActsRecord ==
    ASSUME Base, Base', NEW t \in Tx, Progress(t) \/ Disturb(t) \/ UndoBlind(t), Records(t),
           raced \subseteq raced'
    PROVE  Records(t)'
<1>1. CASE Remove(t)
  BY <1>1, RemoveRecords
<1>2. CASE LedgerStep(t) \/ LedgerAbort(t)
  BY <1>2, LedgerRecords
<1>3. CASE Respond(t)
  <2>1. job'[t] = NULL
    BY <1>3 DEF Respond, Set, Base, StoreTypeOK
  <2> QED  BY <2>1, StoreAssumption, NothingToRecord
<1>4. CASE \/ Put(t) \/ PutFails(t) \/ Undo(t) \/ UndoBlind(t) \/ PurgeList(t) \/ PurgeNext(t)
  <2>1. job[t] \in {"upload", "purge"}
    BY <1>4 DEF Put, PutFails, Undo, UndoBlind, PurgeList, PurgeNext, Shapes, Shape, Base
  <2>2. Respond(t) \/ UNCHANGED job
    BY <1>4 DEF Put, PutFails, PutNext, Undo, UndoBlind, PurgeList, PurgeNext
  <2> QED  BY <1>3, <2>1, <2>2, NothingToRecord
<1>5. CASE Erase(t) \/ EraseFails(t) \/ Audit(t)
  <2>1. rpc[t] \in {"erase", "audit"} /\ pc'[t] = "idle"
    BY <1>5 DEF Erase, EraseFails, Audit, ledgerVars, txVars, Shapes, Shape, Base
  <2>2. CASE ~Respond(t)
    <3>1. rpc'[t] \notin {"remove", "call"}
      BY <1>5, <2>1, <2>2 DEF Erase, EraseFails, EraseNext, PurgeOn, Audit, Base, StoreTypeOK, Goto
    <3> QED  BY <2>1, <3>1, NothingToRecord
  <2> QED  BY <1>3, <2>2
<1>6. CASE Answered(t) \/ AnswerLost(t)
  <2>1. PICK a : Hears(t, a)
    BY <1>6 DEF Answered, AnswerLost
  <2>2. pc'[t] = "idle"
    BY <2>1 DEF Hears, Return, IInv, TypeOK, Base
  <2>3. Respond(t) \/ rpc'[t] \in {"undo", "erase", "list", "next"}
    BY <2>1 DEF Hears, UploadHears, DeleteHears, ModerateHears, PurgeHears, EraseNow, PurgeOn, Base,
       StoreTypeOK, Goto
  <2> QED  BY <1>3, <2>2, <2>3, NothingToRecord
<1>7. CASE Crash(t)
  BY <1>3, <1>7 DEF Crash
<1> QED  BY <1>1, <1>2, <1>4, <1>5, <1>6, <1>7 DEF Progress, Disturb

\* A request that owes a record goes on owing it, makes it, or fails.
LEMMA DebtKept ==
    ASSUME Base, Base', NEW t \in Tx, Starts(t) \/ Progress(t) \/ Disturb(t) \/ UndoBlind(t),
           NEW u \in Npub, NEW h \in Hash, Owes(t, u, h), h \notin faulted'
    PROVE  Owes(t, u, h)' \/ <<u, h>> \notin unaudited'
<1>1. /\ job[t] = "moderate" /\ on[t] = h /\ u \in owed[t]
      /\ rpc[t] \in {"erase", "audit"} \/ (rpc[t] = "call" /\ pc[t] = "done" /\ res[t] = "ok")
  BY DEF Owes, Shapes, Shape, Base
<1>2. CASE Erase(t)
  <2>1. PICK n : EraseNext(t, n)
    BY <1>2 DEF Erase
  <2>2. UNCHANGED <<job, on, owed>> /\ rpc'[t] \in {"erase", "audit"}
    BY <1>1, <1>2, <2>1 DEF Erase, EraseNext, Base, StoreTypeOK, Goto
  <2> QED  BY <1>1, <2>2 DEF Owes
<1>3. CASE Audit(t)
  <2>1. PICK v \in owed[t] :
          /\ unaudited' = unaudited \ {<<v, on[t]>>}
          /\ IF owed[t] = {v} THEN Respond(t)
             ELSE /\ owed' = Set(owed, t, owed[t] \ {v})
                  /\ UNCHANGED <<rpc, job, by, on, reps, cand, fresh, batch>>
    BY <1>3 DEF Audit
  <2>2. CASE u = v
    BY <1>1, <2>1, <2>2
  <2>3. CASE u # v
    <3>1. UNCHANGED <<rpc, job, on>> /\ owed'[t] = owed[t] \ {v} /\ rpc[t] = "audit"
      BY <1>1, <1>3, <2>1, <2>3, SMTT(30) DEF Audit, Base, StoreTypeOK, Goto, Set
    <3> QED  BY <1>1, <2>3, <3>1 DEF Owes
  <2> QED  BY <2>2, <2>3
<1>4. CASE Answered(t)
  <2>1. EraseNow(t)
    BY <1>1, <1>4 DEF Answered, Hears, UploadHears, DeleteHears, ModerateHears, PurgeHears, Return, IInv,
       TypeOK
  <2>2. UNCHANGED <<job, on, owed>> /\ rpc'[t] = "erase"
    BY <2>1 DEF EraseNow, Base, StoreTypeOK, Goto
  <2> QED  BY <1>1, <2>2 DEF Owes
<1>5. ~(EraseFails(t) \/ AnswerLost(t) \/ Crash(t))
  BY <1>1 DEF EraseFails, AnswerLost, Crash, Fault
<1>6. ~(LedgerStep(t) \/ LedgerAbort(t))
  <2>1. ~(Step(t) \/ Abort(t))
    <3>1. pc[t] \in {"idle", "done"}
      BY <1>1 DEF Shapes, Shape, Base
    <3> QED  BY <3>1, TransactionCases, TransactionMoves DEF PostCommit, DelCommit, Fails
  <2> QED  BY <2>1 DEF LedgerStep, LedgerAbort
<1>7. ~Starts(t)
  BY <1>1 DEF Starts, UploadReuse, UploadStore, UploadStarts, DeleteStarts, ModerateStarts, PurgeStarts,
     Receive
<1>8. ~(Put(t) \/ PutFails(t) \/ Undo(t) \/ UndoBlind(t) \/ Remove(t) \/ PurgeList(t) \/ PurgeNext(t))
  BY <1>1 DEF Put, PutFails, Undo, UndoBlind, Remove, PurgeList, PurgeNext
<1> QED  BY <1>2, <1>3, <1>4, <1>5, <1>6, <1>7, <1>8 DEF Progress, Disturb

\* A row that a moderation has just removed is among those it will record.
LEMMA DebtMade ==
    ASSUME Base, NEW t \in Tx, Starts(t) \/ Progress(t) \/ Disturb(t) \/ UndoBlind(t), Records(t),
           NEW u \in Npub, NEW h \in Hash, <<u, h>> \in unaudited' \ unaudited, h \notin raced
    PROVE  Owes(t, u, h)'
<1>1. LedgerStep(t) \/ LedgerAbort(t)
  BY DEF Starts, UploadReuse, UploadStore, DeleteLookup, PurgeStarts, Progress, Disturb, Put, PutFails, Undo,
     UndoBlind, Remove, PurgeList, PurgeNext, Erase, EraseFails, Audit, Answered, AnswerLost, Hears, Crash
<1>2. /\ Step(t) \/ Abort(t)
      /\ rpc[t] = "call" /\ job[t] = "moderate" /\ <<u, h>> \in blob \ blob'
      /\ UNCHANGED <<job, on, owed>>
  BY <1>1, LedgerFits DEF LedgerStep, LedgerAbort, RowsWritten, reqVars
<1>3. DelCommit(t)
  <2>1. Moves(t) => blob' = blob
    BY TransactionMoves
  <2>2. PostCommit(t) => blob \subseteq blob'
    BY DEF PostCommit
  <2>3. (\E a : Fails(t, a)) => blob' = blob
    BY DEF Fails, Rollback, dbVars
  <2> QED  BY <1>2, <2>1, <2>2, <2>3, TransactionCases
<1>4. pc[t] = "commit" /\ what[t] = on[t] /\ blob' = blob \ (gone[t] \X {what[t]})
  BY <1>3 DEF DelCommit, Shapes, Shape, Base
<1>5. u \in gone[t] /\ h = on[t]
  BY <1>2, <1>4
<1>6. u \in owed[t]
  BY <1>2, <1>5 DEF Records
<1>7. pc'[t] = "done" /\ res'[t] = "ok"
  BY <1>3, TransactionEnds DEF DelCommit
<1> QED  BY <1>2, <1>5, <1>6, <1>7 DEF Owes

LEMMA FaultsKept ==
    ASSUME NEW t \in Tx, Starts(t) \/ Progress(t) \/ Disturb(t) \/ UndoBlind(t)
    PROVE  faulted \subseteq faulted'
BY DEF Starts, UploadReuse, UploadStore, DeleteLookup, PurgeStarts, Progress, Disturb, Put, PutFails, Undo,
   UndoBlind, Remove, PurgeList, PurgeNext, Erase, EraseFails, Audit, Answered, AnswerLost, Crash, LedgerStep,
   LedgerAbort, RowsWritten, Fault, NoFault

LEMMA StepKeepsAuditInv ==
    ASSUME Base, Base', AuditInv, [StoreNext]_vars
    PROVE  AuditInv'
<1>1. CASE (Outside /\ Record({})) \/ UNCHANGED vars
  <2>1. UNCHANGED <<blob, unaudited, faulted, reqVars, txVars>> /\ raced \subseteq raced'
    BY <1>1, OutsideEffect, RecordKeeps DEF vars, storeVars, ledgerVars, dbVars, history
  <2>2. ASSUME NEW s \in Tx
        PROVE  Records(s)'
    <3>1. Records(s)
      BY DEF AuditInv
    <3> QED  BY <2>1, <3>1 DEF reqVars, txVars, Records, Owners
  <2>3. ASSUME NEW s \in Tx, NEW u \in Npub, NEW h \in Hash, Owes(s, u, h)
        PROVE  Owes(s, u, h)'
    BY <2>1, <2>3 DEF reqVars, txVars, Owes
  <2> QED  BY <2>1, <2>2, <2>3 DEF AuditInv
<1>2. ASSUME NEW t \in Tx, NEW B, Record(B), Starts(t) \/ Progress(t) \/ Disturb(t) \/ UndoBlind(t)
      PROVE  AuditInv'
  <2>1. raced \subseteq raced' /\ faulted \subseteq faulted' /\ Elsewhere(t)
    BY <1>2, RecordKeeps, FaultsKept, Frame DEF Base, IInv, Types
  <2>2. Records(t)'
    BY <1>2, <2>1, StartsRecord, ActsRecord DEF AuditInv
  <2>3. ASSUME NEW s \in Tx, s # t
        PROVE  Records(s)'
    <3>1. Same(s) /\ Records(s)
      BY <2>1, <2>3 DEF Elsewhere, AuditInv
    <3> QED  BY <1>2, <2>1, <2>3, <3>1, OthersSee, OthersRecord
  <2>4. ASSUME NEW u \in Npub, NEW h \in Hash, <<u, h>> \in unaudited', h \notin raced' \cup faulted'
        PROVE  \E s \in Tx : Owes(s, u, h)'
    <3>1. CASE <<u, h>> \notin unaudited
      BY <1>2, <2>1, <2>4, <3>1, DebtMade DEF AuditInv
    <3>2. CASE <<u, h>> \in unaudited
      <4>1. PICK s \in Tx : Owes(s, u, h)
        BY <2>1, <2>4, <3>2 DEF AuditInv
      <4>2. CASE s = t
        BY <1>2, <2>4, <4>1, <4>2, DebtKept
      <4>3. CASE s # t
        <5>1. Same(s)
          BY <2>1, <4>3 DEF Elsewhere
        <5> QED  BY <4>1, <5>1 DEF Owes, Same, RequestSame, TransactionSame
      <4> QED  BY <4>2, <4>3
    <3> QED  BY <3>1, <3>2
  <2> QED  BY <2>2, <2>3, <2>4 DEF AuditInv
<1> QED  BY <1>1, <1>2, StoreCases

\* index.ts of the proxy, the moderation delete: every row it removes has been
\* recorded with its owner when no request for the hash is left, unless an
\* upload raced it or a call failed.
THEOREM ModerationsRecorded == StoreSpec => []ModerationAudited
<1>1. StoreInit => AuditInv
  <2> SUFFICES ASSUME StoreInit
               PROVE  AuditInv
    OBVIOUS
  <2>1. unaudited = {} /\ \A t \in Tx : job[t] = NULL
    BY DEF StoreInit
  <2>2. \A t \in Tx : Records(t)
    BY <2>1, StoreAssumption DEF Records
  <2> QED  BY <2>1, <2>2 DEF AuditInv
<1>2. AuditInv => ModerationAudited
  BY SMT DEF AuditInv, Owes, ModerationAudited, Working
<1> QED  BY <1>1, <1>2, AlwaysBase, StepKeepsAuditInv, PTL DEF StoreSpec

-----------------------------------------------------------------------------
(* No bytes without an owner.                                              *)

\* Two requests that work on a hash: the history has it.
LEMMA WorksAlone ==
    ASSUME Recorded, NEW s \in Tx, NEW t \in Tx, s # t, NEW h \in Hash, h \in Working(s), h \in Working(t)
    PROVE  h \in overlapped
BY DEF Recorded, Contended

\* A request touches the rows and the bytes of its own hash only.
LEMMA Untouched ==
    ASSUME Base, NEW t \in Tx, Starts(t) \/ Progress(t) \/ Disturb(t) \/ UndoBlind(t),
           NEW h \in Hash, h # on[t]
    PROVE  /\ Owners(h)' = Owners(h) /\ Held(h)' = Held(h)
           /\ Exact(h) => Exact(h)'
<1>1. CASE LedgerStep(t) \/ LedgerAbort(t)
  <2>1. (Step(t) \/ Abort(t)) /\ UNCHANGED stored
    BY <1>1, LedgerRows DEF LedgerStep, LedgerAbort
  <2>2. ASSUME NEW u \in Npub
        PROVE  <<u, h>> \in blob' <=> <<u, h>> \in blob
    <3>1. <<u, h>> \in blob' => <<u, h>> \in blob
      BY <1>1, LedgerRows
    <3>2. CASE Moves(t) \/ PostCommit(t) \/ \E a : Fails(t, a)
      <4>1. blob \subseteq blob'
        BY <3>2, TransactionMoves DEF PostCommit, Fails, Rollback, dbVars
      <4> QED  BY <3>1, <4>1
    <3>3. CASE DelCommit(t)
      <4>1. blob' = blob \ (gone[t] \X {on[t]})
        BY <3>3 DEF DelCommit, Base, Shapes, Shape
      <4> QED  BY <4>1
    <3> QED  BY <2>1, <3>2, <3>3, TransactionCases
  <2>3. Owners(h)' = Owners(h)
    BY <2>2 DEF Owners
  <2>4. Held(h)' = Held(h)
    BY <2>1 DEF Held
  <2>5. \A u \in Owners(h) : replicas'[<<u, h>>] = replicas[<<u, h>>]
    BY <1>1, <2>2, LedgerRows DEF Owners
  <2> QED  BY <2>3, <2>4, <2>5 DEF Exact
<1>2. CASE ~(LedgerStep(t) \/ LedgerAbort(t))
  <2>1. UNCHANGED <<blob, replicas>> /\ Owners(h)' = Owners(h)
    BY <1>2, RowsStay
  <2>2. UNCHANGED stored \/ \E n : stored' \in {stored \cup {<<n, on[t]>>}, stored \ {<<n, on[t]>>}}
    BY <1>2 DEF Starts, UploadReuse, UploadStore, DeleteLookup, PurgeStarts, Progress, Disturb, Put, PutFails,
       Undo, UndoBlind, Remove, PurgeList, PurgeNext, Erase, EraseFails, Audit, Answered, AnswerLost, Hears,
       Crash
  <2>3. Held(h)' = Held(h)
    BY <2>2 DEF Held
  <2> QED  BY <2>1, <2>3 DEF Exact
<1> QED  BY <1>1, <1>2

\* What the step of t has to leave behind: its hash in order if it lets it go,
\* and what it knows if it does not.
Leaves(t) ==
    \A h \in Hash : h = on[t] /\ Clean(h)' =>
        /\ Exact(h)'
        /\ on'[t] # h /\ Owners(h)' = {} => Held(h)' = {}

Histories == raced \subseteq raced' /\ overlapped \subseteq overlapped' /\ faulted \subseteq faulted'

LEMMA CleanBefore ==
    ASSUME Histories, NEW h, Clean(h)'
    PROVE  Clean(h)
BY DEF Histories, Clean

LEMMA EndedKnows ==
    ASSUME NEW t \in Tx, on'[t] = NULL
    PROVE  Knows(t)'
BY ConstantsAssumption DEF Knows

\* After a failed call nothing is claimed of the hash.
LEMMA FaultLeaves ==
    ASSUME NEW t \in Tx, on[t] \in faulted', on'[t] \in {on[t], NULL}
    PROVE  Leaves(t) /\ Knows(t)'
BY ConstantsAssumption DEF Leaves, Knows, Clean

\* A step that leaves the rows and the bytes alone and keeps the hash, or leaves
\* one that has an owner or no bytes.
LEMMA QuietLeaves ==
    ASSUME Base, OrphanInv, Histories, NEW t \in Tx, UNCHANGED <<blob, replicas, stored>>,
           \A h \in Hash : h = on[t] /\ Clean(h) /\ on'[t] # h => Owners(h) # {} \/ Held(h) = {}
    PROVE  Leaves(t)
<1> SUFFICES ASSUME NEW h \in Hash, h = on[t], Clean(h)'
             PROVE  Exact(h)' /\ (on'[t] # h /\ Owners(h)' = {} => Held(h)' = {})
  BY DEF Leaves
<1>1. Clean(h)
  BY CleanBefore
<1>2. Owners(h)' = Owners(h) /\ Held(h)' = Held(h)
  BY DEF Owners, Held
<1>3. Exact(h)
  BY <1>1 DEF OrphanInv, RowsExact
<1>4. Exact(h)'
  BY <1>2, <1>3 DEF Exact
<1> QED  BY <1>1, <1>2, <1>4

\* The page of a purge, at a step that keeps it or drops it.
LEMMA PageStays ==
    ASSUME Base, NEW t \in Tx, PageFresh(t), Histories,
           Starts(t) \/ Progress(t) \/ Disturb(t) \/ UndoBlind(t),
           \/ batch'[t] = {}
           \/ batch'[t] = batch[t] /\ by'[t] = by[t] /\ on'[t] \in {on[t], NULL}
    PROVE  PageFresh(t)'
<1>1. CASE batch'[t] = {}
  BY <1>1 DEF PageFresh
<1>2. CASE batch'[t] = batch[t] /\ by'[t] = by[t] /\ on'[t] \in {on[t], NULL}
  <2>1. ASSUME NEW b \in batch[t]
        PROVE  b[1] # on'[t] /\ (Clean(b[1])' => by[t] \in Owners(b[1])' /\ b[2] = Held(b[1])')
    <3>1. PICK h \in Hash : h = b[1] /\ h # on[t]
      BY <2>1, SMT DEF Base, StoreTypeOK, PageFresh
    <3>2. Owners(h)' = Owners(h) /\ Held(h)' = Held(h)
      BY <3>1, Untouched
    <3>3. Clean(h)' => by[t] \in Owners(h) /\ b[2] = Held(h)
      BY <3>1, CleanBefore DEF PageFresh
    <3> QED  BY <1>2, <3>1, <3>2, <3>3, ConstantsAssumption
  <2> QED  BY <1>2, <2>1 DEF PageFresh
<1> QED  BY <1>1, <1>2

\* What a purge lists is what the rows say.
LEMMA PageTrue ==
    ASSUME Base, OrphanInv, Histories, NEW t \in Tx, NEW u \in Npub, UNCHANGED <<blob, stored>>,
           batch'[t] = Page(u), by'[t] = u, on'[t] = NULL
    PROVE  PageFresh(t)'
<1>1. ASSUME NEW b \in Page(u)
      PROVE  \E h \in Blobs(u) : b = <<h, replicas[<<u, h>>]>>
  BY DEF Page
<1>2. ASSUME NEW b \in Page(u), NEW c \in Page(u), b[1] = c[1]
      PROVE  b = c
  <2>1. PICK h \in Blobs(u) : b = <<h, replicas[<<u, h>>]>>
    BY <1>1
  <2>2. PICK k \in Blobs(u) : c = <<k, replicas[<<u, k>>]>>
    BY <1>1
  <2> QED  BY <1>2, <2>1, <2>2
<1>3. ASSUME NEW b \in Page(u)
      PROVE  b[1] # NULL /\ (Clean(b[1])' => u \in Owners(b[1])' /\ b[2] = Held(b[1])')
  <2>1. PICK h \in Hash : <<u, h>> \in blob /\ b = <<h, replicas[<<u, h>>]>>
    BY <1>1 DEF Blobs
  <2>2. u \in Owners(h) /\ Owners(h)' = Owners(h) /\ Held(h)' = Held(h)
    BY <2>1 DEF Owners, Held
  <2>3. Clean(h)' => replicas[<<u, h>>] = Held(h)
    BY <2>2, CleanBefore DEF OrphanInv, RowsExact, Exact
  <2> QED  BY <2>1, <2>2, <2>3, ConstantsAssumption
<1> QED  BY <1>2, <1>3, SMT DEF PageFresh

LEMMA StartsLeave ==
    ASSUME Base, OrphanInv, Histories, Recorded', NEW t \in Tx, Starts(t), Elsewhere(t)
    PROVE  Leaves(t) /\ Knows(t)' /\ PageFresh(t)'
<1>1. rpc[t] = "idle" /\ on[t] = NULL /\ batch[t] = {} /\ reps[t] = {} /\ fresh[t] = FALSE
  BY DEF Starts, UploadReuse, UploadStore, UploadStarts, DeleteStarts, ModerateStarts, PurgeStarts, Receive,
     Shapes, Shape, Base
<1>2. UNCHANGED <<blob, replicas, stored>> /\ \A h : Owners(h)' = Owners(h)
  BY DEF Starts, UploadReuse, UploadStore, DeleteLookup, PurgeStarts, PostBegin, ledgerVars, dbVars, Owners
<1>3. \A h : Held(h)' = Held(h)
  BY <1>2 DEF Held
<1>4. Leaves(t)
  BY <1>1, ConstantsAssumption DEF Leaves
<1>5. ASSUME NEW h \in Hash, NEW v \in Owners(h), Clean(h)'
      PROVE  replicas[<<v, h>>] = Held(h)
  BY <1>5, CleanBefore DEF OrphanInv, RowsExact, Exact
<1>6. ASSUME NEW u \in Npub, NEW h \in Hash, UploadReuse(t, u, h)
      PROVE  Knows(t)' /\ batch'[t] = {}
  <2>1. PICK v \in Owners(h) : reps'[t] = replicas[<<v, h>>]
    BY <1>6 DEF UploadReuse, Base, StoreTypeOK, Set
  <2>2. /\ on'[t] = h /\ job'[t] = "upload" /\ rpc'[t] = "call" /\ fresh'[t] = FALSE /\ batch'[t] = {}
        /\ pc'[t] = "lock"
    <3>1. PostBegin(t, u, h) /\ Receive(t, "upload", u, h) /\ Goto(t, "call") /\ UNCHANGED <<fresh, batch>>
      BY <1>6 DEF UploadReuse, UploadStarts
    <3>2. pc'[t] = "lock"
      BY <3>1 DEF PostBegin, IInv, TypeOK, Base
    <3>3. fresh'[t] = FALSE /\ batch'[t] = {}
      BY <1>1, <3>1
    <3>4. on'[t] = h /\ job'[t] = "upload" /\ rpc'[t] = "call"
      BY <3>1 DEF Receive, Base, StoreTypeOK, Set, Goto
    <3> QED  BY <3>2, <3>3, <3>4
  <2>3. Owners(h)' # {} /\ (Clean(h)' => Held(h)' = reps'[t])
    BY <1>2, <1>3, <1>5, <2>1
  <2>4. Clean(h)' => Stands(t, h)'
    BY <2>2, <2>3 DEF Stands, Removal
  <2> QED  BY <2>2, <2>4 DEF Knows
<1>7. ASSUME NEW u \in Npub, NEW h \in Hash, UploadStore(t, u, h)
      PROVE  Knows(t)' /\ batch'[t] = {}
  <2>1. /\ on'[t] = h /\ rpc'[t] = "put" /\ reps'[t] = {} /\ batch'[t] = {} /\ Owners(h) = {}
    BY <1>1, <1>7 DEF UploadStore, UploadStarts, Receive, Base, StoreTypeOK, Set, Goto
  <2>2. ASSUME Clean(h)', NEW s \in Tx
        PROVE  h \notin Working(s)
    <3>1. CASE s = t
      BY <1>1, <3>1, ConstantsAssumption DEF Working
    <3>2. CASE s # t
      <4>1. Working(s)' = Working(s) /\ h \in Working(t)'
        BY <2>1, <3>2 DEF Working, Elsewhere, Same, RequestSame
      <4>2. h \in Working(s)' => h \in overlapped'
        BY <3>2, <4>1 DEF Recorded, Contended
      <4> QED  BY <2>2, <4>1, <4>2 DEF Clean
    <3> QED  BY <3>1, <3>2
  <2>3. Clean(h)' => Held(h) = {}
    BY <2>1, <2>2, CleanBefore DEF OrphanInv, RestEmpty
  <2>4. Clean(h)' => Stands(t, h)'
    BY <1>2, <1>3, <2>1, <2>3 DEF Stands
  <2> QED  BY <2>1, <2>4 DEF Knows
<1>8. ASSUME NEW h \in Hash, NEW S, DeleteLookup(t, h, S), on'[t] = h
      PROVE  Knows(t)' /\ batch'[t] = {}
  <2>1. PICK v \in Owners(h) : reps'[t] = replicas[<<v, h>>]
    BY <1>8 DEF DeleteLookup, Base, StoreTypeOK, Set
  <2>2. rpc'[t] = "remove" /\ batch'[t] = {}
    BY <1>1, <1>8 DEF DeleteLookup, Base, StoreTypeOK, Goto
  <2>3. Owners(h)' # {} /\ (Clean(h)' => Held(h)' = reps'[t])
    BY <1>2, <1>3, <1>5, <2>1
  <2>4. Clean(h)' => Stands(t, h)'
    BY <2>2, <2>3 DEF Stands
  <2> QED  BY <1>8, <2>2, <2>4 DEF Knows
<1>9. ASSUME NEW u \in Npub, PurgeStarts(t, u)
      PROVE  Knows(t)' /\ PageFresh(t)'
  <2>1. on'[t] = NULL /\ by'[t] = u /\ batch'[t] = Page(u)
    BY <1>9 DEF PurgeStarts, Receive, Base, StoreTypeOK, Set
  <2> QED  BY <1>2, <2>1, EndedKnows, PageTrue
<1>10. batch'[t] = {} => PageFresh(t)'
  BY DEF PageFresh
<1>11. \A h \in Hash : ModerateStarts(t, h) \/ (\E u : DeleteStarts(t, u, h)) => on'[t] = h
  BY DEF ModerateStarts, DeleteStarts, Receive, Base, StoreTypeOK, Set
<1> QED  BY <1>4, <1>6, <1>7, <1>8, <1>9, <1>10, <1>11 DEF Starts

LEMMA RespondLeaves ==
    ASSUME Base, NEW t \in Tx, Respond(t)
    PROVE  on'[t] = NULL /\ batch'[t] = {} /\ Knows(t)' /\ PageFresh(t)'
<1>1. on'[t] = NULL /\ batch'[t] = {}
  BY DEF Respond, Set, Base, StoreTypeOK
<1> QED  BY <1>1, EndedKnows DEF PageFresh

\* What an erasure and an answer do to the page of a purge.
LEMMA PurgeOnKeepsPage ==
    ASSUME Base, NEW t \in Tx, PurgeOn(t)
    PROVE  batch'[t] = batch[t] /\ by'[t] = by[t] /\ on'[t] = NULL
BY DEF PurgeOn, Set, Base, StoreTypeOK

LEMMA EraseKeepsPage ==
    ASSUME Base, NEW t \in Tx, \E n : EraseNext(t, n)
    PROVE  \/ Respond(t)
           \/ batch'[t] = batch[t] /\ by'[t] = by[t] /\ on'[t] \in {on[t], NULL}
<1>1. PICK n : EraseNext(t, n)
  OBVIOUS
<1>2. Respond(t) \/ PurgeOn(t) \/ UNCHANGED <<batch, by, on>>
  BY <1>1 DEF EraseNext
<1> QED  BY <1>2, PurgeOnKeepsPage

LEMMA HearsKeepsPage ==
    ASSUME Base, NEW t \in Tx, \E a : Hears(t, a)
    PROVE  \/ Respond(t)
           \/ batch'[t] = batch[t] /\ by'[t] = by[t] /\ on'[t] \in {on[t], NULL}
<1>1. PICK a : Hears(t, a)
  OBVIOUS
<1>2. Respond(t) \/ PurgeOn(t) \/ UNCHANGED <<batch, by, on>>
  BY <1>1 DEF Hears, UploadHears, DeleteHears, ModerateHears, PurgeHears, EraseNow
<1> QED  BY <1>2, PurgeOnKeepsPage

\* The steps in which a call fails.
LEMMA FaultsLeave ==
    ASSUME Base, OrphanInv, Histories, NEW t \in Tx,
           PutFails(t) \/ EraseFails(t) \/ AnswerLost(t) \/ Crash(t) \/ UndoBlind(t)
    PROVE  Leaves(t) /\ Knows(t)' /\ PageFresh(t)'
<1>1. on[t] \in faulted'
  BY DEF PutFails, EraseFails, AnswerLost, Crash, UndoBlind, Fault
<1>2. \/ Respond(t)
      \/ batch'[t] = batch[t] /\ by'[t] = by[t] /\ on'[t] \in {on[t], NULL}
  <2>1. CASE PutFails(t) \/ UndoBlind(t) \/ Crash(t)
    BY <2>1 DEF PutFails, PutNext, UndoBlind, Crash
  <2>2. CASE EraseFails(t)
    BY <2>2, EraseKeepsPage DEF EraseFails
  <2>3. CASE AnswerLost(t)
    BY <2>3, HearsKeepsPage DEF AnswerLost
  <2> QED  BY <2>1, <2>2, <2>3
<1>3. on'[t] \in {on[t], NULL} /\ (batch'[t] = {} \/ (batch'[t] = batch[t] /\ by'[t] = by[t]))
  BY <1>2, RespondLeaves
<1>4. PageFresh(t)
  BY DEF OrphanInv
<1>5. PageFresh(t)'
  BY <1>3, <1>4, PageStays DEF Disturb
<1> QED  BY <1>1, <1>3, <1>5, FaultLeaves

\* What a request knows of its hash, once it is clean after the step.
LEMMA KnownBefore ==
    ASSUME OrphanInv, Histories, NEW t \in Tx, NEW h \in Hash, h = on[t], Clean(h)'
    PROVE  Clean(h) /\ Stands(t, h) /\ Exact(h)
<1>1. Clean(h)
  BY CleanBefore
<1> QED  BY <1>1 DEF OrphanInv, Knows, RowsExact

LEMMA PutLeaves ==
    ASSUME Base, OrphanInv, Histories, NEW t \in Tx, Put(t)
    PROVE  Leaves(t) /\ Knows(t)' /\ PageFresh(t)'
<1>1. rpc[t] = "put" /\ job[t] = "upload" /\ fresh[t] = TRUE /\ on[t] \in Hash /\ pc[t] = "idle"
  BY DEF Put, Shapes, Shape, Base
<1>2. PICK n \in cand[t] : stored' = stored \cup {<<n, on[t]>>} /\ PutNext(t, n, reps[t] \cup {n})
  BY DEF Put
<1>3. /\ on' = on /\ by' = by /\ batch' = batch /\ job' = job /\ fresh' = fresh
      /\ reps'[t] = reps[t] \cup {n}
      /\ (rpc'[t] = "put" \/ (rpc'[t] = "call" /\ PostBegin(t, by[t], on[t])))
  BY <1>1, <1>2 DEF PutNext, Base, StoreTypeOK, Set, Goto
<1>4. rpc'[t] = "call" => pc'[t] = "lock"
  BY <1>1, <1>3 DEF PostBegin, IInv, TypeOK, Base
<1>5. PageFresh(t)'
  BY <1>3, PageStays DEF OrphanInv, Progress
<1>6. ASSUME NEW h \in Hash, h = on[t], Clean(h)'
      PROVE  Exact(h)' /\ Stands(t, h)'
  <2>1. Owners(h) = {} /\ Held(h) = reps[t]
    BY <1>1, <1>6, KnownBefore DEF Stands
  <2>2. Owners(h)' = {}
    BY <2>1, RowsStay DEF Put, Progress, LedgerStep, LedgerAbort, Owners, PutNext, PostBegin, ledgerVars,
       dbVars
  <2>3. Held(h)' = reps[t] \cup {n}
    <3>1. n \in Node
      BY <1>2 DEF Base, StoreTypeOK
    <3> QED  BY <1>2, <1>6, <2>1, <3>1 DEF Held
  <2>4. job'[t] = "upload" /\ fresh'[t] = TRUE
    BY <1>1, <1>3
  <2>5. Stands(t, h)'
    BY <1>3, <1>4, <2>2, <2>3, <2>4 DEF Stands, Removal
  <2> QED  BY <2>2, <2>5 DEF Exact
<1>7. Leaves(t)
  BY <1>3, <1>6 DEF Leaves
<1>8. Knows(t)'
  BY <1>3, <1>6 DEF Knows
<1> QED  BY <1>5, <1>7, <1>8

LEMMA UndoLeaves ==
    ASSUME Base, OrphanInv, Histories, NEW t \in Tx, Undo(t)
    PROVE  Leaves(t) /\ Knows(t)' /\ PageFresh(t)'
<1>1. rpc[t] = "undo" /\ on[t] \in Hash /\ UNCHANGED <<blob, replicas, stored>>
  BY DEF Undo, Shapes, Shape, ledgerVars, dbVars, Base
<1>2. CASE Owners(on[t]) # {}
  <2>1. Respond(t)
    BY <1>2 DEF Undo
  <2> QED  BY <1>1, <1>2, <2>1, RespondLeaves, QuietLeaves
<1>3. CASE Owners(on[t]) = {}
  <2>1. /\ rpc'[t] = "erase" /\ cand'[t] = reps[t] /\ UNCHANGED <<job, by, on, batch>>
    BY <1>3 DEF Undo, Base, StoreTypeOK, Set, Goto
  <2>2. PageFresh(t)'
    BY <2>1, PageStays DEF OrphanInv, Progress
  <2>3. Leaves(t)
    BY <1>1, <2>1, QuietLeaves
  <2>4. ASSUME NEW h \in Hash, on'[t] = h, Clean(h)'
        PROVE  Stands(t, h)'
    <3>1. Owners(h) = {} /\ Held(h) = reps[t]
      BY <1>1, <2>1, <2>4, KnownBefore DEF Stands
    <3>2. Owners(h)' = {} /\ Held(h)' = reps[t]
      BY <1>1, <3>1 DEF Owners, Held
    <3> QED  BY <2>1, <3>2 DEF Stands
  <2> QED  BY <2>2, <2>3, <2>4 DEF Knows
<1> QED  BY <1>2, <1>3

LEMMA RemoveLeaves ==
    ASSUME Base, OrphanInv, Histories, NEW t \in Tx, Remove(t)
    PROVE  Leaves(t) /\ Knows(t)' /\ PageFresh(t)'
<1>1. /\ rpc[t] = "remove" /\ job[t] \in Removal /\ rpc'[t] = "call"
      /\ UNCHANGED <<stored, replicas, job, by, on, reps, batch>>
  BY DEF Remove, Shapes, Shape, Base, StoreTypeOK, Goto
<1>2. PICK g, R : DelFind(t, g, R)
  BY DEF Remove, DelFindAll, DelFindOne
<1>3. UNCHANGED blob /\ (pc'[t] = "row" \/ (pc'[t] = "done" /\ res'[t] = "not_found"))
  <2>1. CASE R = {}
    <3>1. Rollback(t, "not_found")
      BY <1>2, <2>1 DEF DelFind
    <3> QED  BY <3>1, TransactionEnds DEF Rollback, dbVars
  <2>2. CASE R # {}
    BY <1>2, <2>2 DEF DelFind, dbVars, IInv, TypeOK, Base
  <2> QED  BY <2>1, <2>2
<1>4. PageFresh(t)'
  BY <1>1, PageStays DEF OrphanInv, Progress
<1>5. Leaves(t)
  BY <1>1, <1>3, QuietLeaves
<1>6. ASSUME NEW h \in Hash, on'[t] = h, Clean(h)'
      PROVE  Stands(t, h)'
  <2>1. Owners(h) # {} /\ Held(h) = reps[t]
    BY <1>1, <1>6, KnownBefore DEF Stands
  <2>2. Owners(h)' # {} /\ Held(h)' = reps[t]
    BY <1>1, <1>3, <2>1 DEF Owners, Held
  <2> QED  BY <1>1, <1>3, <2>2 DEF Stands, Removal
<1> QED  BY <1>4, <1>5, <1>6 DEF Knows

LEMMA PurgeListLeaves ==
    ASSUME Base, OrphanInv, Histories, NEW t \in Tx, PurgeList(t)
    PROVE  Leaves(t) /\ Knows(t)' /\ PageFresh(t)'
<1>1. on[t] = NULL /\ by[t] \in Npub /\ UNCHANGED <<blob, replicas, stored>>
  BY DEF PurgeList, Shapes, Shape, ledgerVars, dbVars, Base
<1>2. Leaves(t)
  BY <1>1, ConstantsAssumption DEF Leaves
<1>3. CASE Page(by[t]) = {}
  <2>1. Respond(t)
    BY <1>3 DEF PurgeList
  <2> QED  BY <1>2, <2>1, RespondLeaves
<1>4. CASE Page(by[t]) # {}
  <2>1. PICK u \in Npub : u = by[t]
    BY <1>1
  <2>2. on'[t] = NULL /\ by'[t] = u /\ batch'[t] = Page(u)
    BY <1>1, <1>4, <2>1 DEF PurgeList, Base, StoreTypeOK, Set
  <2> QED  BY <1>1, <1>2, <2>2, EndedKnows, PageTrue
<1> QED  BY <1>3, <1>4

LEMMA PurgeNextLeaves ==
    ASSUME Base, OrphanInv, Histories, NEW t \in Tx, PurgeNext(t)
    PROVE  Leaves(t) /\ Knows(t)' /\ PageFresh(t)'
<1>1. on[t] = NULL /\ UNCHANGED <<blob, replicas, stored, by>> /\ rpc'[t] = "remove"
  BY DEF PurgeNext, Shapes, Shape, ledgerVars, dbVars, Base, StoreTypeOK, Goto
<1>2. PICK b \in batch[t] : on'[t] = b[1] /\ reps'[t] = b[2] /\ batch'[t] = batch[t] \ {b}
  BY DEF PurgeNext, Base, StoreTypeOK, Set
<1>3. PageFresh(t)
  BY DEF OrphanInv
<1>4. Leaves(t)
  BY <1>1, ConstantsAssumption DEF Leaves
<1>5. ASSUME NEW c \in batch[t], NEW h \in Hash, c[1] = h, Clean(h)'
      PROVE  by[t] \in Owners(h)' /\ c[2] = Held(h)'
  <2>1. by[t] \in Owners(h) /\ c[2] = Held(h)
    BY <1>3, <1>5, CleanBefore DEF PageFresh
  <2> QED  BY <1>1, <2>1 DEF Owners, Held
<1>6. Knows(t)'
  <2> SUFFICES ASSUME NEW h \in Hash, on'[t] = h, Clean(h)'
               PROVE  Stands(t, h)'
    BY DEF Knows
  <2>1. Owners(h)' # {} /\ Held(h)' = reps'[t]
    BY <1>2, <1>5
  <2> QED  BY <1>1, <2>1 DEF Stands
<1>7. PageFresh(t)'
  <2>1. ASSUME NEW c \in batch[t] \ {b}
        PROVE  c[1] # on'[t] /\ (Clean(c[1])' => by[t] \in Owners(c[1])' /\ c[2] = Held(c[1])')
    <3>1. PICK h \in Hash : h = c[1]
      BY <2>1, SMT DEF Base, StoreTypeOK
    <3>2. c[1] # b[1]
      BY <1>3, <2>1 DEF PageFresh
    <3> QED  BY <1>2, <1>5, <3>1, <3>2
  <2> QED  BY <1>1, <1>2, <1>3, <2>1 DEF PageFresh
<1> QED  BY <1>4, <1>6, <1>7

LEMMA EraseLeaves ==
    ASSUME Base, OrphanInv, Histories, NEW t \in Tx, Erase(t)
    PROVE  Leaves(t) /\ Knows(t)' /\ PageFresh(t)'
<1>1. rpc[t] = "erase" /\ on[t] \in Hash /\ UNCHANGED <<blob, replicas>>
  BY DEF Erase, Shapes, Shape, ledgerVars, dbVars, Base
<1>2. PICK n \in cand[t] : stored' = stored \ {<<n, on[t]>>} /\ EraseNext(t, n)
  BY DEF Erase
<1>3. PageFresh(t)'
  BY <1>2, EraseKeepsPage, RespondLeaves, PageStays DEF OrphanInv, Progress
<1>4. ASSUME NEW h \in Hash, h = on[t], Clean(h)'
      PROVE  Owners(h)' = {} /\ Held(h)' \subseteq cand[t] \ {n}
  <2>1. Owners(h) = {} /\ Held(h) \subseteq cand[t]
    BY <1>1, <1>4, KnownBefore DEF Stands
  <2>2. Held(h)' = Held(h) \ {n}
    BY <1>2, <1>4 DEF Held
  <2>3. Owners(h)' = Owners(h)
    BY <1>1 DEF Owners
  <2> QED  BY <2>1, <2>2, <2>3
<1>5. CASE cand[t] # {n}
  <2>1. UNCHANGED <<rpc, on>> /\ cand'[t] = cand[t] \ {n}
    BY <1>2, <1>5 DEF EraseNext, Base, StoreTypeOK, Set
  <2>2. Leaves(t)
    BY <1>4, <2>1 DEF Leaves, Exact
  <2>3. ASSUME NEW h \in Hash, on'[t] = h, Clean(h)'
        PROVE  Stands(t, h)'
    BY <1>1, <1>4, <2>1, <2>3 DEF Stands
  <2> QED  BY <1>3, <2>2, <2>3 DEF Knows
<1>6. CASE cand[t] = {n}
  <2>1. ASSUME NEW h \in Hash, h = on[t], Clean(h)'
        PROVE  Owners(h)' = {} /\ Held(h)' = {}
    BY <1>4, <1>6, <2>1
  <2>2. Leaves(t)
    BY <2>1 DEF Leaves, Exact
  <2>3. on'[t] = NULL \/ (on'[t] = on[t] /\ rpc'[t] = "audit")
    <3>1. Respond(t) \/ PurgeOn(t) \/ (UNCHANGED on /\ rpc'[t] = "audit")
      BY <1>2, <1>6 DEF EraseNext, Base, StoreTypeOK, Goto
    <3> QED  BY <3>1, RespondLeaves, PurgeOnKeepsPage
  <2>4. ASSUME NEW h \in Hash, on'[t] = h, Clean(h)'
        PROVE  Stands(t, h)'
    <3>1. on[t] = h /\ rpc'[t] = "audit"
      BY <2>3, <2>4, ConstantsAssumption
    <3> QED  BY <2>1, <2>4, <3>1 DEF Stands
  <2> QED  BY <1>3, <2>2, <2>4 DEF Knows
<1> QED  BY <1>5, <1>6

LEMMA AuditLeaves ==
    ASSUME Base, OrphanInv, Histories, NEW t \in Tx, Audit(t)
    PROVE  Leaves(t) /\ Knows(t)' /\ PageFresh(t)'
<1>1. rpc[t] = "audit" /\ UNCHANGED <<blob, replicas, stored>>
  BY DEF Audit, ledgerVars, dbVars
<1>2. \A h \in Hash : h = on[t] /\ Clean(h) => Owners(h) = {} /\ Held(h) = {}
  BY <1>1 DEF OrphanInv, Knows, Stands
<1>3. Leaves(t)
  BY <1>1, <1>2, QuietLeaves
<1>4. CASE Respond(t)
  BY <1>3, <1>4, RespondLeaves
<1>5. CASE UNCHANGED <<rpc, by, on, batch>>
  <2>1. PageFresh(t)'
    BY <1>5, PageStays DEF OrphanInv, Progress
  <2>2. ASSUME NEW h \in Hash, on'[t] = h, Clean(h)'
        PROVE  Stands(t, h)'
    <3>1. Owners(h) = {} /\ Held(h) = {}
      BY <1>2, <1>5, <2>2, CleanBefore
    <3>2. Owners(h)' = {} /\ Held(h)' = {}
      BY <1>1, <3>1 DEF Owners, Held
    <3> QED  BY <1>1, <1>5, <3>2 DEF Stands
  <2> QED  BY <1>3, <2>1, <2>2 DEF Knows
<1> QED  BY <1>4, <1>5 DEF Audit

\* The answer of the ledger: a request that erases has no owner left, one that
\* does not leaves an owner behind.
LEMMA AnsweredLeaves ==
    ASSUME Base, SurviveInv, OrphanInv, Histories, NEW t \in Tx, Answered(t)
    PROVE  Leaves(t) /\ Knows(t)' /\ PageFresh(t)'
<1>1. rpc[t] = "call" /\ pc[t] = "done" /\ Hears(t, res[t]) /\ UNCHANGED <<blob, replicas, stored>>
  BY DEF Answered, Hears, Return, dbVars
<1>2. job[t] \in Removal \cup {"upload"} /\ on[t] \in Hash
  BY <1>1 DEF Shapes, Shape, Base
<1>3. PageFresh(t)'
  BY <1>1, HearsKeepsPage, RespondLeaves, PageStays DEF OrphanInv, Progress
<1>4. \A h : Owners(h)' = Owners(h) /\ Held(h)' = Held(h)
  BY <1>1 DEF Owners, Held
<1>5. fresh[t] \in BOOLEAN
  BY DEF Base, StoreTypeOK
<1>6. ASSUME NEW h \in Hash, h = on[t], Clean(h)
      PROVE  /\ Held(h) = reps[t]
             /\ job[t] = "upload" =>
                  IF fresh[t] = TRUE /\ res[t] \notin {"ok", "already_exists"} THEN Owners(h) = {} ELSE Owners(h) # {}
             /\ job[t] \in Removal =>
                  IF res[t] = "ok" /\ (left[t] = 0 \/ job[t] = "moderate") THEN Owners(h) = {} ELSE Owners(h) # {}
  <2>1. Stands(t, h)
    BY <1>6 DEF OrphanInv, Knows
  <2>2. h \notin raced /\ Relies(t)
    BY <1>6 DEF Clean, SurviveInv
  <2>3. Held(h) = reps[t]
    BY <1>1, <1>2, <2>1 DEF Stands
  <2>4. CASE job[t] = "upload"
    BY <1>1, <1>5, <2>1, <2>3, <2>4 DEF Stands, Removal
  <2>5. CASE job[t] \in Removal
    <3>1. res[t] = "ok" /\ (left[t] = 0 \/ job[t] = "moderate") => Owners(h) = {}
      BY <1>1, <1>6, <2>2, <2>5 DEF Relies
    <3>2. res[t] # "ok" => Owners(h) # {}
      BY <1>1, <2>1, <2>5 DEF Stands
    <3>3. res[t] = "ok" /\ left[t] # 0 => Owners(h) # {}
      BY <1>1, <2>1, <2>5 DEF Stands
    <3> QED  BY <2>3, <2>5, <3>1, <3>2, <3>3 DEF Removal
  <2> QED  BY <1>2, <2>4, <2>5
<1>7. CASE job[t] = "upload"
  <2>1. UploadHears(t, res[t])
    BY <1>1, <1>7 DEF Hears, DeleteHears, ModerateHears, PurgeHears
  <2>2. CASE fresh[t] = TRUE /\ res[t] \notin {"ok", "already_exists"}
    <3>1. rpc'[t] = "undo" /\ UNCHANGED <<on, reps>>
      BY <2>1, <2>2 DEF UploadHears, Base, StoreTypeOK, Goto
    <3>2. ASSUME NEW h \in Hash, on'[t] = h, Clean(h)'
          PROVE  Stands(t, h)'
      <4>1. Owners(h)' = {} /\ Held(h)' = reps'[t]
        BY <1>4, <1>6, <1>7, <2>2, <3>1, <3>2, CleanBefore
      <4> QED  BY <3>1, <4>1 DEF Stands
    <3> QED  BY <1>1, <1>3, <3>1, <3>2, QuietLeaves DEF Knows
  <2>3. CASE ~(fresh[t] = TRUE /\ res[t] \notin {"ok", "already_exists"})
    <3>1. Respond(t)
      BY <1>5, <2>1, <2>3 DEF UploadHears
    <3>2. Leaves(t)
      BY <1>1, <1>6, <1>7, <2>3, QuietLeaves
    <3> QED  BY <1>3, <3>1, <3>2, RespondLeaves
  <2> QED  BY <2>2, <2>3
<1>8. CASE job[t] \in Removal
  <2>1. DeleteHears(t, res[t]) \/ ModerateHears(t, res[t]) \/ PurgeHears(t, res[t])
    BY <1>1, <1>8 DEF Hears, UploadHears, Removal
  <2>2. CASE res[t] = "ok" /\ (left[t] = 0 \/ job[t] = "moderate")
    <3>1. EraseNow(t)
      BY <2>1, <2>2 DEF DeleteHears, ModerateHears, PurgeHears
    <3>2. rpc'[t] = "erase" /\ cand'[t] = reps[t] /\ UNCHANGED on
      BY <3>1 DEF EraseNow, Base, StoreTypeOK, Set, Goto
    <3>3. ASSUME NEW h \in Hash, on'[t] = h, Clean(h)'
          PROVE  Stands(t, h)'
      <4>1. Owners(h)' = {} /\ Held(h)' = cand'[t]
        BY <1>4, <1>6, <1>8, <2>2, <3>2, <3>3, CleanBefore
      <4> QED  BY <3>2, <4>1 DEF Stands
    <3> QED  BY <1>1, <1>3, <3>2, <3>3, QuietLeaves DEF Knows
  <2>3. CASE ~(res[t] = "ok" /\ (left[t] = 0 \/ job[t] = "moderate"))
    <3>1. Respond(t) \/ PurgeOn(t)
      BY <2>1, <2>3 DEF DeleteHears, ModerateHears, PurgeHears
    <3>2. on'[t] = NULL
      BY <3>1, RespondLeaves, PurgeOnKeepsPage
    <3>3. Leaves(t)
      BY <1>1, <1>6, <1>8, <2>3, QuietLeaves
    <3> QED  BY <1>3, <3>2, <3>3, EndedKnows
  <2> QED  BY <2>2, <2>3
<1> QED  BY <1>2, <1>7, <1>8

\* A transaction: an upload's row names the nodes that have the bytes, and a
\* delete's count is the number of owners it leaves behind.
LEMMA LedgerLeaves ==
    ASSUME Base, OrphanInv, Histories, NEW t \in Tx, LedgerStep(t) \/ LedgerAbort(t)
    PROVE  Leaves(t) /\ Knows(t)' /\ PageFresh(t)'
<1>1. /\ Step(t) \/ Abort(t)
      /\ rpc[t] = "call" /\ UNCHANGED <<stored, rpc, job, by, on, reps, fresh, batch>>
  BY LedgerFits DEF LedgerStep, LedgerAbort, RowsWritten, reqVars
<1>2. PageFresh(t)'
  BY <1>1, PageStays DEF OrphanInv, Progress, Disturb
<1>3. fresh[t] \in BOOLEAN /\ on[t] \in Hash /\ job[t] \in Removal \cup {"upload"}
  BY <1>1 DEF StoreTypeOK, Shapes, Shape, Base
<1>4. ASSUME NEW h \in Hash, h = on[t], Clean(h)'
      PROVE  Exact(h)' /\ Stands(t, h)'
  <2>1. Stands(t, h) /\ Exact(h) /\ Held(h) = reps[t]
    BY <1>1, <1>3, <1>4, KnownBefore DEF Stands
  <2>2. Held(h)' = Held(h)
    BY <1>1 DEF Held
  <2>3. Exact(h)'
    <3> SUFFICES ASSUME NEW u \in Npub, <<u, h>> \in blob'
                 PROVE  replicas'[<<u, h>>] = Held(h)
      BY <2>2 DEF Exact, Owners
    <3>1. CASE <<u, h>> \in blob
      BY <2>1, <3>1, LedgerRows DEF Exact, Owners
    <3>2. CASE <<u, h>> \notin blob
      BY <2>1, <3>2, LedgerRows
    <3> QED  BY <3>1, <3>2
  <2>4. CASE Moves(t)
    <3>1. Owners(h)' = Owners(h) /\ pc[t] # "done" /\ pc'[t] # "done" /\ pc[t] # "commit" /\ what[t] = h
      BY <1>4, <2>4, TransactionMoves DEF Owners, Shapes, Shape, Base
    <3>2. pc'[t] = "commit" => left'[t] = Cardinality(Owners(h) \ gone[t]) /\ gone'[t] = gone[t]
      BY <2>4, <3>1, TransactionMoves
    <3>3. CASE job[t] = "upload"
      <4>1. fresh[t] = TRUE => Owners(h)' = {}
        BY <1>1, <2>1, <3>1, <3>3 DEF Stands
      <4>2. fresh[t] = FALSE => Owners(h)' # {}
        BY <1>1, <2>1, <3>1, <3>3 DEF Stands
      <4> QED  BY <1>1, <2>1, <2>2, <2>3, <3>1, <3>3, <4>1, <4>2 DEF Stands, Removal
    <3>4. CASE job[t] \in Removal
      <4>1. Owners(h)' # {}
        BY <1>1, <2>1, <3>1, <3>4 DEF Stands
      <4>2. pc'[t] = "commit" => left'[t] = Cardinality(Owners(h)' \ gone'[t])
        BY <3>1, <3>2
      <4>3. rpc'[t] = "call" /\ job'[t] \in Removal /\ job'[t] # "upload" /\ Held(h)' = reps'[t]
        BY <1>1, <2>1, <2>2, <3>4 DEF Removal
      <4> QED  BY <2>3, <3>1, <4>1, <4>2, <4>3 DEF Stands
    <3> QED  BY <1>3, <3>3, <3>4
  <2>5. CASE PostCommit(t)
    <3>1. /\ pc[t] = "insert" /\ who[t] \in Npub /\ what[t] = h /\ job[t] = "upload"
          /\ blob' = blob \cup {<<who[t], what[t]>>}
      BY <1>1, <1>3, <1>4, <2>5 DEF PostCommit, Shapes, Shape, IInv, Isolation, Isolated, Base
    <3>2. Owners(h)' # {}
      BY <3>1 DEF Owners
    <3>3. pc'[t] = "done" /\ res'[t] = "ok"
      BY <2>5, TransactionEnds DEF PostCommit
    <3>4. Stands(t, h)'
      BY <1>1, <2>1, <2>2, <3>1, <3>2, <3>3 DEF Stands, Removal
    <3> QED  BY <2>3, <3>4
  <2>6. CASE DelCommit(t)
    <3>1. pc[t] = "commit" /\ what[t] = h /\ job[t] \in Removal /\ blob' = blob \ (gone[t] \X {what[t]})
      BY <1>1, <1>3, <1>4, <2>6 DEF DelCommit, Shapes, Shape, Base
    <3>2. Owners(h)' = Owners(h) \ gone[t]
      BY <3>1 DEF Owners
    <3>3. pc'[t] = "done" /\ res'[t] = "ok" /\ left'[t] = left[t]
      BY <2>6, TransactionEnds DEF DelCommit
    <3>4. left[t] = Cardinality(Owners(h) \ gone[t])
      BY <1>1, <2>1, <3>1 DEF Stands
    <3>5. Cardinality(Owners(h) \ gone[t]) = 0 <=> Owners(h) \ gone[t] = {}
      <4>1. Owners(h) \ gone[t] \in SUBSET Npub
        BY DEF Owners
      <4> QED  BY <4>1, NothingLeft
    <3>6. left'[t] # 0 => Owners(h)' # {}
      BY <3>2, <3>3, <3>4, <3>5
    <3>7. Stands(t, h)'
      BY <1>1, <2>1, <2>2, <3>1, <3>3, <3>6 DEF Stands, Removal
    <3> QED  BY <2>3, <3>7
  <2>7. ASSUME NEW a, Fails(t, a)
        PROVE  Exact(h)' /\ Stands(t, h)'
    <3>1. Owners(h)' = Owners(h) /\ pc[t] # "done"
      BY <2>7 DEF Fails, Rollback, dbVars, Owners
    <3>2. pc'[t] = "done" /\ res'[t] = a /\ a # "ok"
      BY <2>7, TransactionEnds DEF Fails, Rollback
    <3>3. a = "already_exists" => Owners(h) # {}
      <4>1. a = "already_exists" => <<who[t], what[t]>> \in blob /\ who[t] \in Npub /\ what[t] = h
        BY <1>4, <2>7 DEF Fails, Shapes, Shape, IInv, Isolation, Isolated, Base
      <4> QED  BY <4>1 DEF Owners
    <3>4. CASE job[t] = "upload"
      <4>1. fresh[t] = TRUE => Owners(h)' = {} /\ a # "already_exists"
        BY <1>1, <2>1, <3>1, <3>3, <3>4 DEF Stands
      <4>2. fresh[t] = FALSE => Owners(h)' # {}
        BY <1>1, <2>1, <3>1, <3>4 DEF Stands
      <4> QED  BY <1>1, <2>1, <2>2, <2>3, <3>2, <3>4, <4>1, <4>2 DEF Stands, Removal
    <3>5. CASE job[t] \in Removal
      <4>1. Owners(h)' # {}
        BY <1>1, <2>1, <3>1, <3>5 DEF Stands
      <4> QED  BY <1>1, <2>1, <2>2, <2>3, <3>2, <3>5, <4>1 DEF Stands, Removal
    <3> QED  BY <1>3, <3>4, <3>5
  <2> QED  BY <1>1, <2>4, <2>5, <2>6, <2>7, TransactionCases
<1>5. Leaves(t)
  BY <1>1, <1>4 DEF Leaves
<1>6. Knows(t)'
  BY <1>1, <1>4 DEF Knows
<1> QED  BY <1>2, <1>5, <1>6

LEMMA OthersKnow ==
    ASSUME Base, OrphanInv, Histories, NEW t \in Tx, Starts(t) \/ Progress(t) \/ Disturb(t) \/ UndoBlind(t),
           NEW s \in Tx, s # t, Same(s)
    PROVE  Knows(s)' /\ PageFresh(s)'
<1>1. /\ rpc'[s] = rpc[s] /\ job'[s] = job[s] /\ by'[s] = by[s] /\ on'[s] = on[s] /\ reps'[s] = reps[s]
      /\ cand'[s] = cand[s] /\ fresh'[s] = fresh[s] /\ batch'[s] = batch[s]
      /\ pc'[s] = pc[s] /\ gone'[s] = gone[s] /\ left'[s] = left[s] /\ res'[s] = res[s]
  BY DEF Same, RequestSame, TransactionSame
<1>2. ASSUME NEW h \in Hash, h \in Working(s), Clean(h)'
      PROVE  Owners(h)' = Owners(h) /\ Held(h)' = Held(h) /\ Clean(h)
  <2>1. Clean(h)
    BY <1>2, CleanBefore
  <2>2. h # on[t]
    BY <1>2, <2>1, WorksAlone DEF Working, Clean, Base
  <2> QED  BY <2>1, <2>2, Untouched
<1>3. Knows(s)'
  <2> SUFFICES ASSUME NEW h \in Hash, on'[s] = h, Clean(h)'
               PROVE  Stands(s, h)'
    BY DEF Knows
  <2>1. Owners(h)' = Owners(h) /\ Held(h)' = Held(h) /\ Clean(h)
    BY <1>1, <1>2 DEF Working
  <2>2. Stands(s, h)
    BY <1>1, <2>1 DEF OrphanInv, Knows
  <2> QED  BY <1>1, <2>1, <2>2 DEF Stands
<1>4. PageFresh(s)'
  <2>1. PageFresh(s)
    BY DEF OrphanInv
  <2>2. ASSUME NEW b \in batch[s], Clean(b[1])'
        PROVE  by[s] \in Owners(b[1])' /\ b[2] = Held(b[1])'
    <3>1. PICK h \in Hash : h = b[1]
      BY <2>2, SMT DEF Base, StoreTypeOK
    <3>2. Owners(h)' = Owners(h) /\ Held(h)' = Held(h) /\ Clean(h)
      BY <1>2, <2>2, <3>1 DEF Working
    <3> QED  BY <2>1, <3>1, <3>2 DEF PageFresh
  <2> QED  BY <1>1, <2>1, <2>2 DEF PageFresh
<1> QED  BY <1>3, <1>4

\* Each action of a request leaves its hash in order.
LEMMA ActionsLeave ==
    ASSUME Base, SurviveInv, OrphanInv, Histories, Recorded', NEW t \in Tx, Elsewhere(t),
           Starts(t) \/ Progress(t) \/ Disturb(t) \/ UndoBlind(t)
    PROVE  Leaves(t) /\ Knows(t)' /\ PageFresh(t)'
<1>1. CASE Starts(t)
  BY <1>1, StartsLeave
<1>2. CASE Progress(t)
  BY <1>2, PutLeaves, UndoLeaves, RemoveLeaves, PurgeListLeaves, PurgeNextLeaves, EraseLeaves, AuditLeaves,
     AnsweredLeaves, LedgerLeaves DEF Progress
<1>3. CASE Disturb(t) \/ UndoBlind(t)
  BY <1>3, FaultsLeave, LedgerLeaves DEF Disturb
<1> QED  BY <1>1, <1>2, <1>3

LEMMA StepKeepsOrphanInv ==
    ASSUME Base, SurviveInv, OrphanInv, [StoreNext]_vars
    PROVE  OrphanInv'
<1>1. CASE (Outside /\ Record({})) \/ UNCHANGED vars
  <2>1. /\ UNCHANGED <<blob, stored, replicas, reqVars, txVars>>
        /\ Histories
    BY <1>1, OutsideEffect, RecordKeeps DEF vars, storeVars, ledgerVars, dbVars, history, Histories
  <2>2. \A h : Owners(h)' = Owners(h) /\ Held(h)' = Held(h) /\ (Clean(h)' => Clean(h))
    BY <2>1, CleanBefore DEF Owners, Held
  <2>3. RowsExact'
    BY <2>1, <2>2 DEF OrphanInv, RowsExact, Exact
  <2>4. \A s \in Tx : Working(s)' = Working(s)
    BY <2>1 DEF reqVars, Working
  <2>5. RestEmpty'
    BY <2>2, <2>4 DEF OrphanInv, RestEmpty
  <2>6. ASSUME NEW s \in Tx
        PROVE  Knows(s)' /\ PageFresh(s)'
    <3>1. Knows(s)'
      <4> SUFFICES ASSUME NEW h \in Hash, on'[s] = h, Clean(h)'
                   PROVE  Stands(s, h)'
        BY DEF Knows
      <4>1. Stands(s, h)
        BY <2>1, <2>2 DEF reqVars, OrphanInv, Knows
      <4> QED  BY <2>1, <2>2, <4>1 DEF reqVars, txVars, Stands
    <3>2. ASSUME NEW b \in batch[s], Clean(b[1])'
          PROVE  by[s] \in Owners(b[1])' /\ b[2] = Held(b[1])'
      <4>1. PICK h \in Hash : h = b[1]
        BY <3>2, SMT DEF Base, StoreTypeOK
      <4> QED  BY <2>2, <3>2, <4>1 DEF OrphanInv, PageFresh
    <3> QED  BY <2>1, <3>1, <3>2 DEF reqVars, OrphanInv, PageFresh
  <2> QED  BY <2>3, <2>5, <2>6 DEF OrphanInv
<1>2. ASSUME NEW t \in Tx, NEW B, Record(B), Starts(t) \/ Progress(t) \/ Disturb(t) \/ UndoBlind(t)
      PROVE  OrphanInv'
  <2>1. Histories /\ Elsewhere(t)
    BY <1>2, RecordKeeps, FaultsKept, Frame DEF Base, IInv, Types, Histories
  <2>r. Recorded'
    BY StepKeepsBase DEF Base
  <2>2. Leaves(t) /\ Knows(t)' /\ PageFresh(t)'
    BY <1>2, <2>1, <2>r, ActionsLeave
  <2>3. ASSUME NEW s \in Tx, s # t
        PROVE  Knows(s)' /\ PageFresh(s)'
    BY <1>2, <2>1, <2>3, OthersKnow DEF Elsewhere
  <2>4. RowsExact'
    <3> SUFFICES ASSUME NEW h \in Hash, Clean(h)'
                 PROVE  Exact(h)'
      BY DEF RowsExact
    <3>1. CASE h = on[t]
      BY <2>2, <3>1 DEF Leaves
    <3>2. CASE h # on[t]
      BY <1>2, <2>1, <3>2, CleanBefore, Untouched DEF OrphanInv, RowsExact
    <3> QED  BY <3>1, <3>2
  <2>5. RestEmpty'
    <3> SUFFICES ASSUME NEW h \in Hash, Clean(h)', Owners(h)' = {}, \A s \in Tx : h \notin Working(s)'
                 PROVE  Held(h)' = {}
      BY DEF RestEmpty
    <3>1. CASE h = on[t]
      BY <2>2, <3>1 DEF Leaves, Working
    <3>2. CASE h # on[t]
      <4>1. Owners(h) = {} /\ Held(h)' = Held(h) /\ Clean(h)
        BY <1>2, <2>1, <3>2, CleanBefore, Untouched
      <4>2. ASSUME NEW b \in batch[t]
            PROVE  b[1] # h
        BY <4>1 DEF OrphanInv, PageFresh
      <4>3. h \notin Working(t)
        BY <3>2, <4>2 DEF Working
      <4>4. ASSUME NEW s \in Tx, s # t
            PROVE  h \notin Working(s)
        <5>1. Working(s)' = Working(s)
          BY <2>1, <4>4 DEF Working, Elsewhere, Same, RequestSame
        <5> QED  BY <5>1
      <4>5. Held(h) = {}
        BY <4>1, <4>3, <4>4 DEF OrphanInv, RestEmpty
      <4> QED  BY <4>1, <4>5
    <3> QED  BY <3>1, <3>2
  <2> QED  BY <2>2, <2>3, <2>4, <2>5 DEF OrphanInv
<1> QED  BY <1>1, <1>2, StoreCases

\* index.ts and servers.ts of the proxy: bytes without an owner do not stay on
\* a node once no request works on them, unless requests for the hash
\* overlapped or a call failed.
THEOREM NoBytesLeftBehind == StoreSpec => []NoOrphans
<1>1. StoreInit => OrphanInv
  <2> SUFFICES ASSUME StoreInit
               PROVE  OrphanInv
    OBVIOUS
  <2>1. /\ stored = {} /\ blob = {}
        /\ \A t \in Tx : on[t] = NULL /\ batch[t] = {}
    BY DEF StoreInit, Init
  <2>2. RowsExact /\ RestEmpty
    BY <2>1 DEF RowsExact, RestEmpty, Exact, Owners, Held
  <2>3. \A t \in Tx : Knows(t) /\ PageFresh(t)
    BY <2>1, ConstantsAssumption DEF Knows, PageFresh
  <2> QED  BY <2>2, <2>3 DEF OrphanInv
<1>2. StoreInit => SurviveInv
  BY StartsSurvive
<1>3. OrphanInv => NoOrphans
  BY DEF OrphanInv, RestEmpty, NoOrphans, Clean, Held
<1> QED  BY <1>1, <1>2, <1>3, AlwaysBase, StepKeepsSurviveInv, StepKeepsOrphanInv, PTL DEF StoreSpec

=============================================================================
