-------------------------- MODULE StorageNodeProofs --------------------------
(***************************************************************************)
(* The storage node, for any number of accounts, contents, types, request  *)
(* slots and workers, whichever operations are used and steps may fail.    *)
(* A handler is described by the step it is at: what its locals are, which *)
(* temporary files it may hold, and what is true of its hash unless        *)
(* another handler worked on that hash at the same time.                   *)
(***************************************************************************)
EXTENDS StorageNode, FiniteSetTheorems, TLAPS

\* Leaves that name no prover are for Zenon.
USE Zenon

Op == {"none", "upload", "mirror", "media", "delete", "admin", "user", "prune", "read"}
Label == {"idle", "dedup", "found", "adopt", "begin", "dispatch", "await", "hashed", "commit", "insert",
          "deriv", "mapped", "optimize", "rehash", "hasopt", "getopt", "link", "own", "newthumb", "map", "thumb",
          "check", "disown", "count", "drop", "unlink", "sweep", "loop", "serve"}
Handler ==
    [op : Op, at : Label, who : Pubkey \cup {Absent}, h : Hash \cup {Absent}, ty : Type \cup {Absent},
     dec : BOOLEAN, cut : BOOLEAN, todo : SUBSET (Hash \X Type), old : SUBSET (Hash \X Type)]
Role == {"in", "out", "thumb", "partial"}

Rows ==
    /\ row \in [Hash -> Type \cup {Absent}]
    /\ owners \in SUBSET (Hash \X Pubkey) /\ fresh \in SUBSET Hash
    /\ thumbs \in SUBSET (Hash \X Hash)
    /\ file \in SUBSET (Hash \X Type) /\ sent \in SUBSET (Hash \X Type)
TypeOK ==
    /\ Rows /\ tmp \in SUBSET (Req \X Role)
    /\ count \in [Worker -> Int] /\ job \in [Req -> Worker \cup {Absent}]
    /\ req \in [Req -> Handler] /\ erred \in SUBSET Worker

\* A type under which hash h was committed: S is what was committed of the
\* contents that clients send; the optimizer's outputs have one type.
Known(h, ty, S) == IF h[1] = "in" THEN <<h, ty>> \in S ELSE ty = OptMime

\* What the tables and the disk hold, whatever happened.
Tables ==
    /\ \A h \in Hash : HasBlob(h) => Known(h, row[h], sent)
    /\ \A h \in fresh : HasBlob(h)
    /\ \A h \in Hash, p \in Pubkey : <<h, p>> \in owners => h[1] # "thumb" /\ HasBlob(h)
    /\ \A h, t \in Hash : <<h, t>> \in thumbs => t = Thumb(h) /\ HasBlob(t)
    /\ \A h \in Hash, ty \in Type : <<h, ty>> \in file /\ h[1] # "in" => ty = OptMime

\* The steps of a handler and what its locals are there; S as above.
Early == {"begin", "dispatch", "await", "hashed", "deriv", "mapped", "optimize"}
Steps(q) ==
    /\ q.op = "none" => q.at = "idle"
    /\ q.op = "upload" => q.at \in {"dedup", "found", "adopt", "begin", "dispatch", "await", "hashed", "commit", "insert"}
    /\ q.op = "mirror" => q.at \in {"begin", "dispatch", "await", "hashed", "dedup", "found", "adopt", "commit", "insert"}
    /\ q.op = "media" => q.at \in Early \cup {"adopt", "rehash", "hasopt", "getopt", "link", "own", "newthumb",
                                              "commit", "insert", "map", "thumb"}
    /\ q.op = "delete" => q.at \in {"check", "disown", "count", "drop", "unlink", "sweep"}
    /\ q.op = "admin" => q.at \in {"check", "drop", "unlink", "sweep"}
    /\ q.op \in {"user", "prune"} => q.at \in {"loop", "drop", "unlink", "sweep"}
    /\ q.op = "read" => q.at = "serve"
Storers == {"upload", "mirror", "media"}
Locals(q, S) ==
    /\ q.op \in Storers => q.h \in Hash /\ q.ty \in Type /\ q.who \in Pubkey
    /\ q.op \in {"upload", "mirror"} => q.h[1] = "in"
    /\ q.op = "media" => q.ty = OptMime /\ q.h[1] = (IF q.at \in Early THEN "in" ELSE "opt")
    /\ q.at = "adopt" => Known(q.h, q.ty, S)
    /\ q.at = "insert" => Known(q.h, q.ty, S)
    /\ q.at \in {"check", "disown", "count", "drop", "unlink", "sweep", "serve"} => q.h \in Hash
    /\ q.at \in {"disown", "count", "drop", "unlink"} => q.ty \in Type
    /\ q.op = "delete" => q.who \in Pubkey
    /\ q.op \in {"delete", "user", "prune"} /\ q.at \in {"disown", "count", "drop"} => Known(q.h, q.ty, S)
    /\ \A h \in Hash, ty \in Type : <<h, ty>> \in q.todo => Known(h, ty, S)
    /\ q.at \notin {"drop", "unlink", "sweep"} => q.old = {}
    /\ \A b \in q.old : b = <<Thumb(q.h), OptMime>>

Shaped == \A r \in Req : Steps(req[r]) /\ Locals(req[r], sent)
Base == TypeOK /\ Tables /\ Shaped

-----------------------------------------------------------------------------
(* How a handler moves on.                                                 *)

LEMMA KindsOfHash ==
    ASSUME NEW h \in Hash
    PROVE  /\ h[1] \in {"in", "opt", "thumb"} /\ h[2] \in Original
           /\ Opt(h) \in Hash /\ Opt(h)[1] = "opt"
           /\ Thumb(h) \in Hash /\ Thumb(h)[1] = "thumb"
BY DEF Hash, Opt, Thumb

LEMMA IdleFits ==
    Idle \in Handler /\ \A S : Steps(Idle) /\ Locals(Idle, S)
<1>1. Idle \in Handler
  BY DEF Idle, Handler, Op, Label
<1>2. Idle.op = "none" /\ Idle.at = "idle" /\ Idle.todo = {} /\ Idle.old = {}
  BY DEF Idle
<1> QED  BY <1>1, <1>2 DEF Steps, Locals, Storers

LEMMA Others ==
    ASSUME TypeOK, NEW r \in Req, NEW q \in Handler, req' = [req EXCEPT ![r] = q]
    PROVE  req' \in [Req -> Handler] /\ req'[r] = q /\ \A s \in Req \ {r} : req'[s] = req[s]
BY DEF TypeOK

LEMMA ToMoves ==
    ASSUME TypeOK, NEW r \in Req, NEW at \in Label, To(r, at)
    PROVE  /\ req' \in [Req -> Handler] /\ \A s \in Req \ {r} : req'[s] = req[s]
           /\ req'[r].at = at /\ req'[r].op = req[r].op /\ req'[r].who = req[r].who
           /\ req'[r].h = req[r].h /\ req'[r].ty = req[r].ty
           /\ req'[r].todo = req[r].todo /\ req'[r].old = req[r].old
<1> DEFINE q == [req[r] EXCEPT !.at = at]
<1>1. req[r] \in Handler
  BY DEF TypeOK
<1>2. /\ q \in Handler /\ q.at = at /\ q.op = req[r].op /\ q.who = req[r].who /\ q.h = req[r].h
      /\ q.ty = req[r].ty /\ q.todo = req[r].todo /\ q.old = req[r].old
  BY <1>1 DEF Handler
<1>3. req' = [req EXCEPT ![r] = q]
  BY DEF To, TypeOK
<1> HIDE DEF q
<1> QED  BY <1>2, <1>3, Others

LEMMA AnswerEnds ==
    ASSUME TypeOK, NEW r \in Req, NEW ts, Answer(r, ts)
    PROVE  /\ req' \in [Req -> Handler] /\ req'[r] = Idle /\ \A s \in Req \ {r} : req'[s] = req[s]
           /\ tmp' = {t \in ts : t[1] # r}
BY IdleFits, Others DEF Answer

LEMMA KnownStays ==
    ASSUME NEW q, NEW S, NEW T, S \subseteq T, Locals(q, S)
    PROVE  Locals(q, T)
BY DEF Locals, Known

\* The tables and the disk as they are; the handler may have moved on.
LEMMA QuietKeeps ==
    ASSUME Base, NEW r \in Req, UNCHANGED <<db, file, sent>>,
           req' \in [Req -> Handler], \A s \in Req \ {r} : req'[s] = req[s],
           Steps(req'[r]), Locals(req'[r], sent),
           tmp' \in SUBSET (Req \X Role), count' \in [Worker -> Int], job' \in [Req -> Worker \cup {Absent}],
           erred' \in SUBSET Worker
    PROVE  Base'
<1>1. TypeOK'
  BY DEF Base, TypeOK, Rows, db
<1>2. Tables'
  BY DEF Base, Tables, HasBlob, db
<1>3. Shaped'
  BY DEF Base, Shaped
<1> QED  BY <1>1, <1>2, <1>3 DEF Base

LEMMA SlotHandler ==
    ASSUME TypeOK, NEW r \in Req
    PROVE  /\ req[r] \in Handler /\ req[r].op \in Op /\ req[r].at \in Label
           /\ req[r].todo \in SUBSET (Hash \X Type) /\ req[r].old \in SUBSET (Hash \X Type)
           /\ req[r].h \in Hash /\ HasBlob(req[r].h) => row[req[r].h] \in Type
BY DEF TypeOK, Rows, Handler, HasBlob

\* A step that only moves its handler to another place, or ends it.
LEMMA ToKeeps ==
    ASSUME Base, NEW r \in Req, NEW at \in Label, To(r, at), UNCHANGED <<db, file, hist>>,
           Steps([req[r] EXCEPT !.at = at]), Locals([req[r] EXCEPT !.at = at], sent),
           tmp' \in SUBSET (Req \X Role), count' \in [Worker -> Int], job' \in [Req -> Worker \cup {Absent}]
    PROVE  Base'
<1>1. req' \in [Req -> Handler] /\ \A s \in Req \ {r} : req'[s] = req[s]
  BY ToMoves DEF Base
<1>2. req'[r] = [req[r] EXCEPT !.at = at]
  BY DEF Base, TypeOK, To
<1>3. erred' \in SUBSET Worker /\ UNCHANGED <<db, file, sent>>
  BY DEF Base, TypeOK, hist
<1>4. Steps(req'[r]) /\ Locals(req'[r], sent)
  BY <1>2
<1> QED  BY <1>1, <1>3, <1>4, QuietKeeps

LEMMA AnswerKeeps ==
    ASSUME Base, NEW r \in Req, NEW ts \in SUBSET (Req \X Role), Answer(r, ts), UNCHANGED <<db, file, hist>>,
           count' \in [Worker -> Int], job' \in [Req -> Worker \cup {Absent}]
    PROVE  Base'
<1>1. /\ req' \in [Req -> Handler] /\ req'[r] = Idle /\ \A s \in Req \ {r} : req'[s] = req[s]
      /\ tmp' \in SUBSET (Req \X Role)
  BY AnswerEnds, SMT DEF Base
<1>2. Steps(req'[r]) /\ Locals(req'[r], sent)
  BY <1>1, IdleFits
<1>3. erred' \in SUBSET Worker /\ UNCHANGED <<db, file, sent>>
  BY DEF Base, TypeOK, hist
<1> QED  BY <1>1, <1>2, <1>3, QuietKeeps

\* The places a handler may go to without a new local.
LEMMA NextPlaces ==
    ASSUME Base, NEW r \in Req, NEW at \in Label,
           \/ req[r].op = "upload" /\ at \in {"dispatch", "await", "hashed", "commit"}
           \/ req[r].op = "mirror" /\ at \in {"dispatch", "await", "hashed", "dedup", "found", "commit"}
           \/ req[r].op = "media" /\ req[r].at \in Early
              /\ at \in {"dispatch", "await", "hashed", "deriv", "mapped", "optimize"}
           \/ req[r].op = "media" /\ req[r].at \notin Early
              /\ at \in {"hasopt", "getopt", "commit", "own", "newthumb", "map", "thumb"},
           req[r].op = "media" => at \notin {"adopt", "insert"}
    PROVE  Steps([req[r] EXCEPT !.at = at]) /\ Locals([req[r] EXCEPT !.at = at], sent)
<1> DEFINE q == [req[r] EXCEPT !.at = at]
<1>1. /\ q.at = at /\ q.op = req[r].op /\ q.who = req[r].who /\ q.h = req[r].h
      /\ q.ty = req[r].ty /\ q.todo = req[r].todo /\ q.old = req[r].old
  BY SlotHandler DEF Base, Handler
<1>2. Steps(req[r]) /\ Locals(req[r], sent)
  BY DEF Base, Shaped
<1> HIDE DEF q
<1>3. Steps(q)
  BY <1>1 DEF Steps, Early
<1>4. req[r].old = {}
  BY <1>2 DEF Locals, Steps, Early
<1>5. Locals(q, sent)
  BY <1>1, <1>2, <1>4 DEF Locals, Early, Storers
<1> QED  BY <1>3, <1>5 DEF q

LEMMA SameHandlers ==
    ASSUME Base
    PROVE  /\ tmp \in SUBSET (Req \X Role) /\ count \in [Worker -> Int] /\ job \in [Req -> Worker \cup {Absent}]
           /\ \A r \in Req : \A roles : Without(r, roles) \in SUBSET (Req \X Role)
BY DEF Base, TypeOK, Without

LEMMA BodyKeeps ==
    ASSUME Base, NEW r \in Req,
           \/ UploadBegin(r) \/ MirrorBegin(r) \/ MediaBegin(r) \/ Dispatch(r) \/ JobDone(r)
           \/ UploadHashed(r) \/ MirrorHashed(r) \/ MediaHashed(r) \/ MirrorDedup(r) \/ MediaLookup(r)
           \/ MediaRehash(r) \/ MediaHasOptimized(r)
    PROVE  Base'
<1> USE SameHandlers
<1>0. Steps(req[r]) /\ Locals(req[r], sent)
  BY DEF Base, Shaped
<1>1. CASE UploadBegin(r) \/ MirrorBegin(r) \/ MediaBegin(r)
  <2>1. UNCHANGED <<db, file, hist, count, job>> /\ (Answer(r, tmp) \/ BeginWrite(r))
    BY <1>1 DEF UploadBegin, MirrorBegin, MediaBegin, MirrorFetch, Busy, pool
  <2>2. CASE Answer(r, tmp)
    BY <2>1, <2>2, AnswerKeeps
  <2>3. CASE BeginWrite(r)
    <3>1. To(r, "dispatch") /\ tmp' \in SUBSET (Req \X Role)
      BY <2>3, SMT DEF BeginWrite, Role
    <3>2. Steps([req[r] EXCEPT !.at = "dispatch"]) /\ Locals([req[r] EXCEPT !.at = "dispatch"], sent)
      BY <1>1, NextPlaces DEF UploadBegin, MirrorBegin, MediaBegin, Is, Label, Early
    <3> QED  BY <2>1, <3>1, <3>2, ToKeeps DEF Label
  <2> QED  BY <2>1, <2>2, <2>3
<1>2. CASE Dispatch(r)
  <2>1. UNCHANGED <<db, file, hist>> /\ req[r].at = "dispatch"
    BY <1>2 DEF Dispatch
  <2>2. CASE AbortWrite(r) /\ UNCHANGED pool
    BY <2>1, <2>2, AnswerKeeps DEF AbortWrite, pool
  <2>3. CASE ~(AbortWrite(r) /\ UNCHANGED pool)
    <3>1. PICK w \in Available : /\ count' = [count EXCEPT ![w] = @ + 1] /\ job' = [job EXCEPT ![r] = w]
                                 /\ To(r, "await") /\ UNCHANGED tmp
      BY <1>2, <2>3 DEF Dispatch
    <3>2. count' \in [Worker -> Int] /\ job' \in [Req -> Worker \cup {Absent}] /\ tmp' \in SUBSET (Req \X Role)
      BY <3>1, SMT DEF Available
    <3>3. Steps([req[r] EXCEPT !.at = "await"]) /\ Locals([req[r] EXCEPT !.at = "await"], sent)
      <4>1. req[r].op \in Storers
        BY <1>0, <2>1, SlotHandler DEF Steps, Storers, Base, Op
      <4> QED  BY <2>1, <4>1, NextPlaces DEF Storers, Label, Early
    <3> QED  BY <2>1, <3>1, <3>2, <3>3, ToKeeps DEF Label
  <2> QED  BY <2>2, <2>3
<1>3. CASE JobDone(r)
  <2>1. /\ UNCHANGED <<db, file, hist>> /\ req[r].at = "await" /\ job[r] \in Worker
        /\ count' \in [Worker -> Int] /\ job' \in [Req -> Worker \cup {Absent}]
        /\ AbortWrite(r) \/ (To(r, "hashed") /\ UNCHANGED tmp)
    BY <1>3, SMT DEF JobDone, HandleJob
  <2>2. CASE AbortWrite(r)
    BY <2>1, <2>2, AnswerKeeps DEF AbortWrite
  <2>3. CASE To(r, "hashed") /\ UNCHANGED tmp
    <3>1. req[r].op \in Storers
      BY <1>0, <2>1, SlotHandler DEF Steps, Storers, Base, Op
    <3>2. Steps([req[r] EXCEPT !.at = "hashed"]) /\ Locals([req[r] EXCEPT !.at = "hashed"], sent)
      BY <2>1, <3>1, NextPlaces DEF Storers, Label, Early
    <3> QED  BY <2>1, <2>3, <3>2, ToKeeps DEF Label
  <2> QED  BY <2>1, <2>2, <2>3
<1>4. CASE UploadHashed(r) \/ MirrorHashed(r) \/ MediaHashed(r) \/ MediaRehash(r)
  <2>1. /\ UNCHANGED <<db, file, hist, count, job>>
        /\ \/ AbortWrite(r) \/ Answer(r, tmp)
           \/ To(r, "commit") /\ UNCHANGED tmp /\ req[r].op = "upload"
           \/ To(r, "dedup") /\ UNCHANGED tmp /\ req[r].op = "mirror"
           \/ To(r, "deriv") /\ UNCHANGED tmp /\ req[r].op = "media" /\ req[r].at = "hashed"
           \/ To(r, "hasopt") /\ UNCHANGED tmp /\ req[r].op = "media" /\ req[r].at = "rehash"
    BY <1>4 DEF UploadHashed, MirrorHashed, MediaHashed, MediaRehash, Is, pool
  <2>2. CASE AbortWrite(r) \/ Answer(r, tmp)
    BY <2>1, <2>2, AnswerKeeps DEF AbortWrite
  <2>3. CASE To(r, "commit") /\ UNCHANGED tmp /\ req[r].op = "upload"
    <3>1. Steps([req[r] EXCEPT !.at = "commit"]) /\ Locals([req[r] EXCEPT !.at = "commit"], sent)
      BY <2>3, NextPlaces DEF Label, Early
    <3> QED  BY <2>1, <2>3, <3>1, ToKeeps DEF Label
  <2>4. CASE To(r, "dedup") /\ UNCHANGED tmp /\ req[r].op = "mirror"
    <3>1. Steps([req[r] EXCEPT !.at = "dedup"]) /\ Locals([req[r] EXCEPT !.at = "dedup"], sent)
      BY <2>4, NextPlaces DEF Label, Early
    <3> QED  BY <2>1, <2>4, <3>1, ToKeeps DEF Label
  <2>5. CASE To(r, "deriv") /\ UNCHANGED tmp /\ req[r].op = "media" /\ req[r].at = "hashed"
    <3>1. Steps([req[r] EXCEPT !.at = "deriv"]) /\ Locals([req[r] EXCEPT !.at = "deriv"], sent)
      BY <2>5, NextPlaces DEF Label, Early
    <3> QED  BY <2>1, <2>5, <3>1, ToKeeps DEF Label
  <2>6. CASE To(r, "hasopt") /\ UNCHANGED tmp /\ req[r].op = "media" /\ req[r].at = "rehash"
    <3>1. Steps([req[r] EXCEPT !.at = "hasopt"]) /\ Locals([req[r] EXCEPT !.at = "hasopt"], sent)
      BY <2>6, NextPlaces DEF Label, Early
    <3> QED  BY <2>1, <2>6, <3>1, ToKeeps DEF Label
  <2> QED  BY <2>1, <2>2, <2>3, <2>4, <2>5, <2>6
<1>5. CASE MirrorDedup(r) \/ MediaLookup(r) \/ MediaHasOptimized(r)
  <2>1. /\ UNCHANGED <<db, file, hist, count, job>> /\ tmp' \in SUBSET (Req \X Role)
        /\ \E at \in Label : /\ To(r, at)
             /\ \/ req[r].op = "mirror" /\ at \in {"found", "commit"}
                \/ req[r].op = "media" /\ req[r].at = "deriv" /\ at \in {"mapped", "optimize"}
                \/ req[r].op = "media" /\ req[r].at = "hasopt" /\ at \in {"getopt", "commit"}
    BY <1>5 DEF MirrorDedup, MediaLookup, MediaHasOptimized, Is, pool, disk, Label
  <2>2. PICK at \in Label : /\ To(r, at)
             /\ \/ req[r].op = "mirror" /\ at \in {"found", "commit"}
                \/ req[r].op = "media" /\ req[r].at = "deriv" /\ at \in {"mapped", "optimize"}
                \/ req[r].op = "media" /\ req[r].at = "hasopt" /\ at \in {"getopt", "commit"}
    BY <2>1
  <2>3. Steps([req[r] EXCEPT !.at = at]) /\ Locals([req[r] EXCEPT !.at = at], sent)
    BY <2>2, NextPlaces DEF Early
  <2> QED  BY <2>1, <2>2, <2>3, ToKeeps
<1> QED  BY <1>1, <1>2, <1>3, <1>4, <1>5

LEMMA LocalsOf ==
    ASSUME Base, NEW r \in Req
    PROVE  Steps(req[r]) /\ Locals(req[r], sent)
BY DEF Base, Shaped

LEMMA RowTyped ==
    ASSUME Base, NEW h \in Hash, HasBlob(h)
    PROVE  row[h] \in Type /\ Known(h, row[h], sent)
BY DEF Base, TypeOK, Rows, Tables, HasBlob

\* The handler's record changes; tables, disk and pool stay.
LEMMA RecordKeeps ==
    ASSUME Base, NEW r \in Req, NEW q \in Handler, req' = [req EXCEPT ![r] = q],
           UNCHANGED <<db, file, count, job, hist>>, Steps(q), Locals(q, sent), tmp' \in SUBSET (Req \X Role)
    PROVE  Base'
<1>1. req' \in [Req -> Handler] /\ req'[r] = q /\ \A s \in Req \ {r} : req'[s] = req[s]
  BY Others DEF Base
<1>2. erred' \in SUBSET Worker /\ UNCHANGED sent
  BY DEF Base, TypeOK, hist
<1> QED  BY <1>1, <1>2, SameHandlers, QuietKeeps

LEMMA LookupKeeps ==
    ASSUME Base, NEW r \in Req,
           \/ UploadDedup(r) \/ UploadFound(r) \/ MirrorFound(r)
           \/ MediaMapped(r) \/ MediaOptimize(r) \/ MediaGetOptimized(r)
    PROVE  Base'
<1> USE SameHandlers
<1>0. Steps(req[r]) /\ Locals(req[r], sent) /\ req[r] \in Handler
  BY LocalsOf, SlotHandler DEF Base
<1>1. CASE UploadDedup(r)
  <2>1. req[r].op = "upload" /\ req[r].at = "dedup" /\ UNCHANGED <<db, file, count, job, hist, tmp>>
    BY <1>1 DEF UploadDedup, Is, disk, pool
  <2>2. CASE HasBlob(req[r].h)
    <3> DEFINE q == [req[r] EXCEPT !.at = "found", !.cut = TRUE]
    <3>1. req' = [req EXCEPT ![r] = q]
      BY <1>1, <2>2 DEF UploadDedup, Base, TypeOK
    <3>2. /\ q \in Handler /\ q.op = req[r].op /\ q.at = "found" /\ q.h = req[r].h /\ q.ty = req[r].ty
          /\ q.who = req[r].who /\ q.todo = req[r].todo /\ q.old = req[r].old
      BY <1>0 DEF Handler, Label
    <3> HIDE DEF q
    <3>3. Steps(q) /\ Locals(q, sent)
      BY <1>0, <2>1, <3>2 DEF Steps, Locals, Storers
    <3> QED  BY <2>1, <3>1, <3>2, <3>3, RecordKeeps
  <2>3. CASE ~HasBlob(req[r].h)
    <3> DEFINE q == [req[r] EXCEPT !.at = "begin", !.cut = FALSE]
    <3>0. HasBlob(req[r].h) = FALSE
      BY <2>3 DEF HasBlob
    <3>1. req' = [req EXCEPT ![r] = q]
      BY <1>1, <3>0 DEF UploadDedup, Base, TypeOK
    <3>2. /\ q \in Handler /\ q.op = req[r].op /\ q.at = "begin" /\ q.h = req[r].h /\ q.ty = req[r].ty
          /\ q.who = req[r].who /\ q.todo = req[r].todo /\ q.old = req[r].old
      BY <1>0, ZenonT(30) DEF Handler, Label
    <3> HIDE DEF q
    <3>3. Steps(q) /\ Locals(q, sent)
      BY <1>0, <2>1, <3>2 DEF Steps, Locals, Storers
    <3> QED  BY <2>1, <3>1, <3>2, <3>3, RecordKeeps
  <2> QED  BY <2>2, <2>3
<1>2. ASSUME NEW op \in {"upload", "mirror"}, NEW next \in {"begin", "commit"}, Is(r, op, "found"), Found(r, next),
             op = "upload" => next = "begin", op = "mirror" => next = "commit"
      PROVE  Base'
  <2> DEFINE at == IF HasBlob(req[r].h) THEN "adopt" ELSE next
             ty == IF HasBlob(req[r].h) THEN row[req[r].h] ELSE req[r].ty
             q == [req[r] EXCEPT !.at = at, !.ty = ty]
  <2>1. req' = [req EXCEPT ![r] = q] /\ req[r].op = op /\ req[r].at = "found"
    BY <1>2 DEF Found, Is, Base, TypeOK, GetBlob
  <2>2. req[r].h \in Hash /\ req[r].ty \in Type /\ ty \in Type
    BY <1>0, <2>1, RowTyped DEF Locals, Storers
  <2>3. at = "adopt" => Known(req[r].h, ty, sent)
    BY <2>2, RowTyped
  <2>4. /\ q \in Handler /\ q.op = op /\ q.at = at /\ q.h = req[r].h /\ q.ty = ty
        /\ q.who = req[r].who /\ q.todo = req[r].todo /\ q.old = req[r].old
    BY <1>0, <2>1, <2>2, ZenonT(30) DEF Handler, Label
  <2>5. at \in {"adopt", "begin", "commit"} /\ (op = "upload" => at \in {"adopt", "begin"})
                                            /\ (op = "mirror" => at \in {"adopt", "commit"})
    BY <1>2
  <2> HIDE DEF q, at, ty
  <2>6. Steps(q) /\ Locals(q, sent)
    BY <1>0, <2>1, <2>2, <2>3, <2>4, <2>5 DEF Steps, Locals, Storers
  <2>7. UNCHANGED <<db, file, count, job, hist, tmp>>
    BY <1>2 DEF Found, disk, pool
  <2> QED  BY <2>1, <2>4, <2>6, <2>7, RecordKeeps
<1>3. CASE MediaMapped(r)
  <2> DEFINE o == Opt(req[r].h)
  <2>1. req[r].op = "media" /\ req[r].at = "mapped" /\ UNCHANGED <<db, file, count, job, hist, tmp>>
    BY <1>3 DEF MediaMapped, Is, disk, pool
  <2>2. req[r].h \in Hash /\ req[r].ty = OptMime /\ o \in Hash /\ o[1] = "opt" /\ req[r].old = {}
    BY <1>0, <2>1, KindsOfHash DEF Locals, Storers
  <2>3. CASE HasBlob(o)
    <3> DEFINE q == [req[r] EXCEPT !.at = "adopt", !.h = o, !.ty = row[o]]
    <3>1. req' = [req EXCEPT ![r] = q]
      BY <1>3, <2>3 DEF MediaMapped, Base, TypeOK
    <3>2. row[o] \in Type /\ Known(o, row[o], sent)
      BY <2>2, <2>3, RowTyped
    <3>3. /\ q \in Handler /\ q.op = "media" /\ q.at = "adopt" /\ q.h = o /\ q.ty = row[o]
          /\ q.who = req[r].who /\ q.todo = req[r].todo /\ q.old = req[r].old
      BY <1>0, <2>1, <2>2, <3>2 DEF Handler, Label
    <3> HIDE DEF q, o
    <3>4. Steps(q) /\ Locals(q, sent)
      BY <1>0, <2>1, <2>2, <3>2, <3>3 DEF Steps, Locals, Storers, Early, Known
    <3> QED  BY <2>1, <3>1, <3>3, <3>4, RecordKeeps
  <2>4. CASE ~HasBlob(o)
    <3>1. To(r, "optimize")
      BY <1>3, <2>4 DEF MediaMapped, To
    <3>2. Steps([req[r] EXCEPT !.at = "optimize"]) /\ Locals([req[r] EXCEPT !.at = "optimize"], sent)
      BY <2>1, NextPlaces DEF Early, Label
    <3> QED  BY <2>1, <3>1, <3>2, ToKeeps DEF Label
  <2> QED  BY <2>3, <2>4
<1>4. CASE MediaOptimize(r)
  <2>1. req[r].op = "media" /\ req[r].at = "optimize" /\ UNCHANGED <<db, file, count, job, hist>>
    BY <1>4 DEF MediaOptimize, Is, pool
  <2>2. req[r].h \in Hash /\ req[r].ty = OptMime /\ Opt(req[r].h) \in Hash /\ Opt(req[r].h)[1] = "opt" /\ req[r].old = {}
    BY <1>0, <2>1, KindsOfHash DEF Locals, Storers
  <2>3. CASE req' = [req EXCEPT ![r].at = "rehash", ![r].h = Opt(@)] /\ tmp' = Without(r, {"in"}) \cup {<<r, "out">>}
    <3> DEFINE q == [req[r] EXCEPT !.at = "rehash", !.h = Opt(req[r].h)]
    <3>0. tmp' \in SUBSET (Req \X Role)
      BY <2>3, SMT DEF Role
    <3>1. req' = [req EXCEPT ![r] = q]
      BY <2>3 DEF Base, TypeOK
    <3>2. /\ q \in Handler /\ q.op = "media" /\ q.at = "rehash" /\ q.h = Opt(req[r].h) /\ q.ty = req[r].ty
          /\ q.who = req[r].who /\ q.todo = req[r].todo /\ q.old = req[r].old
      BY <1>0, <2>1, <2>2 DEF Handler, Label
    <3> HIDE DEF q
    <3>3. Steps(q) /\ Locals(q, sent)
      BY <1>0, <2>1, <2>2, <3>2 DEF Steps, Locals, Storers, Early
    <3> QED  BY <2>1, <3>0, <3>1, <3>2, <3>3, RecordKeeps
  <2>4. ASSUME NEW out \in OptimizeMedia \ {"made"}, Answer(r, tmp \cup {<<r, x>> : x \in {out} \ {"none"}})
        PROVE  Base'
    <3>1. tmp \cup {<<r, x>> : x \in {out} \ {"none"}} \in SUBSET (Req \X Role)
      BY SMT DEF OptimizeMedia, OptimizeImage, OptimizeVideo, Role
    <3> QED  BY <2>1, <2>4, <3>1, AnswerKeeps
  <2> QED  BY <1>4, <2>3, <2>4 DEF MediaOptimize
<1>5. CASE MediaGetOptimized(r)
  <2>1. /\ req[r].op = "media" /\ req[r].at = "getopt" /\ UNCHANGED <<db, file, count, job, hist>>
        /\ tmp' \in SUBSET (Req \X Role)
    BY <1>5 DEF MediaGetOptimized, Is, pool
  <2>2. req[r].h \in Hash /\ req[r].h[1] = "opt" /\ req[r].old = {}
    BY <1>0, <2>1 DEF Locals, Storers, Early
  <2>3. CASE HasBlob(req[r].h)
    <3> DEFINE q == [req[r] EXCEPT !.at = "link", !.ty = row[req[r].h]]
    <3>1. req' = [req EXCEPT ![r] = q]
      BY <1>5, <2>3 DEF MediaGetOptimized, Base, TypeOK, GetBlob
    <3>2. row[req[r].h] \in Type /\ row[req[r].h] = OptMime
      BY <2>2, <2>3, RowTyped DEF Known
    <3>3. /\ q \in Handler /\ q.op = "media" /\ q.at = "link" /\ q.h = req[r].h /\ q.ty = OptMime
          /\ q.who = req[r].who /\ q.todo = req[r].todo /\ q.old = req[r].old
      BY <1>0, <2>1, <2>2, <3>2 DEF Handler, Label
    <3> HIDE DEF q
    <3>4. Steps(q) /\ Locals(q, sent)
      BY <1>0, <2>1, <2>2, <3>2, <3>3 DEF Steps, Locals, Storers, Early
    <3> QED  BY <2>1, <3>1, <3>3, <3>4, RecordKeeps
  <2>4. CASE ~HasBlob(req[r].h)
    <3>1. To(r, "commit")
      BY <1>5, <2>4 DEF MediaGetOptimized
    <3>2. Steps([req[r] EXCEPT !.at = "commit"]) /\ Locals([req[r] EXCEPT !.at = "commit"], sent)
      BY <2>1, NextPlaces DEF Early, Label
    <3> QED  BY <2>1, <3>1, <3>2, ToKeeps DEF Label
  <2> QED  BY <2>3, <2>4
<1> QED  BY <1>1, <1>2, <1>3, <1>4, <1>5 DEF UploadFound, MirrorFound

(* What the statements on the tables and the disk keep.                    *)

LEMMA InsertKeepsRows ==
    ASSUME Base, NEW h \in Hash, NEW ty \in Type, NEW p \in Pubkey, h[1] # "thumb", Known(h, ty, sent),
           InsertBlob(h, ty, p), UNCHANGED <<file, sent>>
    PROVE  Rows' /\ Tables' /\ HasBlob(h)'
<1>1. /\ row' = IF HasBlob(h) THEN row ELSE [row EXCEPT ![h] = ty]
      /\ owners' = owners \cup {<<h, p>>} /\ fresh' = fresh \cup {h} /\ UNCHANGED <<thumbs, file, sent>>
  BY DEF InsertBlob
<1>2. Rows'
  BY <1>1, SMT DEF Base, TypeOK, Rows
<1>3. /\ \A g \in Hash : HasBlob(g) => HasBlob(g)' /\ row'[g] = row[g]
      /\ \A g \in Hash : HasBlob(g)' => HasBlob(g) \/ g = h
      /\ HasBlob(h)' /\ (row'[h] = ty \/ HasBlob(h))
  BY <1>1, NodeAssumption DEF Base, TypeOK, Rows, HasBlob, Type
<1>4. Tables'
  BY <1>1, <1>3 DEF Base, Tables, TypeOK, Rows
<1> QED  BY <1>2, <1>3, <1>4

LEMMA ThumbnailKeepsRows ==
    ASSUME Base, NEW h \in Hash, CommitFile(Thumb(h), OptMime), InsertBlobRecord(Thumb(h), OptMime),
           InsertMediaThumbnail(h, Thumb(h)), UNCHANGED sent
    PROVE  Rows' /\ Tables'
<1> DEFINE t == Thumb(h)
<1>0. t \in Hash /\ t[1] = "thumb" /\ OptMime \in Type
  BY KindsOfHash, NodeAssumption DEF Type
<1>1. /\ row' = IF HasBlob(t) THEN row ELSE [row EXCEPT ![t] = OptMime]
      /\ fresh' = fresh \cup {t} /\ UNCHANGED <<owners, sent>> /\ file' = file \cup {<<t, OptMime>>}
      /\ thumbs' = thumbs \/ thumbs' = thumbs \cup {<<h, t>>}
  BY DEF InsertBlobRecord, InsertMediaThumbnail, CommitFile
<1>e. t = Thumb(h)
  OBVIOUS
<1> HIDE DEF t
<1>2. Rows'
  BY <1>0, <1>1, SMT DEF Base, TypeOK, Rows
<1>3. /\ \A g \in Hash : HasBlob(g) => HasBlob(g)' /\ row'[g] = row[g]
      /\ \A g \in Hash : HasBlob(g)' => HasBlob(g) \/ g = t
      /\ HasBlob(t)' /\ (row'[t] = OptMime \/ HasBlob(t))
  BY <1>0, <1>1, NodeAssumption DEF Base, TypeOK, Rows, HasBlob, Type
<1>4. /\ \A g \in Hash : HasBlob(g)' => Known(g, row[g], sent)'
      /\ \A g \in fresh' : HasBlob(g)'
  BY <1>0, <1>1, <1>3 DEF Base, Tables, TypeOK, Rows, Known
<1>5. \A g \in Hash, p \in Pubkey : <<g, p>> \in owners' => g[1] # "thumb" /\ HasBlob(g)'
  BY <1>1, <1>3 DEF Base, Tables
<1>6. \A g, u \in Hash : <<g, u>> \in thumbs' => u = Thumb(g) /\ HasBlob(u)'
  BY <1>e, <1>0, <1>1, <1>3, SMT DEF Base, Tables
<1>7. \A g \in Hash, ty \in Type : <<g, ty>> \in file' /\ g[1] # "in" => ty = OptMime
  BY <1>1 DEF Base, Tables
<1> QED  BY <1>2, <1>4, <1>5, <1>6, <1>7 DEF Tables

LEMMA DeleteKeepsRows ==
    ASSUME Base, NEW hs, DeleteBlobs(hs), file' \subseteq file, UNCHANGED sent
    PROVE  Rows' /\ Tables'
<1>1. /\ row' = [h \in Hash |-> IF h \in hs THEN Absent ELSE row[h]]
      /\ owners' = {o \in owners : o[1] \notin hs} /\ fresh' = fresh \ hs
      /\ thumbs' = {t \in thumbs : t[1] \notin hs /\ t[2] \notin hs}
  BY DEF DeleteBlobs
<1>2. Rows'
  BY <1>1 DEF Base, TypeOK, Rows
<1>3. /\ \A g \in Hash : HasBlob(g)' => HasBlob(g) /\ row'[g] = row[g]
      /\ \A g \in Hash : HasBlob(g) /\ g \notin hs => HasBlob(g)'
  BY <1>1 DEF Base, TypeOK, Rows, HasBlob
<1>4. /\ \A h \in Hash : HasBlob(h)' => Known(h, row'[h], sent)
      /\ \A h \in fresh' : HasBlob(h)'
  BY <1>1, <1>3 DEF Base, Tables, TypeOK, Rows
<1>5. \A h \in Hash, p \in Pubkey : <<h, p>> \in owners' => h[1] # "thumb" /\ HasBlob(h)'
  BY <1>1, <1>3 DEF Base, Tables
<1>6. \A h, t \in Hash : <<h, t>> \in thumbs' => t = Thumb(h) /\ HasBlob(t)'
  BY <1>1, <1>3 DEF Base, Tables
<1>7. \A h \in Hash, ty \in Type : <<h, ty>> \in file' /\ h[1] # "in" => ty = OptMime
  BY DEF Base, Tables
<1> QED  BY <1>2, <1>4, <1>5, <1>6, <1>7 DEF Tables

LEMMA CommitKeepsRows ==
    ASSUME Base, NEW h \in Hash, NEW ty \in Type, h[1] # "in" => ty = OptMime, CommitFile(h, ty), UNCHANGED db,
           sent \subseteq sent', sent' \subseteq sent \cup {<<h, ty>>}
    PROVE  Rows' /\ Tables'
<1>1. file' = file \cup {<<h, ty>>} /\ UNCHANGED <<row, owners, fresh, thumbs>>
  BY DEF CommitFile, db
<1>2. Rows'
  BY <1>1, SMT DEF Base, TypeOK, Rows
<1>3. Tables'
  BY <1>1 DEF Base, Tables, HasBlob, Known
<1> QED  BY <1>2, <1>3

LEMMA FewerKeepRows ==
    ASSUME Base, UNCHANGED <<row, thumbs, sent>>, file' \subseteq file, owners' \subseteq owners,
           fresh' \subseteq fresh \cup {h \in Hash : HasBlob(h)}
    PROVE  Rows' /\ Tables'
<1>1. Rows'
  BY DEF Base, TypeOK, Rows
<1>2. Tables'
  BY DEF Base, Tables, HasBlob
<1> QED  BY <1>1, <1>2

\* A step of one handler, from its effect.
LEMMA StepKeeps ==
    ASSUME Base, NEW r \in Req, Rows', Tables', sent \subseteq sent',
           req' \in [Req -> Handler], \A s \in Req \ {r} : req'[s] = req[s],
           Steps(req'[r]), Locals(req'[r], sent'),
           tmp' \in SUBSET (Req \X Role), count' \in [Worker -> Int], job' \in [Req -> Worker \cup {Absent}],
           erred' \in SUBSET Worker
    PROVE  Base'
<1>1. TypeOK'
  BY DEF TypeOK
<1>2. \A s \in Req : Steps(req'[s]) /\ Locals(req'[s], sent')
  BY KnownStays DEF Base, Shaped
<1> QED  BY <1>1, <1>2 DEF Base, Shaped

LEMMA EndKeeps ==
    ASSUME Base, NEW r \in Req, NEW ts \in SUBSET (Req \X Role), Answer(r, ts), Rows', Tables', sent \subseteq sent',
           UNCHANGED <<count, job, erred>>
    PROVE  Base'
<1>1. /\ req' \in [Req -> Handler] /\ req'[r] = Idle /\ \A s \in Req \ {r} : req'[s] = req[s]
      /\ tmp' \in SUBSET (Req \X Role)
  BY AnswerEnds, SMT DEF Base
<1>2. Steps(req'[r]) /\ Locals(req'[r], sent')
  BY <1>1, IdleFits
<1>3. count' \in [Worker -> Int] /\ job' \in [Req -> Worker \cup {Absent}] /\ erred' \in SUBSET Worker
  BY DEF Base, TypeOK
<1> QED  BY <1>1, <1>2, <1>3, StepKeeps

LEMMA OnwardKeeps ==
    ASSUME Base, NEW r \in Req, NEW at \in Label, To(r, at), Rows', Tables', sent \subseteq sent',
           Steps([req[r] EXCEPT !.at = at]), Locals([req[r] EXCEPT !.at = at], sent'),
           tmp' \in SUBSET (Req \X Role), UNCHANGED <<count, job, erred>>
    PROVE  Base'
<1>1. req' \in [Req -> Handler] /\ \A s \in Req \ {r} : req'[s] = req[s]
  BY ToMoves DEF Base
<1>2. req'[r] = [req[r] EXCEPT !.at = at]
  BY DEF Base, TypeOK, To
<1>3. count' \in [Worker -> Int] /\ job' \in [Req -> Worker \cup {Absent}] /\ erred' \in SUBSET Worker
  BY DEF Base, TypeOK
<1>4. Steps(req'[r]) /\ Locals(req'[r], sent')
  BY <1>2
<1> QED  BY <1>1, <1>3, <1>4, StepKeeps

LEMMA StorerHash ==
    ASSUME Base, NEW r \in Req, req[r].op \in Storers
    PROVE  /\ req[r].h \in Hash /\ req[r].ty \in Type /\ req[r].who \in Pubkey /\ req[r].h[1] # "thumb"
           /\ req[r].op = "media" /\ req[r].at \notin Early => req[r].h[1] = "opt" /\ req[r].ty = OptMime
           /\ req[r].op \in {"upload", "mirror"} => req[r].h[1] = "in"
BY LocalsOf DEF Locals, Storers

\* What Adopt writes is what it read of the row, or of the same kind.
LEMMA AdoptKeepsRows ==
    ASSUME Base, NEW r \in Req, req[r].op \in Storers, req[r].at \in {"adopt", "own"}, Adopt(r)
    PROVE  Rows' /\ Tables' /\ UNCHANGED <<count, job, sent, erred>>
<1>0. UNCHANGED <<file, count, job, sent, erred>>
  BY DEF Adopt, pool, hist
<1>1. Known(req[r].h, req[r].ty, sent)
  <2>1. CASE req[r].at = "adopt"
    BY <2>1, LocalsOf DEF Locals
  <2>2. CASE req[r].at = "own"
    <3>1. req[r].op = "media"
      BY <2>2, LocalsOf DEF Steps, Storers
    <3> QED  BY <2>2, <3>1, StorerHash DEF Known, Early
  <2> QED  BY <2>1, <2>2
<1>2. CASE UNCHANGED db
  BY <1>0, <1>2, FewerKeepRows DEF db
<1>3. CASE InsertBlob(req[r].h, req[r].ty, req[r].who)
  BY <1>0, <1>1, <1>3, StorerHash, InsertKeepsRows
<1> QED  BY <1>0, <1>2, <1>3 DEF Adopt

LEMMA StoreKeeps ==
    ASSUME Base, NEW r \in Req,
           \/ UploadAdopt(r) \/ MirrorAdopt(r) \/ MediaAdopt(r) \/ MediaOwn(r)
           \/ UploadCommit(r) \/ MirrorCommit(r) \/ MediaCommit(r)
           \/ UploadInsert(r) \/ MirrorInsert(r) \/ MediaInsert(r)
    PROVE  Base'
<1> USE SameHandlers
<1>1. CASE UploadAdopt(r) \/ MirrorAdopt(r) \/ MediaAdopt(r)
  <2>1. Adopt(r) /\ Answer(r, tmp) /\ req[r].op \in Storers /\ req[r].at = "adopt"
    BY <1>1 DEF UploadAdopt, MirrorAdopt, MediaAdopt, Is, Storers
  <2> QED  BY <2>1, AdoptKeepsRows, EndKeeps
<1>2. CASE MediaOwn(r)
  <2>1. Adopt(r) /\ To(r, "newthumb") /\ UNCHANGED tmp /\ req[r].op = "media" /\ req[r].at = "own"
    BY <1>2 DEF MediaOwn, Is
  <2>2. Rows' /\ Tables' /\ UNCHANGED <<count, job, sent, erred>>
    BY <2>1, AdoptKeepsRows DEF Storers
  <2>3. Steps([req[r] EXCEPT !.at = "newthumb"]) /\ Locals([req[r] EXCEPT !.at = "newthumb"], sent)
    BY <2>1, NextPlaces DEF Early, Label
  <2> QED  BY <2>1, <2>2, <2>3, OnwardKeeps DEF Label
<1>3. CASE UploadCommit(r) \/ MirrorCommit(r)
  <2>1. /\ CommitWrite(r) /\ req[r].op \in {"upload", "mirror"} /\ req[r].at = "commit"
        /\ UNCHANGED <<db, count, job, erred>>
    BY <1>3 DEF UploadCommit, MirrorCommit, CommitWrite, Is, pool
  <2>2. req[r].h \in Hash /\ req[r].ty \in Type /\ req[r].h[1] = "in"
    BY <2>1, StorerHash DEF Storers
  <2>3. CASE AbortWrite(r) /\ UNCHANGED <<file, sent>>
    BY <2>1, <2>3, FewerKeepRows, EndKeeps DEF AbortWrite, db
  <2>4. CASE ~(AbortWrite(r) /\ UNCHANGED <<file, sent>>)
    <3>1. /\ CommitFile(req[r].h, req[r].ty) /\ tmp' \in SUBSET (Req \X Role)
          /\ sent' = sent \cup {<<req[r].h, req[r].ty>>} /\ To(r, "insert")
      BY <2>1, <2>4 DEF CommitWrite
    <3>2. Rows' /\ Tables'
      BY <2>1, <2>2, <3>1, CommitKeepsRows
    <3> DEFINE q == [req[r] EXCEPT !.at = "insert"]
    <3>3. /\ q.at = "insert" /\ q.op = req[r].op /\ q.who = req[r].who /\ q.h = req[r].h
          /\ q.ty = req[r].ty /\ q.todo = req[r].todo /\ q.old = req[r].old
      BY SlotHandler DEF Base, Handler
    <3>4. Steps(req[r]) /\ Locals(req[r], sent')
      BY <3>1, LocalsOf, KnownStays, SMT
    <3>5. Known(req[r].h, req[r].ty, sent')
      BY <2>2, <3>1 DEF Known
    <3> HIDE DEF q
    <3>6. Steps(q) /\ Locals(q, sent')
      BY <2>1, <2>2, <3>3, <3>4, <3>5 DEF Steps, Locals, Storers
    <3>7. Steps([req[r] EXCEPT !.at = "insert"]) /\ Locals([req[r] EXCEPT !.at = "insert"], sent')
      BY <3>6 DEF q
    <3>8. sent \subseteq sent'
      BY <3>1
    <3> QED  BY <2>1, <3>1, <3>2, <3>7, <3>8, OnwardKeeps DEF Label
  <2> QED  BY <2>3, <2>4
<1>4. CASE MediaCommit(r)
  <2>1. req[r].op = "media" /\ req[r].at = "commit" /\ UNCHANGED <<db, count, job, sent, erred>>
    BY <1>4 DEF MediaCommit, Is, pool, hist
  <2>2. req[r].h \in Hash /\ req[r].ty \in Type /\ req[r].h[1] = "opt" /\ req[r].ty = OptMime
    BY <2>1, StorerHash DEF Storers, Early
  <2>3. \A made \in PrepareThumbnail(r) : made \subseteq {<<r, "thumb">>, <<r, "partial">>}
    BY DEF PrepareThumbnail, CreateThumbnail
  <2>4. ASSUME NEW made \in PrepareThumbnail(r), CommitFile(req[r].h, req[r].ty),
               tmp' = Without(r, {"out"}) \cup made, To(r, "insert")
        PROVE  Base'
    <3>1. Rows' /\ Tables'
      BY <2>1, <2>2, <2>4, CommitKeepsRows
    <3>2. tmp' \in SUBSET (Req \X Role)
      <4>1. Without(r, {"out"}) \in SUBSET (Req \X Role)
        OBVIOUS
      <4>2. made \in SUBSET (Req \X Role)
        BY <2>3, <2>4, SMT DEF Role
      <4> QED  BY <2>4, <4>1, <4>2
    <3> DEFINE q == [req[r] EXCEPT !.at = "insert"]
    <3>3. /\ q.at = "insert" /\ q.op = req[r].op /\ q.who = req[r].who /\ q.h = req[r].h
          /\ q.ty = req[r].ty /\ q.todo = req[r].todo /\ q.old = req[r].old
      BY SlotHandler DEF Base, Handler
    <3> HIDE DEF q
    <3>4. Steps(q) /\ Locals(q, sent')
      BY <2>1, <2>2, <3>3, LocalsOf, SMT DEF Steps, Locals, Storers, Early, Known
    <3>5. Steps([req[r] EXCEPT !.at = "insert"]) /\ Locals([req[r] EXCEPT !.at = "insert"], sent')
      BY <3>4 DEF q
    <3> QED  BY <2>1, <2>4, <3>1, <3>2, <3>5, OnwardKeeps DEF Label
  <2>5. ASSUME NEW made \in PrepareThumbnail(r), UNCHANGED file,
               Answer(r, Without(r, {"out"}) \cup (made \ {<<r, "thumb">>}))
        PROVE  Base'
    <3>1. Without(r, {"out"}) \cup (made \ {<<r, "thumb">>}) \in SUBSET (Req \X Role)
      <4>1. Without(r, {"out"}) \in SUBSET (Req \X Role)
        OBVIOUS
      <4>2. made \in SUBSET (Req \X Role)
        BY <2>3, <2>5, SMT DEF Role
      <4> QED  BY <4>1, <4>2
    <3>2. Rows' /\ Tables'
      BY <2>1, <2>5, FewerKeepRows DEF db
    <3> QED  BY <2>1, <2>5, <3>1, <3>2, EndKeeps
  <2> QED  BY <1>4, <2>4, <2>5 DEF MediaCommit
<1>5. CASE UploadInsert(r) \/ MirrorInsert(r) \/ MediaInsert(r)
  <2>1. /\ req[r].op \in Storers /\ req[r].at = "insert" /\ UNCHANGED <<file, count, job, sent, erred>>
        /\ UNCHANGED db \/ InsertBlob(req[r].h, req[r].ty, req[r].who)
        /\ Answer(r, tmp) \/ (To(r, "map") /\ UNCHANGED tmp /\ req[r].op = "media")
    BY <1>5 DEF UploadInsert, MirrorInsert, MediaInsert, Register, Is, pool, Storers
  <2>2. Known(req[r].h, req[r].ty, sent)
    BY <2>1, LocalsOf DEF Locals
  <2>3. Rows' /\ Tables'
    BY <2>1, <2>2, StorerHash, InsertKeepsRows, FewerKeepRows DEF db
  <2>4. CASE Answer(r, tmp)
    BY <2>1, <2>3, <2>4, EndKeeps
  <2>5. CASE To(r, "map") /\ UNCHANGED tmp /\ req[r].op = "media"
    <3>1. Steps([req[r] EXCEPT !.at = "map"]) /\ Locals([req[r] EXCEPT !.at = "map"], sent)
      BY <2>1, <2>5, NextPlaces DEF Early, Label
    <3> QED  BY <2>1, <2>3, <2>5, <3>1, OnwardKeeps DEF Label
  <2> QED  BY <2>1, <2>4, <2>5
<1> QED  BY <1>1, <1>2, <1>3, <1>4, <1>5

LEMMA LinkKeeps ==
    ASSUME Base, NEW r \in Req, MediaLink(r) \/ MediaMap(r) \/ MediaThumbnail(r) \/ MediaNewThumbnail(r)
    PROVE  Base'
<1> USE SameHandlers
<1>1. ASSUME NEW next \in {"own", "thumb"}, NEW kept \in SUBSET (Req \X Role), InsertDerivative(r, next, kept),
             req[r].op = "media", req[r].at \in {"link", "map"}
      PROVE  Base'
  <2>1. UNCHANGED <<row, owners, fresh, thumbs, file, count, job, sent, erred>>
    BY <1>1 DEF InsertDerivative, pool, hist
  <2>2. Rows' /\ Tables'
    BY <2>1, FewerKeepRows
  <2>3. CASE Answer(r, kept)
    BY <2>1, <2>2, <2>3, EndKeeps
  <2>4. CASE ~Answer(r, kept)
    <3>1. To(r, next) /\ UNCHANGED tmp
      BY <1>1, <2>4 DEF InsertDerivative
    <3>2. Steps([req[r] EXCEPT !.at = next]) /\ Locals([req[r] EXCEPT !.at = next], sent)
      BY <1>1, NextPlaces DEF Early, Label
    <3> QED  BY <2>1, <2>2, <3>1, <3>2, OnwardKeeps DEF Label
  <2> QED  BY <2>3, <2>4
<1>2. CASE MediaLink(r) \/ MediaMap(r)
  BY <1>1, <1>2 DEF MediaLink, MediaMap, Is
<1>3. CASE MediaThumbnail(r) \/ MediaNewThumbnail(r)
  <2>1. /\ req[r].op = "media" /\ req[r].at \in {"thumb", "newthumb"} /\ UNCHANGED <<count, job, sent, erred>>
        /\ UNCHANGED <<db, file>> \/ StorePreparedThumbnail(r)
        /\ \/ Answer(r, Without(r, {"thumb"})) \/ Answer(r, Without(r, {"out"}))
           \/ Answer(r, Without(r, {"out"}) \cup {<<r, "partial">>})
    BY <1>3 DEF MediaThumbnail, MediaNewThumbnail, Is, pool
  <2>2. req[r].h \in Hash /\ req[r].h[1] = "opt"
    BY <2>1, StorerHash DEF Storers, Early
  <2>3. Rows' /\ Tables'
    <3>1. CASE UNCHANGED <<db, file>>
      BY <2>1, <3>1, FewerKeepRows DEF db
    <3>2. CASE CommitFile(Thumb(req[r].h), OptMime) /\ UNCHANGED db
      <4>1. OptMime \in Type
        BY NodeAssumption DEF Type
      <4> QED  BY <2>1, <2>2, <3>2, <4>1, KindsOfHash, CommitKeepsRows
    <3>3. CASE /\ CommitFile(Thumb(req[r].h), OptMime) /\ InsertBlobRecord(Thumb(req[r].h), OptMime)
               /\ InsertMediaThumbnail(req[r].h, Thumb(req[r].h))
      BY <2>1, <2>2, <3>3, ThumbnailKeepsRows
    <3> QED  BY <2>1, <3>1, <3>2, <3>3 DEF StorePreparedThumbnail
  <2>4. PICK ts \in SUBSET (Req \X Role) : Answer(r, ts)
    <3>1. Without(r, {"out"}) \cup {<<r, "partial">>} \in SUBSET (Req \X Role)
      BY SMT DEF Role
    <3> QED  BY <2>1, <3>1
  <2> QED  BY <2>1, <2>3, <2>4, EndKeeps
<1> QED  BY <1>2, <1>3

LEMMA ThumbnailsTyped ==
    ASSUME Base, NEW h \in Hash
    PROVE  /\ ThumbnailsOf(h) \in SUBSET (Hash \X Type)
           /\ \A b \in ThumbnailsOf(h) : b = <<Thumb(h), OptMime>>
<1> SUFFICES ASSUME NEW b \in ThumbnailsOf(h)
             PROVE  b \in Hash \X Type /\ b = <<Thumb(h), OptMime>>
  OBVIOUS
<1>1. PICK t \in Hash : <<h, t>> \in thumbs /\ b = <<t, row[t]>>
  BY DEF ThumbnailsOf
<1>2. t = Thumb(h) /\ HasBlob(t)
  BY <1>1 DEF Base, Tables
<1>3. row[t] \in Type /\ row[t] = OptMime
  BY <1>1, <1>2, RowTyped, KindsOfHash DEF Known
<1> QED  BY <1>1, <1>2, <1>3

LEMMA ListedTyped ==
    ASSUME Base, NEW hs \in SUBSET {h \in Hash : HasBlob(h)}
    PROVE  /\ Listed(hs) \in SUBSET (Hash \X Type)
           /\ \A h \in Hash, ty \in Type : <<h, ty>> \in Listed(hs) => Known(h, ty, sent) /\ h \in hs
<1>1. ASSUME NEW b \in Listed(hs)
      PROVE  b \in Hash \X Type /\ b[1] \in hs /\ Known(b[1], b[2], sent)
  <2>1. PICK h \in hs : b = <<h, row[h]>>
    BY DEF Listed
  <2> QED  BY <2>1, RowTyped
<1> QED  BY <1>1

LEMMA RemoveKeeps ==
    ASSUME Base, NEW r \in Req,
           \/ DeleteCheck(r) \/ DeleteDisown(r) \/ DeleteCount(r) \/ AdminCheck(r)
           \/ Drop(r) \/ Unlink(r) \/ Sweep(r) \/ NextBlob(r) \/ ReadServe(r)
    PROVE  Base'
<1> USE SameHandlers
<1>0. Steps(req[r]) /\ Locals(req[r], sent) /\ req[r] \in Handler /\ req[r].op \in Op
  BY LocalsOf, SlotHandler DEF Base
<1>1. CASE DeleteCheck(r)
  <2>1. req[r].op = "delete" /\ req[r].at = "check" /\ UNCHANGED <<db, file, count, job, hist>>
    BY <1>1 DEF DeleteCheck, Is, pool
  <2>2. CASE Answer(r, tmp)
    BY <2>1, <2>2, AnswerKeeps
  <2>3. CASE ~Answer(r, tmp)
    <3> DEFINE q == [req[r] EXCEPT !.at = "disown", !.ty = row[req[r].h]]
    <3>1. HasBlob(req[r].h) /\ UNCHANGED tmp
      BY <1>1, <2>3 DEF DeleteCheck
    <3>2. req' = [req EXCEPT ![r] = q]
      BY <1>1, <2>3 DEF DeleteCheck, Base, TypeOK, GetBlob
    <3>3. req[r].h \in Hash /\ row[req[r].h] \in Type /\ Known(req[r].h, row[req[r].h], sent)
      BY <1>0, <2>1, <3>1, RowTyped DEF Locals
    <3>4. /\ q \in Handler /\ q.op = "delete" /\ q.at = "disown" /\ q.h = req[r].h /\ q.ty = row[req[r].h]
          /\ q.who = req[r].who /\ q.todo = req[r].todo /\ q.old = req[r].old
      BY <1>0, <2>1, <3>3, ZenonT(30) DEF Handler, Label
    <3> HIDE DEF q
    <3>5. Steps(q) /\ Locals(q, sent)
      BY <1>0, <2>1, <3>3, <3>4 DEF Steps, Locals, Storers
    <3> QED  BY <2>1, <3>1, <3>2, <3>4, <3>5, RecordKeeps
  <2> QED  BY <2>2, <2>3
<1>2. ASSUME NEW at \in {"count", "unlink", "sweep"}, NEW from \in {"disown", "drop", "unlink"}, To(r, at),
             req[r].at = from, <<from, at>> \in {<<"disown", "count">>, <<"drop", "unlink">>, <<"unlink", "sweep">>},
             Rows', Tables', UNCHANGED <<tmp, count, job, sent, erred>>
      PROVE  Base'
  <2> DEFINE q == [req[r] EXCEPT !.at = at]
  <2>1. /\ q.at = at /\ q.op = req[r].op /\ q.who = req[r].who /\ q.h = req[r].h
        /\ q.ty = req[r].ty /\ q.todo = req[r].todo /\ q.old = req[r].old
    BY <1>0 DEF Handler
  <2> HIDE DEF q
  <2>2. Steps(q)
    BY <1>0, <1>2, <2>1 DEF Steps, Op, Early
  <2>3. Locals(q, sent')
    BY <1>0, <1>2, <2>1 DEF Locals, Steps, Op, Early, Storers
  <2>4. Steps([req[r] EXCEPT !.at = at]) /\ Locals([req[r] EXCEPT !.at = at], sent')
    BY <2>2, <2>3 DEF q
  <2> QED  BY <1>2, <2>4, OnwardKeeps DEF Label
<1>3. CASE DeleteDisown(r)
  <2>1. /\ To(r, "count") /\ req[r].at = "disown" /\ owners' \subseteq owners
        /\ UNCHANGED <<row, fresh, thumbs, file, tmp, count, job, sent, erred>>
    BY <1>3 DEF DeleteDisown, RemoveOwner, Is, disk, pool, hist
  <2> QED  BY <1>2, <2>1, FewerKeepRows
<1>4. CASE DeleteCount(r)
  <2>1. req[r].op = "delete" /\ req[r].at = "count" /\ UNCHANGED <<db, file, count, job, hist>>
    BY <1>4 DEF DeleteCount, Is, pool
  <2>2. CASE Answer(r, tmp)
    BY <2>1, <2>2, AnswerKeeps
  <2>3. CASE ~Answer(r, tmp)
    <3> DEFINE q == [req[r] EXCEPT !.at = "drop", !.old = ThumbnailsOf(req[r].h)]
    <3>1. UNCHANGED tmp /\ req' = [req EXCEPT ![r] = q]
      BY <1>4, <2>3 DEF DeleteCount, Base, TypeOK
    <3>2. req[r].h \in Hash
      BY <1>0, <2>1 DEF Locals
    <3>3. ThumbnailsOf(req[r].h) \in SUBSET (Hash \X Type) /\ \A b \in ThumbnailsOf(req[r].h) : b = <<Thumb(req[r].h), OptMime>>
      BY <3>2, ThumbnailsTyped
    <3>4. /\ q \in Handler /\ q.op = "delete" /\ q.at = "drop" /\ q.h = req[r].h /\ q.ty = req[r].ty
          /\ q.who = req[r].who /\ q.todo = req[r].todo /\ q.old = ThumbnailsOf(req[r].h)
      BY <1>0, <2>1, <3>3, ZenonT(30) DEF Handler, Label
    <3> HIDE DEF q
    <3>5. Steps(q) /\ Locals(q, sent)
      BY <1>0, <2>1, <3>3, <3>4 DEF Steps, Locals, Storers
    <3> QED  BY <2>1, <3>1, <3>4, <3>5, RecordKeeps
  <2> QED  BY <2>2, <2>3
<1>5. CASE AdminCheck(r)
  <2> DEFINE ty == IF HasBlob(req[r].h) THEN row[req[r].h] ELSE NoType
             q == [req[r] EXCEPT !.at = "drop", !.ty = ty]
  <2>1. /\ req[r].op = "admin" /\ req[r].at = "check" /\ UNCHANGED <<db, file, count, job, hist, tmp>>
        /\ req' = [req EXCEPT ![r] = q]
    BY <1>5 DEF AdminCheck, Is, pool, disk, Base, TypeOK
  <2>2. req[r].h \in Hash /\ ty \in Type
    BY <1>0, <2>1, RowTyped DEF Locals, Type
  <2>3. /\ q \in Handler /\ q.op = "admin" /\ q.at = "drop" /\ q.h = req[r].h /\ q.ty = ty
        /\ q.who = req[r].who /\ q.todo = req[r].todo /\ q.old = req[r].old
    BY <1>0, <2>1, <2>2, ZenonT(30) DEF Handler, Label
  <2> HIDE DEF q, ty
  <2>4. Steps(q) /\ Locals(q, sent)
    BY <1>0, <2>1, <2>2, <2>3 DEF Steps, Locals, Storers
  <2> QED  BY <2>1, <2>3, <2>4, RecordKeeps
<1>6. CASE Drop(r)
  <2>1. /\ To(r, "unlink") /\ req[r].at = "drop" /\ DeleteBlobs({req[r].h})
        /\ UNCHANGED <<file, tmp, count, job, sent, erred>>
    BY <1>6 DEF Drop, disk, pool, hist
  <2> QED  BY <1>2, <2>1, DeleteKeepsRows
<1>7. CASE Unlink(r)
  <2>1. /\ To(r, "sweep") /\ req[r].at = "unlink" /\ file' \subseteq file
        /\ UNCHANGED <<row, owners, fresh, thumbs, tmp, count, job, sent, erred>>
    BY <1>7 DEF Unlink, RemoveFile, db, pool
  <2> QED  BY <1>2, <2>1, FewerKeepRows
<1>8. CASE Sweep(r)
  <2>1. /\ req[r].at = "sweep" /\ DeleteBlobs({t[1] : t \in req[r].old}) /\ file' \subseteq file
        /\ UNCHANGED <<count, job, sent, erred>>
    BY <1>8 DEF Sweep, pool, hist
  <2>2. Rows' /\ Tables'
    BY <2>1, DeleteKeepsRows
  <2>3. CASE Answer(r, tmp)
    BY <2>1, <2>2, <2>3, EndKeeps
  <2>4. CASE ~Answer(r, tmp)
    <3> DEFINE q == [req[r] EXCEPT !.at = "loop", !.old = {}]
    <3>1. UNCHANGED tmp /\ req' = [req EXCEPT ![r] = q] /\ req[r].op \notin {"delete", "admin"}
      BY <1>8, <2>4 DEF Sweep, Base, TypeOK
    <3>2. /\ q \in Handler /\ q.op = req[r].op /\ q.at = "loop" /\ q.h = req[r].h /\ q.ty = req[r].ty
          /\ q.who = req[r].who /\ q.todo = req[r].todo /\ q.old = {}
      BY <1>0 DEF Handler, Label
    <3> HIDE DEF q
    <3>3. req[r].op \in {"user", "prune"}
      BY <1>0, <2>1, <3>1 DEF Steps, Op, Early
    <3>4. Steps(q) /\ Locals(q, sent')
      BY <1>0, <2>1, <3>2, <3>3 DEF Steps, Locals, Storers
    <3>5. req' \in [Req -> Handler] /\ req'[r] = q /\ \A s \in Req \ {r} : req'[s] = req[s]
      BY <3>1, <3>2, Others DEF Base
    <3> QED  BY <2>1, <2>2, <3>1, <3>4, <3>5, StepKeeps DEF Base, TypeOK
  <2> QED  BY <2>3, <2>4
<1>9. CASE NextBlob(r)
  <2>1. req[r].at = "loop" /\ UNCHANGED <<db, file, count, job, hist>> /\ req[r].op \in {"user", "prune"}
    BY <1>0, <1>9 DEF NextBlob, pool, Steps, Op, Early
  <2>2. CASE Answer(r, tmp)
    BY <2>1, <2>2, AnswerKeeps
  <2>3. CASE ~Answer(r, tmp)
    <3>1. PICK b \in req[r].todo :
            /\ req' = [req EXCEPT ![r].at = "drop", ![r].todo = @ \ {b}, ![r].h = b[1], ![r].ty = b[2],
                          ![r].old = IF req[r].op = "prune" THEN ThumbnailsOf(b[1]) ELSE {}]
            /\ UNCHANGED tmp
      BY <1>9, <2>3 DEF NextBlob
    <3> DEFINE old == IF req[r].op = "prune" THEN ThumbnailsOf(b[1]) ELSE {}
               q == [req[r] EXCEPT !.at = "drop", !.todo = req[r].todo \ {b}, !.h = b[1], !.ty = b[2], !.old = old]
    <3>2. req' = [req EXCEPT ![r] = q]
      BY <3>1 DEF Base, TypeOK
    <3>3. b[1] \in Hash /\ b[2] \in Type /\ b = <<b[1], b[2]>> /\ Known(b[1], b[2], sent)
      <4>1. b \in Hash \X Type
        BY <3>1, SlotHandler DEF Base
      <4> QED  BY <1>0, <3>1, <4>1, SMT DEF Locals
    <3>4. old \in SUBSET (Hash \X Type) /\ \A u \in old : u = <<Thumb(b[1]), OptMime>>
      BY <3>3, ThumbnailsTyped
    <3> HIDE DEF old
    <3>5. /\ q \in Handler /\ q.op = req[r].op /\ q.at = "drop" /\ q.h = b[1] /\ q.ty = b[2]
          /\ q.who = req[r].who /\ q.todo \subseteq req[r].todo /\ q.old = old
      <4>1. req[r].todo \ {b} \in SUBSET (Hash \X Type) /\ "drop" \in Label
        BY SlotHandler DEF Base, Label
      <4> QED  BY <1>0, <3>3, <3>4, <4>1 DEF Handler
    <3> HIDE DEF q
    <3>6. Steps(q) /\ Locals(q, sent)
      BY <1>0, <2>1, <3>3, <3>4, <3>5 DEF Steps, Locals, Storers
    <3> QED  BY <2>1, <3>1, <3>2, <3>5, <3>6, RecordKeeps
  <2> QED  BY <2>2, <2>3
<1>10. CASE ReadServe(r)
  <2>1. /\ Answer(r, tmp) /\ UNCHANGED <<row, owners, thumbs, file, count, job, sent, erred>>
        /\ req[r].at = "serve" /\ (TouchBlob(req[r].h) \/ UNCHANGED fresh)
    BY <1>10 DEF ReadServe, Is, pool
  <2>2. fresh' \subseteq fresh \cup {h \in Hash : HasBlob(h)}
    BY <1>0, <2>1 DEF TouchBlob, Locals
  <2>3. Rows' /\ Tables'
    BY <2>1, <2>2, FewerKeepRows
  <2> QED  BY <2>1, <2>3, EndKeeps
<1> QED  BY <1>1, <1>3, <1>4, <1>5, <1>6, <1>7, <1>8, <1>9, <1>10

LEMMA StartKeeps ==
    ASSUME Base, NEW r \in Req, NEW q \in Handler, req' = [req EXCEPT ![r] = q],
           UNCHANGED <<db, disk, pool, hist>>, q.h \in Hash, q.todo = {}, q.old = {},
           \/ q.op = "upload" /\ q.at \in {"dedup", "begin"}
           \/ q.op \in {"mirror", "media"} /\ q.at = "begin"
           \/ q.op \in {"delete", "admin"} /\ q.at = "check"
           \/ q.op = "read" /\ q.at = "serve",
           q.op \in Storers => q.h[1] = "in" /\ q.ty \in Type /\ q.who \in Pubkey,
           q.op = "media" => q.ty = OptMime, q.op = "delete" => q.who \in Pubkey
    PROVE  Base'
<1>1. UNCHANGED <<db, file, tmp, count, job, hist>>
  BY DEF disk, pool
<1>2. Steps(q) /\ Locals(q, sent)
  BY DEF Steps, Locals, Storers, Early
<1> QED  BY <1>1, <1>2, SameHandlers, RecordKeeps

LEMMA LoopKeeps ==
    ASSUME Base, NEW r \in Req, NEW q \in Handler, req' = [req EXCEPT ![r] = q],
           UNCHANGED <<db, disk, pool, hist>>, NEW hs \in SUBSET {h \in Hash : HasBlob(h)},
           q.op \in {"user", "prune"}, q.at = "loop", q.todo = Listed(hs), q.old = {}
    PROVE  Base'
<1>1. UNCHANGED <<db, file, tmp, count, job, hist>>
  BY DEF disk, pool
<1>2. Steps(q) /\ Locals(q, sent)
  BY ListedTyped, SMT DEF Steps, Locals, Storers, Early
<1> QED  BY <1>1, <1>2, SameHandlers, RecordKeeps

LEMMA SubmitKeeps ==
    ASSUME Base, NEW r \in Req, Submit(r)
    PROVE  Base'
<1>0. OptMime \in Type
  BY NodeAssumption DEF Type
<1>1. ASSUME NEW p \in Pubkey, NEW o \in Original, NEW ty \in Type, NEW dec \in BOOLEAN, SubmitUpload(r, p, o, ty, dec)
      PROVE  Base'
  <2>0. PICK at \in {"dedup", "begin"} : at = IF dec THEN "dedup" ELSE "begin"
    OBVIOUS
  <2> DEFINE q == [Idle EXCEPT !.op = "upload", !.at = at, !.who = p, !.h = <<"in", o>>, !.ty = ty, !.dec = dec]
  <2>1. req' = [req EXCEPT ![r] = q] /\ UNCHANGED <<db, disk, pool, hist>>
    BY <1>1, <2>0 DEF SubmitUpload, Start
  <2>2. /\ q \in Handler /\ q.op = "upload" /\ q.at = at /\ q.who = p /\ q.h = <<"in", o>> /\ q.ty = ty
        /\ q.todo = {} /\ q.old = {}
    BY <1>1, <1>0, <2>0 DEF Idle, Handler, Op, Label, Hash
  <2> HIDE DEF q
  <2>3. q.h \in Hash /\ (q.op \in Storers => q.h[1] = "in" /\ q.ty \in Type /\ q.who \in Pubkey)
    BY <1>1, <1>0, <2>1, <2>2, <2>0, SMT DEF Storers, Hash
  <2> QED  BY <1>1, <1>0, <2>1, <2>2, <2>0, <2>3, StartKeeps DEF Storers
<1>2. ASSUME NEW p \in Pubkey, NEW o \in Original, NEW ty \in Type, SubmitMirror(r, p, o, ty)
      PROVE  Base'
  <2> DEFINE q == [Idle EXCEPT !.op = "mirror", !.at = "begin", !.who = p, !.h = <<"in", o>>, !.ty = ty, !.dec = FALSE]
  <2>1. req' = [req EXCEPT ![r] = q] /\ UNCHANGED <<db, disk, pool, hist>>
    BY <1>2 DEF SubmitMirror, Start
  <2>2. /\ q \in Handler /\ q.op = "mirror" /\ q.at = "begin" /\ q.who = p /\ q.h = <<"in", o>> /\ q.ty = ty
        /\ q.todo = {} /\ q.old = {}
    BY <1>2, <1>0 DEF Idle, Handler, Op, Label, Hash
  <2> HIDE DEF q
  <2>3. q.h \in Hash /\ (q.op \in Storers => q.h[1] = "in" /\ q.ty \in Type /\ q.who \in Pubkey)
    BY <1>2, <1>0, <2>1, <2>2, SMT DEF Storers, Hash
  <2> QED  BY <1>2, <1>0, <2>1, <2>2, <2>3, StartKeeps DEF Storers
<1>3. ASSUME NEW p \in Pubkey, NEW o \in Original, SubmitMedia(r, p, o)
      PROVE  Base'
  <2> DEFINE q == [Idle EXCEPT !.op = "media", !.at = "begin", !.who = p, !.h = <<"in", o>>, !.ty = OptMime, !.dec = FALSE]
  <2>1. req' = [req EXCEPT ![r] = q] /\ UNCHANGED <<db, disk, pool, hist>>
    BY <1>3 DEF SubmitMedia, Start
  <2>2. /\ q \in Handler /\ q.op = "media" /\ q.at = "begin" /\ q.who = p /\ q.h = <<"in", o>> /\ q.ty = OptMime
        /\ q.todo = {} /\ q.old = {}
    BY <1>3, <1>0 DEF Idle, Handler, Op, Label, Hash
  <2> HIDE DEF q
  <2>3. q.h \in Hash /\ (q.op \in Storers => q.h[1] = "in" /\ q.ty \in Type /\ q.who \in Pubkey)
    BY <1>3, <1>0, <2>1, <2>2, SMT DEF Storers, Hash
  <2> QED  BY <1>3, <1>0, <2>1, <2>2, <2>3, StartKeeps DEF Storers
<1>4. ASSUME NEW p \in Pubkey, NEW h \in Hash, SubmitDelete(r, p, h)
      PROVE  Base'
  <2> DEFINE q == [Idle EXCEPT !.op = "delete", !.at = "check", !.who = p, !.h = h, !.ty = Absent, !.dec = FALSE]
  <2>1. req' = [req EXCEPT ![r] = q] /\ UNCHANGED <<db, disk, pool, hist>>
    BY <1>4 DEF SubmitDelete, Start
  <2>2. /\ q \in Handler /\ q.op = "delete" /\ q.at = "check" /\ q.who = p /\ q.h = h /\ q.ty = Absent
        /\ q.todo = {} /\ q.old = {}
    BY <1>4, <1>0 DEF Idle, Handler, Op, Label, Hash
  <2> HIDE DEF q
  <2>3. q.h \in Hash /\ (q.op \in Storers => q.h[1] = "in" /\ q.ty \in Type /\ q.who \in Pubkey)
    BY <1>4, <1>0, <2>1, <2>2 DEF Storers, Hash
  <2> QED  BY <1>4, <1>0, <2>1, <2>2, <2>3, StartKeeps DEF Storers
<1>5. ASSUME NEW h \in Hash, SubmitAdminDelete(r, h)
      PROVE  Base'
  <2> DEFINE q == [Idle EXCEPT !.op = "admin", !.at = "check", !.who = Absent, !.h = h, !.ty = Absent, !.dec = FALSE]
  <2>1. req' = [req EXCEPT ![r] = q] /\ UNCHANGED <<db, disk, pool, hist>>
    BY <1>5 DEF SubmitAdminDelete, Start
  <2>2. /\ q \in Handler /\ q.op = "admin" /\ q.at = "check" /\ q.who = Absent /\ q.h = h /\ q.ty = Absent
        /\ q.todo = {} /\ q.old = {}
    BY <1>5, <1>0 DEF Idle, Handler, Op, Label, Hash
  <2> HIDE DEF q
  <2>3. q.h \in Hash /\ (q.op \in Storers => q.h[1] = "in" /\ q.ty \in Type /\ q.who \in Pubkey)
    BY <1>5, <1>0, <2>1, <2>2 DEF Storers, Hash
  <2> QED  BY <1>5, <1>0, <2>1, <2>2, <2>3, StartKeeps DEF Storers
<1>6. ASSUME NEW h \in Hash, SubmitRead(r, h)
      PROVE  Base'
  <2>0. row[h] \in Type
    BY <1>6, RowTyped DEF SubmitRead
  <2> DEFINE q == [Idle EXCEPT !.op = "read", !.at = "serve", !.who = Absent, !.h = h, !.ty = row[h], !.dec = FALSE]
  <2>1. req' = [req EXCEPT ![r] = q] /\ UNCHANGED <<db, disk, pool, hist>>
    BY <1>6, <2>0 DEF SubmitRead, Start
  <2>2. /\ q \in Handler /\ q.op = "read" /\ q.at = "serve" /\ q.who = Absent /\ q.h = h /\ q.ty = row[h]
        /\ q.todo = {} /\ q.old = {}
    BY <1>6, <1>0, <2>0 DEF Idle, Handler, Op, Label, Hash
  <2> HIDE DEF q
  <2>3. q.h \in Hash /\ (q.op \in Storers => q.h[1] = "in" /\ q.ty \in Type /\ q.who \in Pubkey)
    BY <1>6, <1>0, <2>1, <2>2, <2>0 DEF Storers, Hash
  <2> QED  BY <1>6, <1>0, <2>1, <2>2, <2>0, <2>3, StartKeeps DEF Storers
<1>7. ASSUME NEW p \in Pubkey, SubmitAdminUser(r, p)
      PROVE  Base'
  <2> DEFINE hs == {h \in Hash : IsOwner(h, p)}
             q == [Idle EXCEPT !.op = "user", !.at = "loop", !.who = p, !.todo = Listed(hs)]
  <2>1. hs \in SUBSET {h \in Hash : HasBlob(h)}
    BY DEF IsOwner, Base, Tables
  <2>2. req' = [req EXCEPT ![r] = q] /\ UNCHANGED <<db, disk, pool, hist>>
    BY <1>7 DEF SubmitAdminUser
  <2> HIDE DEF hs
  <2>3. q \in Handler /\ q.op = "user" /\ q.at = "loop" /\ q.todo = Listed(hs) /\ q.old = {}
    BY <2>1, ListedTyped DEF Idle, Handler, Op, Label
  <2> HIDE DEF q
  <2> QED  BY <2>1, <2>2, <2>3, LoopKeeps
<1>8. CASE SubmitPrune(r)
  <2>1. PICK found \in {Expired(rule) : rule \in Rules} \cup {Ownerless} :
          /\ req' = [req EXCEPT ![r] = [Idle EXCEPT !.op = "prune", !.at = "loop", !.todo = Listed(found)]]
          /\ UNCHANGED <<db, disk, pool, hist>>
    BY <1>8 DEF SubmitPrune
  <2>2. found \in SUBSET {h \in Hash : HasBlob(h)}
    BY <2>1 DEF Expired, Ownerless
  <2> DEFINE q == [Idle EXCEPT !.op = "prune", !.at = "loop", !.todo = Listed(found)]
  <2>3. q \in Handler /\ q.op = "prune" /\ q.at = "loop" /\ q.todo = Listed(found) /\ q.old = {}
    BY <2>2, ListedTyped DEF Idle, Handler, Op, Label
  <2>4. req' = [req EXCEPT ![r] = q]
    BY <2>1
  <2> HIDE DEF q
  <2> QED  BY <2>1, <2>2, <2>3, <2>4, LoopKeeps
<1> QED  BY <1>1, <1>2, <1>3, <1>4, <1>5, <1>6, <1>7, <1>8 DEF Submit

LEMMA EventsKeep ==
    ASSUME Base, \/ \E w \in Worker : WorkerError(w)
                 \/ \E h \in Hash : Age(h)
                 \/ Crash
    PROVE  Base'
<1>1. ASSUME NEW w \in Worker, WorkerError(w)
      PROVE  Base'
  <2>1. UNCHANGED <<db, file, tmp, req, sent>> /\ erred' \in SUBSET Worker
    BY <1>1 DEF WorkerError, disk, Base, TypeOK
  <2>2. count' \in [Worker -> Int]
    BY <1>1, SMT DEF WorkerError, Base, TypeOK
  <2>3. job' \in [Req -> Worker \cup {Absent}]
    BY <1>1 DEF WorkerError, Base, TypeOK
  <2>4. Rows' /\ Tables'
    BY <2>1, FewerKeepRows DEF db
  <2> QED  BY <2>1, <2>2, <2>3, <2>4 DEF Base, TypeOK, Shaped
<1>2. ASSUME NEW h \in Hash, Age(h)
      PROVE  Base'
  <2>1. UNCHANGED <<row, owners, thumbs, file, tmp, count, job, req, sent, erred>> /\ fresh' \subseteq fresh
    BY <1>2 DEF Age, disk, pool, hist
  <2>2. Rows' /\ Tables'
    BY <2>1, FewerKeepRows
  <2> QED  BY <2>1, <2>2 DEF Base, TypeOK, Shaped
<1>3. CASE Crash
  <2>1. /\ UNCHANGED <<db, file, sent>> /\ tmp' = {} /\ erred' = {} /\ req' = [r \in Req |-> Idle]
        /\ job' = [r \in Req |-> Absent] /\ count' = [w \in Worker |-> 0]
    BY <1>3 DEF Crash
  <2>2. Rows' /\ Tables'
    BY <2>1, FewerKeepRows DEF db
  <2>3. TypeOK'
    BY <2>1, <2>2, IdleFits, SMT DEF TypeOK
  <2>4. Shaped'
    BY <2>1, IdleFits DEF Shaped
  <2> QED  BY <2>2, <2>3, <2>4 DEF Base
<1> QED  BY <1>1, <1>2, <1>3

LEMMA ServeKeeps ==
    ASSUME Base, NEW r \in Req, Serve(r)
    PROVE  Base'
BY BodyKeeps, LookupKeeps, StoreKeeps, LinkKeeps, RemoveKeeps DEF Serve

LEMMA StepKeepsBase ==
    ASSUME Base, [Next]_vars
    PROVE  Base'
<1>1. CASE UNCHANGED vars
  <2>1. UNCHANGED <<row, owners, fresh, thumbs, file, tmp, count, job, req, sent, erred>>
    BY <1>1 DEF vars, db, disk, pool, hist
  <2>2. Rows' /\ Tables'
    BY <2>1, FewerKeepRows
  <2> QED  BY <2>1, <2>2 DEF Base, TypeOK, Shaped
<1>2. CASE Next
  BY <1>2, SubmitKeeps, ServeKeeps, EventsKeep DEF Next
<1> QED  BY <1>1, <1>2

LEMMA AlwaysBase == Spec => []Base
<1>1. ASSUME Init
      PROVE  Base
  <2>1. TypeOK
    BY <1>1, IdleFits, SMT DEF Init, TypeOK, Rows
  <2>2. Tables
    BY <1>1 DEF Init, Tables, HasBlob
  <2>3. Shaped
    BY <1>1, IdleFits DEF Init, Shaped
  <2> QED  BY <2>1, <2>2, <2>3 DEF Base
<1> QED  BY <1>1, StepKeepsBase, PTL DEF Spec

-----------------------------------------------------------------------------
(* Temporary files.                                                        *)

\* The temporary files a handler may have at a step.
Holds(op, at, x) ==
    \/ x = "in" /\ \/ op \in Storers /\ at \in {"dispatch", "await", "hashed"}
                   \/ op \in {"upload", "mirror"} /\ at = "commit"
                   \/ op = "mirror" /\ at = "dedup"
                   \/ op = "media" /\ at \in {"deriv", "optimize"}
    \/ /\ x = "out" /\ op = "media"
       /\ at \in {"rehash", "hasopt", "getopt", "link", "own", "newthumb", "commit"}
    \/ x \in {"thumb", "partial"} /\ op = "media" /\ at \in {"insert", "map", "thumb"}

Temporaries == \A r \in Req, x \in Role : <<r, x>> \in tmp => Holds(req[r].op, req[r].at, x)

\* What may stay behind when a request is answered.
MayLeave(op, at, x) ==
    op = "media" /\ \/ <<at, x>> \in {<<"optimize", "in">>, <<"rehash", "out">>, <<"insert", "thumb">>, <<"map", "thumb">>}
                    \/ x = "partial"
LeftOK == \A t \in left :
            /\ t[1] \in {"media", "crash"}
            /\ t[1] = "media" => \/ <<t[2], t[3]>> \in {<<"optimize", "in">>, <<"rehash", "out">>,
                                                         <<"insert", "thumb">>, <<"map", "thumb">>}
                                 \/ t[3] = "partial"
Tidy == Temporaries /\ LeftOK

LEMMA ServeMovesOne ==
    ASSUME Base, NEW r \in Req, Serve(r)
    PROVE  \A s \in Req \ {r} : req'[s] = req[s]
<1>1. ASSUME NEW at, To(r, at)
      PROVE  \A s \in Req \ {r} : req'[s] = req[s]
  BY <1>1 DEF To, Base, TypeOK
<1>2. ASSUME NEW ts, Answer(r, ts)
      PROVE  \A s \in Req \ {r} : req'[s] = req[s]
  BY <1>2, AnswerEnds DEF Base
<1>3. CASE \/ UploadDedup(r) \/ UploadFound(r) \/ MirrorFound(r) \/ MediaMapped(r) \/ MediaGetOptimized(r)
           \/ AdminCheck(r)
  BY <1>1, <1>3 DEF UploadDedup, UploadFound, MirrorFound, Found, MediaMapped, MediaGetOptimized, AdminCheck,
     Base, TypeOK
<1>4. CASE DeleteCheck(r) \/ DeleteCount(r) \/ Sweep(r) \/ NextBlob(r) \/ MediaOptimize(r)
  BY <1>2, <1>4 DEF DeleteCheck, DeleteCount, Sweep, NextBlob, MediaOptimize, Base, TypeOK
<1>5. CASE \/ UploadAdopt(r) \/ MirrorAdopt(r) \/ MediaAdopt(r) \/ UploadInsert(r) \/ MirrorInsert(r)
           \/ MediaInsert(r) \/ MediaThumbnail(r) \/ MediaNewThumbnail(r) \/ ReadServe(r) \/ Drop(r) \/ Unlink(r)
           \/ DeleteDisown(r) \/ MediaOwn(r) \/ MediaHasOptimized(r) \/ MirrorDedup(r) \/ MediaLookup(r)
  BY <1>1, <1>2, <1>5 DEF UploadAdopt, MirrorAdopt, MediaAdopt, UploadInsert, MirrorInsert, Register, MediaInsert,
     MediaThumbnail, MediaNewThumbnail, ReadServe, Drop, Unlink, DeleteDisown, MediaOwn, MediaHasOptimized,
     MirrorDedup, MediaLookup
<1>6. CASE \/ UploadBegin(r) \/ MirrorBegin(r) \/ MediaBegin(r) \/ Dispatch(r) \/ JobDone(r)
           \/ UploadHashed(r) \/ MirrorHashed(r) \/ MediaHashed(r) \/ MediaRehash(r)
           \/ UploadCommit(r) \/ MirrorCommit(r) \/ MediaCommit(r) \/ MediaLink(r) \/ MediaMap(r)
  BY <1>1, <1>2, <1>6 DEF UploadBegin, MirrorBegin, MediaBegin, Busy, MirrorFetch, BeginWrite, Dispatch, JobDone,
     HandleJob, AbortWrite, UploadHashed, MirrorHashed, MediaHashed, MediaRehash, UploadCommit, MirrorCommit,
     CommitWrite, MediaCommit, MediaLink, MediaMap, InsertDerivative
<1> QED  BY <1>3, <1>4, <1>5, <1>6 DEF Serve

LEMMA MoveTidy ==
    ASSUME Base, Tidy, NEW r \in Req, UNCHANGED left, \A s \in Req \ {r} : req'[s] = req[s],
           \A t \in tmp' : t[1] = r \/ t \in tmp,
           \A x \in Role : <<r, x>> \in tmp' => Holds(req'[r].op, req'[r].at, x)
    PROVE  Tidy'
<1>1. Temporaries'
  <2> SUFFICES ASSUME NEW s \in Req, NEW x \in Role, <<s, x>> \in tmp'
               PROVE  Holds(req'[s].op, req'[s].at, x)
    BY DEF Temporaries
  <2>1. CASE s = r
    BY <2>1
  <2>2. CASE s # r
    BY <2>2 DEF Tidy, Temporaries
  <2> QED  BY <2>1, <2>2
<1>2. LeftOK'
  BY DEF Tidy, LeftOK
<1> QED  BY <1>1, <1>2 DEF Tidy

LEMMA ToTidy ==
    ASSUME Base, Tidy, NEW r \in Req, NEW at \in Label, To(r, at), UNCHANGED <<tmp, left>>,
           \A x \in Role : Holds(req[r].op, req[r].at, x) => Holds(req[r].op, at, x)
    PROVE  Tidy'
<1>1. /\ \A s \in Req \ {r} : req'[s] = req[s]
      /\ req'[r].at = at /\ req'[r].op = req[r].op
  BY ToMoves DEF Base
<1>2. \A x \in Role : <<r, x>> \in tmp' => Holds(req'[r].op, req'[r].at, x)
  BY <1>1 DEF Tidy, Temporaries
<1> QED  BY <1>1, <1>2, MoveTidy

LEMMA AnswerTidy ==
    ASSUME Base, Tidy, NEW r \in Req, NEW ts \in SUBSET (Req \X Role), Answer(r, ts),
           \A t \in ts : t[1] = r \/ t \in tmp,
           \A x \in Role : <<r, x>> \in ts => MayLeave(req[r].op, req[r].at, x)
    PROVE  Tidy'
<1>1. /\ \A s \in Req \ {r} : req'[s] = req[s]
      /\ tmp' = {t \in ts : t[1] # r}
      /\ left' = {<<req[r].op, req[r].at, t[2]>> : t \in {u \in ts : u[1] = r}}
  BY AnswerEnds DEF Base, Answer
<1>2. Temporaries'
  <2> SUFFICES ASSUME NEW s \in Req, NEW x \in Role, <<s, x>> \in tmp'
               PROVE  Holds(req'[s].op, req'[s].at, x)
    BY DEF Temporaries
  <2>1. s # r /\ <<s, x>> \in tmp
    BY <1>1
  <2> QED  BY <1>1, <2>1 DEF Tidy, Temporaries
<1>3. LeftOK'
  <2> SUFFICES ASSUME NEW t \in left'
               PROVE  /\ t[1] = "media"
                      /\ \/ <<t[2], t[3]>> \in {<<"optimize", "in">>, <<"rehash", "out">>,
                                                <<"insert", "thumb">>, <<"map", "thumb">>}
                         \/ t[3] = "partial"
    BY DEF LeftOK
  <2>1. PICK u \in ts : u[1] = r /\ t = <<req[r].op, req[r].at, u[2]>>
    BY <1>1
  <2>2. u[2] \in Role /\ u = <<r, u[2]>>
    BY <2>1, SMT
  <2>3. MayLeave(req[r].op, req[r].at, u[2])
    BY <2>1, <2>2
  <2>4. t[1] = req[r].op /\ t[2] = req[r].at /\ t[3] = u[2]
    BY <2>1
  <2> QED  BY <2>3, <2>4 DEF MayLeave
<1> QED  BY <1>2, <1>3 DEF Tidy

\* A handler that ends without its body, and one that ends as it is.
LEMMA AbortTidy ==
    ASSUME Base, Tidy, NEW r \in Req, NEW role \in Role, Answer(r, Without(r, {role})),
           \A x \in Role \ {role} : Holds(req[r].op, req[r].at, x) => MayLeave(req[r].op, req[r].at, x)
    PROVE  Tidy'
<1>1. Without(r, {role}) \in SUBSET (Req \X Role) /\ \A t \in Without(r, {role}) : t \in tmp
  BY SameHandlers DEF Without
<1>2. \A x \in Role : <<r, x>> \in Without(r, {role}) => x # role /\ <<r, x>> \in tmp
  BY DEF Without
<1>3. \A x \in Role : <<r, x>> \in Without(r, {role}) => MayLeave(req[r].op, req[r].at, x)
  BY <1>2 DEF Tidy, Temporaries
<1> QED  BY <1>1, <1>3, AnswerTidy

LEMMA EndTidy ==
    ASSUME Base, Tidy, NEW r \in Req, Answer(r, tmp),
           \A x \in Role : Holds(req[r].op, req[r].at, x) => MayLeave(req[r].op, req[r].at, x)
    PROVE  Tidy'
<1>1. \A x \in Role : <<r, x>> \in tmp => MayLeave(req[r].op, req[r].at, x)
  BY DEF Tidy, Temporaries
<1> QED  BY <1>1, SameHandlers, AnswerTidy

LEMMA BodyTidy ==
    ASSUME Base, Tidy, NEW r \in Req,
           \/ UploadBegin(r) \/ MirrorBegin(r) \/ MediaBegin(r) \/ Dispatch(r) \/ JobDone(r)
           \/ UploadHashed(r) \/ MirrorHashed(r) \/ MediaHashed(r)
    PROVE  Tidy'
<1>1. CASE UploadBegin(r) \/ MirrorBegin(r) \/ MediaBegin(r)
  <2>1. req[r].at = "begin" /\ req[r].op \in Storers /\ (Answer(r, tmp) \/ BeginWrite(r))
    BY <1>1 DEF UploadBegin, MirrorBegin, MediaBegin, MirrorFetch, Busy, Is, Storers
  <2>2. CASE Answer(r, tmp)
    BY <2>1, <2>2, EndTidy DEF Holds
  <2>3. CASE BeginWrite(r)
    <3>1. tmp' = tmp \cup {<<r, "in">>} /\ UNCHANGED left /\ To(r, "dispatch")
      BY <2>3 DEF BeginWrite
    <3>2. /\ \A s \in Req \ {r} : req'[s] = req[s]
          /\ req'[r].at = "dispatch" /\ req'[r].op = req[r].op
      BY <3>1, ToMoves DEF Base, Label
    <3>3. \A x \in Role : <<r, x>> \in tmp' => x = "in"
      BY <2>1, <3>1 DEF Tidy, Temporaries, Holds
    <3>4. \A x \in Role : <<r, x>> \in tmp' => Holds(req'[r].op, req'[r].at, x)
      BY <2>1, <3>2, <3>3 DEF Holds
    <3>5. \A t \in tmp' : t[1] = r \/ t \in tmp
      BY <3>1, SMT
    <3> QED  BY <3>1, <3>2, <3>4, <3>5, MoveTidy
  <2> QED  BY <2>1, <2>2, <2>3
<1>2. CASE Dispatch(r) \/ JobDone(r)
  <2>1. /\ req[r].at \in {"dispatch", "await"}
        /\ Answer(r, Without(r, {"in"})) \/ \E at \in {"await", "hashed"} : To(r, at) /\ UNCHANGED <<tmp, left>>
    BY <1>2 DEF Dispatch, JobDone, HandleJob, AbortWrite
  <2>2. CASE Answer(r, Without(r, {"in"}))
    BY <2>1, <2>2, AbortTidy DEF Holds, Role
  <2>3. ASSUME NEW at \in {"await", "hashed"}, To(r, at), UNCHANGED <<tmp, left>>
        PROVE  Tidy'
    <3>1. \A x \in Role : Holds(req[r].op, req[r].at, x) => Holds(req[r].op, at, x)
      BY <2>1, <2>3 DEF Holds
    <3>2. at \in Label
      BY DEF Label
    <3> QED  BY <2>3, <3>1, <3>2, ToTidy, SMT
  <2> QED  BY <2>1, <2>2, <2>3
<1>3. CASE UploadHashed(r) \/ MirrorHashed(r) \/ MediaHashed(r)
  <2>1. req[r].at = "hashed"
    BY <1>3 DEF UploadHashed, MirrorHashed, MediaHashed, Is
  <2>2. CASE AbortWrite(r)
    BY <2>1, <2>2, AbortTidy DEF AbortWrite, Holds, Role
  <2>3. CASE ~AbortWrite(r)
    <3>1. /\ UNCHANGED <<tmp, left>>
          /\ \/ req[r].op = "upload" /\ To(r, "commit")
             \/ req[r].op = "mirror" /\ To(r, "dedup")
             \/ req[r].op = "media" /\ To(r, "deriv")
      BY <1>3, <2>3 DEF UploadHashed, MirrorHashed, MediaHashed, Is
    <3>2. PICK at \in {"commit", "dedup", "deriv"} :
            To(r, at) /\ \A x \in Role : Holds(req[r].op, req[r].at, x) => Holds(req[r].op, at, x)
      BY <2>1, <3>1 DEF Holds
    <3> QED  BY <3>1, <3>2, ToTidy, SMT DEF Label
  <2> QED  BY <2>2, <2>3
<1> QED  BY <1>1, <1>2, <1>3

LEMMA LookupTidy ==
    ASSUME Base, Tidy, NEW r \in Req,
           \/ UploadDedup(r) \/ UploadFound(r) \/ MirrorFound(r) \/ MirrorDedup(r) \/ MediaLookup(r)
           \/ MediaMapped(r) \/ MediaHasOptimized(r) \/ MediaGetOptimized(r)
    PROVE  Tidy'
<1>0. req[r] \in Handler
  BY SlotHandler DEF Base
<1>1. CASE UploadDedup(r) \/ UploadFound(r) \/ MirrorFound(r) \/ MediaMapped(r)
  <2>1. /\ req[r].op \in {"upload", "mirror", "media"} /\ req[r].at \in {"dedup", "found", "mapped"}
        /\ req[r].at = "dedup" => req[r].op = "upload"
        /\ UNCHANGED <<tmp, left>>
    BY <1>1 DEF UploadDedup, UploadFound, MirrorFound, MediaMapped, Found, Is, disk
  <2>2. \A s \in Req \ {r} : req'[s] = req[s]
    BY <1>1 DEF UploadDedup, UploadFound, MirrorFound, MediaMapped, Found, Base, TypeOK
  <2>3. \A x \in Role : <<r, x>> \notin tmp
    BY <2>1 DEF Tidy, Temporaries, Holds
  <2> QED  BY <2>1, <2>2, <2>3, MoveTidy
<1>2. CASE MirrorDedup(r) \/ MediaLookup(r)
  <2>1. PICK to \in {"found", "commit", "mapped", "optimize"} :
          /\ To(r, to) /\ UNCHANGED left
          /\ \/ req[r].op = "mirror" /\ to \in {"found", "commit"} /\ req[r].at = "dedup"
             \/ req[r].op = "media" /\ to \in {"mapped", "optimize"} /\ req[r].at = "deriv"
          /\ \/ tmp' = Without(r, {"in"})
             \/ tmp' = tmp /\ to \in {"commit", "optimize"}
    BY <1>2 DEF MirrorDedup, MediaLookup, Is
  <2>2. /\ \A s \in Req \ {r} : req'[s] = req[s]
        /\ req'[r].at = to /\ req'[r].op = req[r].op
    BY <2>1, ToMoves, SMT DEF Base, Label
  <2>3. \A x \in Role : <<r, x>> \in tmp => x = "in"
    BY <2>1 DEF Tidy, Temporaries, Holds
  <2>4. \A t \in tmp' : t \in tmp
    BY <2>1 DEF Without
  <2>5. \A x \in Role : <<r, x>> \in tmp' => x = "in" /\ tmp' = tmp
    BY <2>1, <2>3 DEF Without
  <2>6. \A x \in Role : <<r, x>> \in tmp' => Holds(req'[r].op, req'[r].at, x)
    <3>1. CASE tmp' = Without(r, {"in"})
      <4>1. <<r, "in">> \notin tmp'
        BY <3>1 DEF Without
      <4> QED  BY <2>5, <4>1
    <3>2. CASE to \in {"commit", "optimize"}
      BY <2>1, <2>2, <2>5, <3>2 DEF Holds
    <3> QED  BY <2>1, <3>1, <3>2
  <2> QED  BY <2>1, <2>2, <2>4, <2>6, MoveTidy
<1>3. CASE MediaHasOptimized(r)
  <2>1. PICK to \in {"getopt", "commit"} : To(r, to)
    BY <1>3 DEF MediaHasOptimized
  <2>2. req[r].op = "media" /\ UNCHANGED <<tmp, left>> /\ req[r].at = "hasopt"
    BY <1>3 DEF MediaHasOptimized, Is, disk
  <2>3. \A x \in Role : Holds(req[r].op, req[r].at, x) => Holds(req[r].op, to, x)
    BY <2>1, <2>2 DEF Holds
  <2> QED  BY <2>1, <2>2, <2>3, ToTidy, SMT DEF Label
<1>4. CASE MediaGetOptimized(r)
  <2>1. req[r].op = "media" /\ req[r].at = "getopt" /\ UNCHANGED left
    BY <1>4 DEF MediaGetOptimized, Is
  <2>2. /\ \A s \in Req \ {r} : req'[s] = req[s]
        /\ req'[r].op = "media" /\ req'[r].at \in {"link", "commit"}
    BY <1>0, <1>4, <2>1, SMT DEF MediaGetOptimized, To, Base, TypeOK, Handler
  <2>3. \A t \in tmp' : t \in tmp
    BY <1>4 DEF MediaGetOptimized, Without
  <2>4. \A x \in Role : <<r, x>> \in tmp' => x = "out"
    BY <2>1, <2>3 DEF Tidy, Temporaries, Holds
  <2>5. \A x \in Role : <<r, x>> \in tmp' => Holds(req'[r].op, req'[r].at, x)
    BY <2>2, <2>4 DEF Holds
  <2> QED  BY <2>1, <2>2, <2>3, <2>5, MoveTidy
<1> QED  BY <1>1, <1>2, <1>3, <1>4

LEMMA StoreTidy ==
    ASSUME Base, Tidy, NEW r \in Req,
           \/ UploadAdopt(r) \/ MirrorAdopt(r) \/ MediaAdopt(r) \/ MediaOwn(r)
           \/ UploadCommit(r) \/ MirrorCommit(r) \/ UploadInsert(r) \/ MirrorInsert(r) \/ MediaInsert(r)
    PROVE  Tidy'
<1>1. CASE UploadAdopt(r) \/ MirrorAdopt(r) \/ MediaAdopt(r) \/ UploadInsert(r) \/ MirrorInsert(r)
  <2>1. /\ Answer(r, tmp) /\ req[r].at \in {"adopt", "insert"}
        /\ req[r].at = "insert" => req[r].op \in {"upload", "mirror"}
    BY <1>1 DEF UploadAdopt, MirrorAdopt, MediaAdopt, UploadInsert, MirrorInsert, Register, Is
  <2> QED  BY <2>1, EndTidy DEF Holds
<1>2. CASE MediaOwn(r)
  BY <1>2, ToTidy DEF MediaOwn, Is, Holds, Label
<1>3. CASE UploadCommit(r) \/ MirrorCommit(r)
  <2>1. req[r].op \in {"upload", "mirror"} /\ req[r].at = "commit"
    BY <1>3 DEF UploadCommit, MirrorCommit, Is
  <2>2. CASE AbortWrite(r)
    BY <2>1, <2>2, AbortTidy DEF AbortWrite, Holds, Role
  <2>3. CASE ~AbortWrite(r)
    <3>1. tmp' = Without(r, {"in"}) /\ To(r, "insert") /\ UNCHANGED left
      BY <1>3, <2>3 DEF UploadCommit, MirrorCommit, CommitWrite
    <3>2. \A s \in Req \ {r} : req'[s] = req[s]
      BY <3>1, ToMoves DEF Base, Label
    <3>3. \A x \in Role : <<r, x>> \in tmp => x = "in"
      BY <2>1 DEF Tidy, Temporaries, Holds
    <3>4. /\ \A t \in tmp' : t \in tmp
          /\ \A x \in Role : <<r, x>> \notin tmp'
      BY <3>1, <3>3 DEF Without
    <3> QED  BY <3>1, <3>2, <3>4, MoveTidy
  <2> QED  BY <2>2, <2>3
<1>4. CASE MediaInsert(r)
  <2>1. /\ req[r].op = "media" /\ req[r].at = "insert"
        /\ Answer(r, tmp) \/ (To(r, "map") /\ UNCHANGED <<tmp, left>>)
    BY <1>4 DEF MediaInsert, Is
  <2>2. CASE Answer(r, tmp)
    BY <2>1, <2>2, EndTidy DEF Holds, MayLeave
  <2>3. CASE To(r, "map") /\ UNCHANGED <<tmp, left>>
    BY <2>1, <2>3, ToTidy, ZenonT(30) DEF Holds, Label
  <2> QED  BY <2>1, <2>2, <2>3
<1> QED  BY <1>1, <1>2, <1>3, <1>4

LEMMA MediaTidy ==
    ASSUME Base, Tidy, NEW r \in Req,
           \/ MediaOptimize(r) \/ MediaRehash(r) \/ MediaLink(r) \/ MediaMap(r) \/ MediaCommit(r)
           \/ MediaThumbnail(r) \/ MediaNewThumbnail(r)
    PROVE  Tidy'
<1>0. req[r] \in Handler
  BY SlotHandler DEF Base
<1>1. CASE MediaOptimize(r)
  <2>1. req[r].op = "media" /\ req[r].at = "optimize"
    BY <1>1 DEF MediaOptimize, Is
  <2>2. \A x \in Role : <<r, x>> \in tmp => x = "in"
    BY <2>1 DEF Tidy, Temporaries, Holds
  <2>3. CASE /\ tmp' = Without(r, {"in"}) \cup {<<r, "out">>} /\ UNCHANGED left
             /\ req' = [req EXCEPT ![r].at = "rehash", ![r].h = Opt(@)]
    <3>1. /\ \A s \in Req \ {r} : req'[s] = req[s]
          /\ req'[r].op = "media" /\ req'[r].at = "rehash"
      BY <1>0, <2>1, <2>3 DEF Base, TypeOK, Handler
    <3>2. /\ \A t \in tmp' : t[1] = r \/ t \in tmp
          /\ \A x \in Role : <<r, x>> \in tmp' => x = "out"
      BY <2>2, <2>3, SMT DEF Without
    <3>3. \A x \in Role : <<r, x>> \in tmp' => Holds(req'[r].op, req'[r].at, x)
      BY <3>1, <3>2 DEF Holds
    <3> QED  BY <2>3, <3>1, <3>2, <3>3, MoveTidy
  <2>4. ASSUME NEW out \in OptimizeMedia \ {"made"}, Answer(r, tmp \cup {<<r, x>> : x \in {out} \ {"none"}})
        PROVE  Tidy'
    <3> DEFINE ts == tmp \cup {<<r, x>> : x \in {out} \ {"none"}}
    <3>1. \A t \in ts : t = <<r, "partial">> \/ t \in tmp
      BY DEF OptimizeMedia, OptimizeImage, OptimizeVideo
    <3>2. Answer(r, ts)
      BY <2>4
    <3> HIDE DEF ts
    <3>3. ts \in SUBSET (Req \X Role) /\ \A t \in ts : t[1] = r \/ t \in tmp
      BY <3>1, SameHandlers, SMT DEF Role
    <3>4. \A x \in Role : <<r, x>> \in ts => x \in {"in", "partial"}
      BY <2>2, <3>1
    <3>5. \A x \in Role : <<r, x>> \in ts => MayLeave(req[r].op, req[r].at, x)
      BY <2>1, <3>4 DEF MayLeave
    <3> QED  BY <3>2, <3>3, <3>5, AnswerTidy
  <2> QED  BY <1>1, <2>3, <2>4 DEF MediaOptimize
<1>2. CASE MediaRehash(r)
  <2>1. /\ req[r].op = "media" /\ req[r].at = "rehash"
        /\ Answer(r, tmp) \/ (To(r, "hasopt") /\ UNCHANGED <<tmp, left>>)
    BY <1>2 DEF MediaRehash, Is
  <2>2. CASE Answer(r, tmp)
    BY <2>1, <2>2, EndTidy DEF Holds, MayLeave
  <2>3. CASE To(r, "hasopt") /\ UNCHANGED <<tmp, left>>
    BY <2>1, <2>3, ToTidy, ZenonT(30) DEF Holds, Label
  <2> QED  BY <2>1, <2>2, <2>3
<1>3. CASE MediaLink(r)
  <2>1. /\ req[r].op = "media" /\ req[r].at = "link"
        /\ Answer(r, Without(r, {"out"})) \/ (To(r, "own") /\ UNCHANGED <<tmp, left>>)
    BY <1>3 DEF MediaLink, InsertDerivative, Is
  <2>2. CASE Answer(r, Without(r, {"out"}))
    BY <2>1, <2>2, AbortTidy DEF Holds, Role
  <2>3. CASE To(r, "own") /\ UNCHANGED <<tmp, left>>
    BY <2>1, <2>3, ToTidy DEF Holds, Label
  <2> QED  BY <2>1, <2>2, <2>3
<1>4. CASE MediaMap(r)
  <2>1. /\ req[r].op = "media" /\ req[r].at = "map"
        /\ Answer(r, tmp) \/ (To(r, "thumb") /\ UNCHANGED <<tmp, left>>)
    BY <1>4 DEF MediaMap, InsertDerivative, Is
  <2>2. CASE Answer(r, tmp)
    BY <2>1, <2>2, EndTidy DEF Holds, MayLeave
  <2>3. CASE To(r, "thumb") /\ UNCHANGED <<tmp, left>>
    BY <2>1, <2>3, ToTidy DEF Holds, Label
  <2> QED  BY <2>1, <2>2, <2>3
<1>5. CASE MediaCommit(r)
  <2>1. req[r].op = "media" /\ req[r].at = "commit"
    BY <1>5 DEF MediaCommit, Is
  <2>2. \A x \in Role : <<r, x>> \in tmp => x = "out"
    BY <2>1 DEF Tidy, Temporaries, Holds
  <2>3. \A made \in PrepareThumbnail(r) : made \subseteq {<<r, "thumb">>, <<r, "partial">>}
    BY DEF PrepareThumbnail, CreateThumbnail
  <2>4. /\ Without(r, {"out"}) \in SUBSET (Req \X Role)
        /\ \A t \in Without(r, {"out"}) : t \in tmp
        /\ \A x \in Role : <<r, x>> \notin Without(r, {"out"})
    BY <2>2, SameHandlers DEF Without
  <2>5. ASSUME NEW made \in PrepareThumbnail(r), tmp' = Without(r, {"out"}) \cup made, To(r, "insert"), UNCHANGED left
        PROVE  Tidy'
    <3>1. /\ \A s \in Req \ {r} : req'[s] = req[s]
          /\ req'[r].at = "insert" /\ req'[r].op = "media"
      BY <2>1, <2>5, ToMoves DEF Base, Label
    <3>2. made \subseteq {<<r, "thumb">>, <<r, "partial">>}
      BY <2>3, <2>5
    <3>3. /\ \A t \in tmp' : t[1] = r \/ t \in tmp
          /\ \A x \in Role : <<r, x>> \in tmp' => x \in {"thumb", "partial"}
      BY <2>4, <2>5, <3>2, SMT
    <3>4. \A x \in Role : <<r, x>> \in tmp' => Holds(req'[r].op, req'[r].at, x)
      BY <3>1, <3>3 DEF Holds
    <3> QED  BY <2>5, <3>1, <3>3, <3>4, MoveTidy
  <2>6. ASSUME NEW made \in PrepareThumbnail(r), Answer(r, Without(r, {"out"}) \cup (made \ {<<r, "thumb">>}))
        PROVE  Tidy'
    <3> DEFINE ts == Without(r, {"out"}) \cup (made \ {<<r, "thumb">>})
    <3>1. \A t \in ts : t = <<r, "partial">> \/ t \in Without(r, {"out"})
      BY <2>3, <2>6
    <3>2. Answer(r, ts)
      BY <2>6
    <3> HIDE DEF ts
    <3>3. ts \in SUBSET (Req \X Role) /\ \A t \in ts : t[1] = r \/ t \in tmp
      BY <2>4, <3>1, SMT DEF Role
    <3>4. \A x \in Role : <<r, x>> \in ts => x = "partial"
      BY <2>4, <3>1
    <3>5. \A x \in Role : <<r, x>> \in ts => MayLeave(req[r].op, req[r].at, x)
      BY <2>1, <3>4 DEF MayLeave
    <3> QED  BY <3>2, <3>3, <3>5, AnswerTidy
  <2> QED  BY <1>5, <2>5, <2>6 DEF MediaCommit
<1>6. CASE MediaThumbnail(r)
  BY <1>6, AbortTidy DEF MediaThumbnail, Is, Holds, MayLeave, Role
<1>7. CASE MediaNewThumbnail(r)
  <2>1. /\ req[r].op = "media" /\ req[r].at = "newthumb"
        /\ \/ Answer(r, Without(r, {"out"}))
           \/ Answer(r, Without(r, {"out"}) \cup {<<r, "partial">>})
    BY <1>7 DEF MediaNewThumbnail, Is
  <2>2. CASE Answer(r, Without(r, {"out"}))
    BY <2>1, <2>2, AbortTidy DEF Holds, Role
  <2>3. CASE Answer(r, Without(r, {"out"}) \cup {<<r, "partial">>})
    <3> DEFINE ts == Without(r, {"out"}) \cup {<<r, "partial">>}
    <3>1. \A x \in Role : <<r, x>> \in tmp => x = "out"
      BY <2>1 DEF Tidy, Temporaries, Holds
    <3>2. /\ Without(r, {"out"}) \in SUBSET (Req \X Role)
          /\ \A t \in Without(r, {"out"}) : t \in tmp
          /\ \A x \in Role : <<r, x>> \notin Without(r, {"out"})
      BY <3>1, SameHandlers DEF Without
    <3>3. ts \in SUBSET (Req \X Role) /\ \A t \in ts : t[1] = r \/ t \in tmp
      BY <3>2, SMT DEF Role
    <3>4. \A x \in Role : <<r, x>> \in ts => x = "partial"
      BY <3>2
    <3>5. \A x \in Role : <<r, x>> \in ts => MayLeave(req[r].op, req[r].at, x)
      BY <2>1, <3>4 DEF MayLeave
    <3> QED  BY <2>3, <3>3, <3>5, AnswerTidy
  <2> QED  BY <2>1, <2>2, <2>3
<1> QED  BY <1>1, <1>2, <1>3, <1>4, <1>5, <1>6, <1>7

\* The handlers that store nothing have no temporary files.
LEMMA RemoveTidy ==
    ASSUME Base, Tidy, NEW r \in Req,
           \/ DeleteCheck(r) \/ DeleteDisown(r) \/ DeleteCount(r) \/ AdminCheck(r)
           \/ Drop(r) \/ Unlink(r) \/ Sweep(r) \/ NextBlob(r) \/ ReadServe(r)
    PROVE  Tidy'
<1>1. req[r].op \notin Storers
  <2>1. req[r].at \in {"check", "disown", "count", "drop", "unlink", "sweep", "loop", "serve"}
    BY DEF DeleteCheck, DeleteDisown, DeleteCount, AdminCheck, Drop, Unlink, Sweep, NextBlob, ReadServe, Is
  <2> QED  BY <2>1, LocalsOf DEF Steps, Early, Storers
<1>2. \A x \in Role : <<r, x>> \notin tmp
  BY <1>1 DEF Tidy, Temporaries, Holds, Storers
<1>3. CASE Answer(r, tmp)
  BY <1>2, <1>3, SameHandlers, AnswerTidy
<1>4. CASE ~Answer(r, tmp)
  <2>1. UNCHANGED <<tmp, left>>
    BY <1>4 DEF DeleteCheck, DeleteDisown, DeleteCount, AdminCheck, Drop, Unlink, Sweep, NextBlob, ReadServe, disk
  <2>2. \A s \in Req \ {r} : req'[s] = req[s]
    BY <1>4 DEF DeleteCheck, DeleteDisown, DeleteCount, AdminCheck, Drop, Unlink, Sweep, NextBlob, ReadServe,
       To, Base, TypeOK
  <2> QED  BY <1>2, <2>1, <2>2, MoveTidy
<1> QED  BY <1>3, <1>4

LEMMA StepKeepsTidy ==
    ASSUME Base, Tidy, [Next]_vars
    PROVE  Tidy'
<1>1. ASSUME NEW r \in Req, Serve(r)
      PROVE  Tidy'
  BY <1>1, BodyTidy, LookupTidy, StoreTidy, MediaTidy, RemoveTidy DEF Serve
<1>2. ASSUME NEW r \in Req, Submit(r)
      PROVE  Tidy'
  <2>1. req[r].at = "idle" /\ UNCHANGED <<tmp, left>>
    BY <1>2 DEF Submit, SubmitUpload, SubmitMirror, SubmitMedia, SubmitDelete, SubmitAdminDelete, SubmitRead,
       SubmitAdminUser, SubmitPrune, Start, disk
  <2>2. \A s \in Req \ {r} : req'[s] = req[s]
    BY <1>2 DEF Submit, SubmitUpload, SubmitMirror, SubmitMedia, SubmitDelete, SubmitAdminDelete, SubmitRead,
       SubmitAdminUser, SubmitPrune, Start, Base, TypeOK
  <2>3. \A x \in Role : <<r, x>> \notin tmp
    BY <2>1 DEF Tidy, Temporaries, Holds
  <2> QED  BY <2>1, <2>2, <2>3, MoveTidy
<1>3. CASE (\E w \in Worker : WorkerError(w)) \/ (\E h \in Hash : Age(h)) \/ UNCHANGED vars
  <2>1. UNCHANGED <<tmp, req, left>>
    BY <1>3 DEF WorkerError, Age, vars, disk
  <2> QED  BY <2>1 DEF Tidy, Temporaries, LeftOK
<1>4. CASE Crash
  <2>1. tmp' = {} /\ left' = {<<"crash", req[t[1]].op, t[2]>> : t \in tmp}
    BY <1>4 DEF Crash
  <2> QED  BY <2>1, SMT DEF Tidy, Temporaries, LeftOK
<1> QED  BY <1>1, <1>2, <1>3, <1>4 DEF Next

-----------------------------------------------------------------------------
(* The worker pool.                                                        *)

Jobs == \A r \in Req : job[r] # Absent => req[r].at = "await"
Slots == \A w \in Worker \ erred : count[w] = Cardinality(Running(w)) /\ count[w] <= MaxJobs
Pool == Jobs /\ Slots

LEMMA QuietPool ==
    ASSUME Base, Pool, UNCHANGED <<count, job, erred>>,
           \A r \in Req : job[r] # Absent => req'[r].at = req[r].at
    PROVE  Pool'
BY DEF Pool, Jobs, Slots, Running

LEMMA DispatchPool ==
    ASSUME Base, Pool, NEW r \in Req, Dispatch(r)
    PROVE  Pool'
<1>1. req[r].at = "dispatch" /\ UNCHANGED <<db, file, sent, erred>> /\ job[r] = Absent
  BY DEF Dispatch, hist, Pool, Jobs
<1>2. CASE AbortWrite(r) /\ UNCHANGED pool
  <2>1. UNCHANGED <<count, job>> /\ \A s \in Req \ {r} : req'[s] = req[s]
    BY <1>2, AnswerEnds, SameHandlers DEF pool, AbortWrite, Base
  <2> QED  BY <1>1, <2>1, QuietPool
<1>3. ASSUME NEW w \in Available, count' = [count EXCEPT ![w] = @ + 1], job' = [job EXCEPT ![r] = w], To(r, "await")
      PROVE  Pool'
  <2>1. w \in Worker /\ count[w] < MaxJobs /\ w # Absent
    BY NodeAssumption DEF Available
  <2>2. /\ \A s \in Req \ {r} : req'[s] = req[s] /\ job'[s] = job[s]
        /\ req'[r].at = "await" /\ job'[r] = w
        /\ count'[w] = count[w] + 1 /\ \A v \in Worker \ {w} : count'[v] = count[v]
    BY <1>3, <2>1, ToMoves DEF Base, TypeOK, Label
  <2>3. Jobs'
    BY <2>2 DEF Pool, Jobs
  <2>4. ASSUME NEW v \in Worker \ erred'
        PROVE  count'[v] = Cardinality(Running(v))' /\ count'[v] <= MaxJobs
    <3>1. /\ count[v] = Cardinality(Running(v)) /\ count[v] <= MaxJobs
      BY <1>1, <2>4 DEF Pool, Slots
    <3>2. CASE v # w
      <4>1. Running(v)' = Running(v)
        BY <1>1, <2>2, <3>2, NodeAssumption DEF Running
      <4> QED  BY <2>2, <3>1, <3>2, <4>1
    <3>3. CASE v = w
      <4>1. Running(v)' = Running(v) \cup {r} /\ r \notin Running(v)
        BY <1>1, <2>1, <2>2, <3>3 DEF Running
      <4>2. IsFiniteSet(Running(v))
        BY FS_Subset, NodeAssumption DEF Running
      <4>3. Cardinality(Running(v))' = Cardinality(Running(v)) + 1
        BY <4>1, <4>2, FS_AddElement
      <4>4. count[v] \in Int /\ MaxJobs \in Int
        BY NodeAssumption, SMT DEF Base, TypeOK
      <4> QED  BY <2>1, <2>2, <3>1, <3>3, <4>3, <4>4, SMT
    <3> QED  BY <3>2, <3>3
  <2> QED  BY <2>3, <2>4 DEF Pool, Slots
<1> QED  BY <1>2, <1>3 DEF Dispatch

LEMMA JobDonePool ==
    ASSUME Base, Pool, NEW r \in Req, JobDone(r)
    PROVE  Pool'
<1>1. /\ count' = [count EXCEPT ![job[r]] = @ - 1] /\ job' = [job EXCEPT ![r] = Absent]
      /\ job[r] \in Worker /\ UNCHANGED erred /\ job[r] # Absent
  BY NodeAssumption DEF JobDone, hist
<1>2. \A s \in Req \ {r} : req'[s] = req[s]
  <2>1. CASE AbortWrite(r)
    BY <2>1, AnswerEnds DEF AbortWrite, Base
  <2>2. CASE To(r, "hashed")
    BY <2>2, ToMoves DEF Base, Label
  <2> QED  BY <2>1, <2>2 DEF JobDone, HandleJob
<1>3. /\ \A s \in Req \ {r} : job'[s] = job[s]
      /\ job'[r] = Absent
      /\ count'[job[r]] = count[job[r]] - 1 /\ \A v \in Worker \ {job[r]} : count'[v] = count[v]
  BY <1>1 DEF Base, TypeOK
<1>4. Jobs'
  BY <1>2, <1>3 DEF Pool, Jobs
<1>5. ASSUME NEW v \in Worker \ erred'
      PROVE  count'[v] = Cardinality(Running(v))' /\ count'[v] <= MaxJobs
  <2>1. /\ count[v] = Cardinality(Running(v)) /\ count[v] <= MaxJobs
    BY <1>1, <1>5 DEF Pool, Slots
  <2>2. CASE v # job[r]
    <3>1. Running(v)' = Running(v)
      BY <1>3, <2>2, NodeAssumption DEF Running
    <3> QED  BY <1>3, <2>1, <2>2, <3>1
  <2>3. CASE v = job[r]
    <3>1. Running(v)' = Running(v) \ {r} /\ r \in Running(v)
      BY <1>1, <1>3, <2>3 DEF Running
    <3>2. IsFiniteSet(Running(v))
      BY FS_Subset, NodeAssumption DEF Running
    <3>3. Cardinality(Running(v))' = Cardinality(Running(v)) - 1
      BY <3>1, <3>2, FS_RemoveElement
    <3>4. count[v] \in Int /\ MaxJobs \in Int
      BY NodeAssumption, SMT DEF Base, TypeOK
    <3> QED  BY <1>3, <2>1, <2>3, <3>3, <3>4, SMT
  <2> QED  BY <2>2, <2>3
<1> QED  BY <1>4, <1>5 DEF Pool, Slots

LEMMA WorkerErrorPool ==
    ASSUME Base, Pool, NEW w \in Worker, WorkerError(w)
    PROVE  Pool'
<1>1. PICK lost \in SUBSET Running(w) : job' = [r \in Req |-> IF r \in lost THEN Absent ELSE job[r]]
  BY DEF WorkerError
<1>2. UNCHANGED req /\ erred' = erred \cup {w} /\ \A v \in Worker \ {w} : count'[v] = count[v]
  BY DEF WorkerError, Base, TypeOK
<1>3. Jobs'
  BY <1>1, <1>2 DEF Pool, Jobs
<1>4. ASSUME NEW v \in Worker \ erred'
      PROVE  count'[v] = Cardinality(Running(v))' /\ count'[v] <= MaxJobs
  <2>1. v # w /\ v # Absent
    BY <1>2, <1>4, NodeAssumption
  <2>2. Running(v)' = Running(v)
    BY <1>1, <2>1 DEF Running
  <2> QED  BY <1>2, <1>4, <2>1, <2>2 DEF Pool, Slots
<1> QED  BY <1>3, <1>4 DEF Pool, Slots

LEMMA CrashPool ==
    ASSUME Base, Crash
    PROVE  Pool'
<1>1. job' = [r \in Req |-> Absent] /\ count' = [w \in Worker |-> 0]
  BY DEF Crash
<1>2. \A w \in Worker : Running(w)' = {}
  BY <1>1, NodeAssumption DEF Running
<1> QED  BY <1>1, <1>2, FS_EmptySet, NodeAssumption, SMT DEF Pool, Jobs, Slots

LEMMA StepKeepsPool ==
    ASSUME Base, Pool, [Next]_vars
    PROVE  Pool'
<1>1. ASSUME NEW r \in Req, Serve(r)
      PROVE  Pool'
  <2>1. CASE Dispatch(r) \/ JobDone(r)
    BY <2>1, DispatchPool, JobDonePool
  <2>2. CASE ~(Dispatch(r) \/ JobDone(r))
    <3>1. UNCHANGED <<count, job, erred>>
      BY <1>1, <2>2 DEF Serve, UploadDedup, UploadFound, UploadAdopt, UploadBegin, UploadHashed, UploadCommit,
         UploadInsert, MirrorBegin, MirrorHashed, MirrorDedup, MirrorFound, MirrorAdopt, MirrorCommit, MirrorInsert,
         MediaBegin, MediaHashed, MediaLookup, MediaMapped, MediaAdopt, MediaOptimize, MediaRehash, MediaHasOptimized,
         MediaGetOptimized, MediaLink, MediaOwn, MediaCommit, MediaInsert, MediaMap, MediaThumbnail,
         MediaNewThumbnail, DeleteCheck, DeleteDisown, DeleteCount, AdminCheck, Drop, Unlink, Sweep, NextBlob,
         ReadServe, Found, Adopt, CommitWrite, Register, InsertDerivative, StorePreparedThumbnail, pool, hist
    <3>2. req[r].at # "await"
      BY <1>1, <2>2 DEF Serve, UploadDedup, UploadFound, UploadAdopt, UploadBegin, UploadHashed, UploadCommit,
         UploadInsert, MirrorBegin, MirrorHashed, MirrorDedup, MirrorFound, MirrorAdopt, MirrorCommit, MirrorInsert,
         MediaBegin, MediaHashed, MediaLookup, MediaMapped, MediaAdopt, MediaOptimize, MediaRehash, MediaHasOptimized,
         MediaGetOptimized, MediaLink, MediaOwn, MediaCommit, MediaInsert, MediaMap, MediaThumbnail,
         MediaNewThumbnail, DeleteCheck, DeleteDisown, DeleteCount, AdminCheck, Drop, Unlink, Sweep, NextBlob,
         ReadServe, Is
    <3>3. \A s \in Req \ {r} : req'[s] = req[s]
      BY <1>1, ServeMovesOne
    <3>4. job[r] = Absent
      BY <3>2 DEF Pool, Jobs
    <3> QED  BY <3>1, <3>3, <3>4, QuietPool
  <2> QED  BY <2>1, <2>2
<1>2. ASSUME NEW r \in Req, Submit(r)
      PROVE  Pool'
  <2>1. req[r].at = "idle" /\ UNCHANGED <<count, job, erred>>
    BY <1>2 DEF Submit, SubmitUpload, SubmitMirror, SubmitMedia, SubmitDelete, SubmitAdminDelete, SubmitRead,
       SubmitAdminUser, SubmitPrune, Start, pool, hist
  <2>2. \A s \in Req \ {r} : req'[s] = req[s]
    BY <1>2 DEF Submit, SubmitUpload, SubmitMirror, SubmitMedia, SubmitDelete, SubmitAdminDelete, SubmitRead,
       SubmitAdminUser, SubmitPrune, Start, Base, TypeOK
  <2> QED  BY <2>1, <2>2, QuietPool DEF Pool, Jobs
<1>3. CASE (\E h \in Hash : Age(h)) \/ UNCHANGED vars
  <2>1. UNCHANGED <<count, job, erred, req>>
    BY <1>3 DEF Age, vars, pool, hist
  <2> QED  BY <2>1, QuietPool
<1> QED  BY <1>1, <1>2, <1>3, WorkerErrorPool, CrashPool DEF Next

\* Everything a request took is given back, on every path: PUT /upload and
\* PUT /mirror leave no temporary file, PUT /media only on the paths named, and
\* jobCount is exactly the number of a worker's jobs, within maxJobsPerWorker,
\* for any number of workers and requests.
THEOREM ResourcesAreReturned == Spec => []ResourcesReturned
<1>1. ASSUME Init
      PROVE  Tidy /\ Pool
  <2>1. \A w \in Worker : Running(w) = {}
    BY <1>1, NodeAssumption DEF Init, Running
  <2>2. Pool
    <3>1. \A w \in Worker : count[w] = 0
      BY <1>1 DEF Init
    <3>2. \A w \in Worker : Cardinality(Running(w)) = 0
      BY <2>1, FS_EmptySet
    <3>3. 0 <= MaxJobs
      BY NodeAssumption, SMT
    <3>4. Jobs
      BY <1>1 DEF Init, Jobs
    <3> QED  BY <3>1, <3>2, <3>3, <3>4 DEF Pool, Slots
  <2> QED  BY <1>1, <2>2 DEF Init, Tidy, Temporaries, LeftOK
<1>2. ASSUME Base, Tidy, Pool, [Next]_vars
      PROVE  (Tidy /\ Pool)'
  BY <1>2, StepKeepsTidy, StepKeepsPool
<1>3. ASSUME Tidy, Pool
      PROVE  ResourcesReturned
  BY <1>3 DEF Tidy, LeftOK, Pool, Slots, ResourcesReturned
<1> QED  BY <1>1, <1>2, <1>3, AlwaysBase, PTL DEF Spec

-----------------------------------------------------------------------------
(* Rows and files.                                                         *)

Recorded == \A r, q \in Req, h \in Hash : h \in Storing(r) /\ h \in Removing(q) => h \in raced

\* What a handler relies on, unless its hash was raced.
Stands(s) ==
    req[s].h \notin raced =>
        /\ req[s].at \in {"adopt", "link", "own"} => HasBlob(req[s].h)
        /\ req[s].at = "insert" => <<req[s].h, req[s].ty>> \in file \/ req[s].h \in broken
        /\ req[s].at = "drop" => \/ row[req[s].h] \in {Absent, req[s].ty}
                                 \/ Known(req[s].h, req[s].ty, sent)
        /\ req[s].at = "unlink" => row[req[s].h] = Absent

RowsHaveFiles ==
    \A h \in Hash : HasBlob(h) /\ h \notin raced \cup broken => <<h, row[h]>> \in file

\* A file whose row is about to be written, or is gone already.
Pending(r, h, ty) == req[r].h = h /\ req[r].ty = ty /\ req[r].at \in {"insert", "unlink"}
Accounted(h, ty) ==
    \/ row[h] = ty
    \/ h \in raced \cup broken
    \/ \E other \in Type \ {ty} : <<h, other>> \in sent
    \/ \E r \in Req : Pending(r, h, ty)
FilesHaveRows == \A h \in Hash, ty \in Type : <<h, ty>> \in file => Accounted(h, ty)

DiskInv == Recorded /\ RowsHaveFiles /\ FilesHaveRows /\ \A s \in Req : Stands(s)
Grow == raced \subseteq raced' /\ broken \subseteq broken' /\ sent \subseteq sent'

\* A step of handler r adds a row only where it is storing, and takes a row
\* or a file only where it is removing.
Effects(r) ==
    /\ \A h \in Hash : HasBlob(h)' => \/ HasBlob(h) /\ row'[h] = row[h]
                                      \/ ~HasBlob(h) /\ h \in Storing(r)
    /\ \A h \in Hash : HasBlob(h) => HasBlob(h)' \/ h \in Removing(r)
    /\ \A h \in Hash, ty \in Type : <<h, ty>> \in file => <<h, ty>> \in file' \/ h \in Removing(r)

LEMMA OthersStand ==
    ASSUME Base, Recorded, Grow, NEW r \in Req, NEW s \in Req \ {r}, Effects(r), req'[s] = req[s], Stands(s)
    PROVE  Stands(s)'
<1> SUFFICES ASSUME req[s].h \notin raced'
             PROVE  /\ req[s].at \in {"adopt", "link", "own"} => HasBlob(req[s].h)'
                    /\ req[s].at = "insert" => <<req[s].h, req[s].ty>> \in file' \/ req[s].h \in broken'
                    /\ req[s].at = "drop" => \/ row'[req[s].h] \in {Absent, req[s].ty}
                                             \/ Known(req[s].h, req[s].ty, sent')
                    /\ req[s].at = "unlink" => row'[req[s].h] = Absent
  BY DEF Stands
<1>1. req[s].h \notin raced
  BY DEF Grow
<1>2. CASE req[s].at \in {"adopt", "link", "own", "insert"}
  <2>1. req[s].op \in Storers /\ req[s].h \in Storing(s)
    BY <1>2, LocalsOf, SlotHandler DEF Steps, Storers, Storing, Base, Op
  <2>2. req[s].h \in Hash /\ req[s].ty \in Type
    BY <2>1, StorerHash
  <2>3. req[s].h \notin Removing(r)
    BY <1>1, <2>1, <2>2 DEF Recorded
  <2> QED  BY <1>1, <1>2, <2>2, <2>3 DEF Stands, Effects, Grow
<1>3. CASE req[s].at \in {"drop", "unlink"}
  <2>1. req[s].h \in Hash /\ req[s].ty \in Type /\ req[s].h \in Removing(s)
    BY <1>3, LocalsOf DEF Locals, Removing
  <2>2. req[s].h \notin Storing(r)
    BY <1>1, <2>1 DEF Recorded
  <2>3. row'[req[s].h] = row[req[s].h] \/ row'[req[s].h] = Absent
    BY <2>1, <2>2 DEF Effects, HasBlob
  <2>4. Known(req[s].h, req[s].ty, sent) => Known(req[s].h, req[s].ty, sent')
    BY DEF Known, Grow
  <2> QED  BY <1>1, <1>3, <2>3, <2>4 DEF Stands
<1> QED  BY <1>2, <1>3

\* Rows and files as they are: only a handler that writes or removes matters.
LEMMA FileStays ==
    ASSUME Base, Grow, NEW r \in Req, \A s \in Req \ {r} : req'[s] = req[s],
           NEW h \in Hash, NEW ty \in Type, Accounted(h, ty), row'[h] = row[h],
           Pending(r, h, ty) => Pending(r, h, ty)'
    PROVE  Accounted(h, ty)'
<1>1. CASE row[h] = ty
  BY <1>1 DEF Accounted
<1>2. CASE h \in raced \cup broken
  BY <1>2 DEF Accounted, Grow
<1>3. CASE \E other \in Type \ {ty} : <<h, other>> \in sent
  BY <1>3 DEF Accounted, Grow
<1>4. CASE \E s \in Req : Pending(s, h, ty)
  <2>1. PICK s \in Req : Pending(s, h, ty)
    BY <1>4
  <2>2. Pending(s, h, ty)'
    <3>1. CASE s = r
      BY <2>1, <3>1
    <3>2. CASE s # r
      BY <2>1, <3>2 DEF Pending
    <3> QED  BY <3>1, <3>2
  <2> QED  BY <2>2 DEF Accounted
<1> QED  BY <1>1, <1>2, <1>3, <1>4 DEF Accounted

LEMMA QuietDisk ==
    ASSUME Base, DiskInv, Grow, Recorded', NEW r \in Req, \A s \in Req \ {r} : req'[s] = req[s],
           UNCHANGED <<row, file>>, req[r].at \notin {"insert", "unlink"}, Stands(r)'
    PROVE  DiskInv'
<1>1. Effects(r)
  BY DEF Effects, HasBlob
<1>2. \A s \in Req : Stands(s)'
  BY <1>1, OthersStand DEF DiskInv
<1>3. RowsHaveFiles'
  BY DEF DiskInv, RowsHaveFiles, HasBlob, Grow
<1>4. \A h \in Hash, ty \in Type : <<h, ty>> \in file => Accounted(h, ty)'
  BY FileStays DEF DiskInv, FilesHaveRows, Pending
<1> QED  BY <1>2, <1>3, <1>4 DEF DiskInv, FilesHaveRows

\* Where a handler relies on nothing.
LEMMA NothingRelied ==
    ASSUME NEW r \in Req, req'[r].at \notin {"adopt", "link", "own", "insert", "drop", "unlink"}
    PROVE  Stands(r)'
BY DEF Stands

LEMMA InsertDisk ==
    ASSUME Base, DiskInv, Grow, Recorded', NEW r \in Req, \A s \in Req \ {r} : req'[s] = req[s],
           req[r].op \in Storers, req[r].at \in {"adopt", "own", "insert"}, UNCHANGED file, Stands(r)',
           InsertBlob(req[r].h, req[r].ty, req[r].who)
    PROVE  DiskInv'
<1> DEFINE h == req[r].h
           ty == req[r].ty
<1>0. h \in Hash /\ ty \in Type /\ (h[1] # "in" => ty = OptMime)
  <2>1. req[r].op = "media" => req[r].at \notin Early
    BY DEF Early
  <2> QED  BY <2>1, StorerHash DEF Storers
<1>1. row' = IF HasBlob(h) THEN row ELSE [row EXCEPT ![h] = ty]
  BY DEF InsertBlob
<1>2. /\ \A g \in Hash \ {h} : row'[g] = row[g]
      /\ HasBlob(h) => row'[h] = row[h]
      /\ ~HasBlob(h) => row'[h] = ty
      /\ h \in Storing(r)
  BY <1>0, <1>1 DEF Base, TypeOK, Rows, Storing
<1>3. Absent \notin Type
  BY NodeAssumption DEF Type
<1> HIDE DEF h, ty
<1>4. Effects(r)
  BY <1>0, <1>2 DEF Effects, HasBlob
<1>5. \A s \in Req : Stands(s)'
  BY <1>4, OthersStand DEF DiskInv
<1>6. RowsHaveFiles'
  <2> SUFFICES ASSUME NEW g \in Hash, HasBlob(g)', g \notin raced' \cup broken'
               PROVE  <<g, row'[g]>> \in file
    BY DEF RowsHaveFiles
  <2>1. g \notin raced \cup broken
    BY DEF Grow
  <2>2. CASE HasBlob(g)
    BY <1>2, <2>1, <2>2 DEF DiskInv, RowsHaveFiles
  <2>3. CASE ~HasBlob(g)
    <3>1. g = h /\ row'[g] = ty
      BY <1>2, <2>3 DEF HasBlob
    <3> QED  BY <2>1, <2>3, <3>1 DEF DiskInv, Stands, h, ty
  <2> QED  BY <2>2, <2>3
<1>7. ASSUME NEW g \in Hash, NEW x \in Type, <<g, x>> \in file
      PROVE  Accounted(g, x)'
  <2>0. Accounted(g, x)
    BY <1>7 DEF DiskInv, FilesHaveRows
  <2>1. CASE g # h \/ x # ty
    <3>1. ~Pending(r, g, x)
      BY <2>1 DEF Pending, h, ty
    <3>2. CASE row'[g] = row[g]
      BY <2>0, <3>1, <3>2, FileStays
    <3>3. CASE row'[g] # row[g]
      <4>1. g = h /\ row[g] = Absent
        BY <1>2, <3>3 DEF HasBlob
      <4>2. \/ g \in raced \cup broken
            \/ \E other \in Type \ {x} : <<g, other>> \in sent
            \/ \E s \in Req \ {r} : Pending(s, g, x)
        BY <1>3, <2>0, <3>1, <4>1 DEF Accounted
      <4> QED  BY <4>2 DEF Accounted, Grow, Pending
    <3> QED  BY <3>2, <3>3
  <2>2. CASE g = h /\ x = ty
    <3>1. CASE row'[h] = ty
      BY <2>2, <3>1 DEF Accounted
    <3>2. CASE row'[h] # ty
      <4>1. HasBlob(h) /\ row[h] # ty /\ row[h] \in Type /\ Known(h, row[h], sent)
        BY <1>0, <1>2, <3>2, RowTyped
      <4>2. <<h, row[h]>> \in sent
        BY <1>0, <4>1 DEF Known
      <4> QED  BY <2>2, <4>1, <4>2 DEF Accounted, Grow
    <3> QED  BY <3>1, <3>2
  <2> QED  BY <2>1, <2>2
<1> QED  BY <1>5, <1>6, <1>7 DEF DiskInv, FilesHaveRows

\* The insert failed after the file was stored: the hash is marked.
LEMMA BrokenDisk ==
    ASSUME Base, DiskInv, Grow, Recorded', NEW r \in Req, \A s \in Req \ {r} : req'[s] = req[s],
           UNCHANGED <<row, file>>, req[r].h \in broken', Stands(r)'
    PROVE  DiskInv'
<1>1. Effects(r)
  BY DEF Effects, HasBlob
<1>2. \A s \in Req : Stands(s)'
  BY <1>1, OthersStand DEF DiskInv
<1>3. RowsHaveFiles'
  BY DEF DiskInv, RowsHaveFiles, HasBlob, Grow
<1>4. ASSUME NEW h \in Hash, NEW ty \in Type, <<h, ty>> \in file
      PROVE  Accounted(h, ty)'
  <2>1. CASE Pending(r, h, ty)
    BY <2>1 DEF Pending, Accounted
  <2>2. CASE ~Pending(r, h, ty)
    BY <1>4, <2>2, FileStays DEF DiskInv, FilesHaveRows
  <2> QED  BY <2>1, <2>2
<1> QED  BY <1>2, <1>3, <1>4 DEF DiskInv, FilesHaveRows

LEMMA CommitDisk ==
    ASSUME Base, DiskInv, Grow, Recorded', NEW r \in Req, req[r].at = "commit", req[r].op \in Storers,
           UNCHANGED row, CommitFile(req[r].h, req[r].ty), To(r, "insert")
    PROVE  DiskInv'
<1>0. /\ \A s \in Req \ {r} : req'[s] = req[s]
      /\ req'[r].at = "insert" /\ req'[r].h = req[r].h /\ req'[r].ty = req[r].ty
  BY ToMoves DEF Base, Label
<1>1. file' = file \cup {<<req[r].h, req[r].ty>>}
  BY DEF CommitFile
<1>2. Stands(r)'
  BY <1>0, <1>1 DEF Stands
<1>3. Effects(r)
  BY <1>1 DEF Effects, HasBlob
<1>4. \A s \in Req : Stands(s)'
  BY <1>0, <1>2, <1>3, OthersStand DEF DiskInv
<1>5. RowsHaveFiles'
  BY <1>1 DEF DiskInv, RowsHaveFiles, HasBlob, Grow
<1>6. ASSUME NEW h \in Hash, NEW ty \in Type, <<h, ty>> \in file'
      PROVE  Accounted(h, ty)'
  <2>1. CASE <<h, ty>> \in file
    BY <1>0, <2>1, FileStays DEF DiskInv, FilesHaveRows, Pending
  <2>2. CASE <<h, ty>> = <<req[r].h, req[r].ty>>
    <3>1. Pending(r, h, ty)'
      BY <1>0, <2>2 DEF Pending
    <3> QED  BY <3>1 DEF Accounted
  <2> QED  BY <1>1, <1>6, <2>1, <2>2
<1> QED  BY <1>4, <1>5, <1>6 DEF DiskInv, FilesHaveRows

LEMMA ThumbnailDisk ==
    ASSUME Base, DiskInv, Grow, Recorded', NEW r \in Req, \A s \in Req \ {r} : req'[s] = req[s], Stands(r)',
           req[r].op = "media", req[r].at \in {"thumb", "newthumb"}, CommitFile(Thumb(req[r].h), OptMime),
           \/ InsertBlobRecord(Thumb(req[r].h), OptMime)
           \/ UNCHANGED row /\ Thumb(req[r].h) \in broken'
    PROVE  DiskInv'
<1> DEFINE t == Thumb(req[r].h)
<1>0. t \in Hash /\ t[1] = "thumb" /\ t \in Storing(r) /\ OptMime \in Type
  <2>1. req[r].h \in Hash /\ req[r].h[1] = "opt"
    BY StorerHash DEF Storers, Early
  <2> QED  BY <2>1, KindsOfHash, NodeAssumption DEF Storing, Type
<1>1. /\ file' = file \cup {<<t, OptMime>>}
      /\ \A g \in Hash \ {t} : row'[g] = row[g]
      /\ HasBlob(t) => row'[t] = row[t] /\ row[t] = OptMime
      /\ ~HasBlob(t) => row'[t] \in {row[t], OptMime}
      /\ row'[t] = OptMime \/ t \in broken'
  <2>1. HasBlob(t) => row[t] = OptMime
    BY <1>0, RowTyped DEF Known
  <2> QED  BY <1>0, <2>1 DEF CommitFile, InsertBlobRecord, Base, TypeOK, Rows
<1>2. Absent \notin Type
  BY NodeAssumption DEF Type
<1> HIDE DEF t
<1>3. Effects(r)
  BY <1>0, <1>1 DEF Effects, HasBlob
<1>4. \A s \in Req : Stands(s)'
  BY <1>3, OthersStand DEF DiskInv
<1>5. RowsHaveFiles'
  <2> SUFFICES ASSUME NEW g \in Hash, HasBlob(g)', g \notin raced' \cup broken'
               PROVE  <<g, row'[g]>> \in file'
    BY DEF RowsHaveFiles
  <2>1. CASE g = t
    BY <1>1, <2>1
  <2>2. CASE g # t
    BY <1>1, <2>2 DEF DiskInv, RowsHaveFiles, HasBlob, Grow
  <2> QED  BY <2>1, <2>2
<1>6. ASSUME NEW h \in Hash, NEW ty \in Type, <<h, ty>> \in file'
      PROVE  Accounted(h, ty)'
  <2>1. CASE h = t
    <3>1. ty = OptMime
      BY <1>0, <1>1, <1>6, <2>1 DEF Base, Tables
    <3> QED  BY <1>1, <2>1, <3>1 DEF Accounted
  <2>2. CASE h # t
    <3>1. <<h, ty>> \in file /\ row'[h] = row[h]
      BY <1>1, <1>6, <2>2
    <3> QED  BY <3>1, FileStays DEF DiskInv, FilesHaveRows, Pending
  <2> QED  BY <2>1, <2>2
<1> QED  BY <1>4, <1>5, <1>6 DEF DiskInv, FilesHaveRows

LEMMA DropDisk ==
    ASSUME Base, DiskInv, Grow, Recorded', NEW r \in Req, Drop(r)
    PROVE  DiskInv'
<1> DEFINE h == req[r].h
           ty == req[r].ty
<1>0. /\ req[r].at = "drop" /\ DeleteBlobs({h}) /\ To(r, "unlink") /\ UNCHANGED file
      /\ h \in Hash /\ ty \in Type /\ h \in Removing(r)
  BY LocalsOf DEF Drop, disk, Locals, Removing
<1>1. /\ \A s \in Req \ {r} : req'[s] = req[s]
      /\ req'[r].at = "unlink" /\ req'[r].h = h /\ req'[r].ty = ty
  BY <1>0, ToMoves DEF Base, Label
<1>2. row'[h] = Absent /\ \A g \in Hash \ {h} : row'[g] = row[g]
  BY <1>0 DEF DeleteBlobs
<1>3. Absent \notin Type
  BY NodeAssumption DEF Type
<1> HIDE DEF h, ty
<1>4. Stands(r)'
  BY <1>1, <1>2 DEF Stands
<1>5. Effects(r)
  BY <1>0, <1>2 DEF Effects, HasBlob
<1>6. \A s \in Req : Stands(s)'
  BY <1>1, <1>4, <1>5, OthersStand DEF DiskInv
<1>7. RowsHaveFiles'
  BY <1>0, <1>2 DEF DiskInv, RowsHaveFiles, HasBlob, Grow
<1>8. ASSUME NEW g \in Hash, NEW x \in Type, <<g, x>> \in file
      PROVE  Accounted(g, x)'
  <2>0. Accounted(g, x) /\ (Pending(r, g, x) => Pending(r, g, x)')
    BY <1>0, <1>8 DEF DiskInv, FilesHaveRows, Pending
  <2>1. CASE g # h
    BY <1>1, <1>2, <2>0, <2>1, FileStays
  <2>2. CASE g = h /\ row[h] # x
    <3>1. \/ g \in raced \cup broken
          \/ \E other \in Type \ {x} : <<g, other>> \in sent
          \/ \E s \in Req \ {r} : Pending(s, g, x)
      BY <1>0, <2>0, <2>2 DEF Accounted, Pending
    <3> QED  BY <1>1, <3>1 DEF Accounted, Grow, Pending
  <2>3. CASE g = h /\ row[h] = x
    <3>1. CASE h \in raced
      BY <2>3, <3>1 DEF Accounted, Grow
    <3>2. CASE x = ty
      <4>1. Pending(r, g, x)'
        BY <1>1, <2>3, <3>2 DEF Pending
      <4> QED  BY <4>1 DEF Accounted
    <3>3. CASE h \notin raced /\ x # ty
      <4>1. Known(h, ty, sent)
        BY <1>0, <1>3, <2>3, <3>3 DEF DiskInv, Stands, h, ty
      <4>2. h[1] # "in" => x = OptMime
        BY <1>8, <2>3 DEF Base, Tables
      <4>3. <<h, ty>> \in sent
        BY <3>3, <4>1, <4>2 DEF Known
      <4> QED  BY <1>0, <2>3, <3>3, <4>3 DEF Accounted, Grow
    <3> QED  BY <3>1, <3>2, <3>3
  <2> QED  BY <2>1, <2>2, <2>3
<1> QED  BY <1>0, <1>6, <1>7, <1>8 DEF DiskInv, FilesHaveRows

LEMMA UnlinkDisk ==
    ASSUME Base, DiskInv, Grow, Recorded', NEW r \in Req, Unlink(r)
    PROVE  DiskInv'
<1> DEFINE h == req[r].h
           ty == req[r].ty
<1>0. /\ req[r].at = "unlink" /\ To(r, "sweep") /\ UNCHANGED row
      /\ h \in Hash /\ ty \in Type /\ h \in Removing(r)
  BY LocalsOf DEF Unlink, db, Locals, Removing
<1>1. /\ \A s \in Req \ {r} : req'[s] = req[s]
      /\ req'[r].at = "sweep"
  BY <1>0, ToMoves DEF Base, Label
<1>2. Stands(r)'
  BY <1>1, NothingRelied
<1>3. CASE UNCHANGED file /\ h \in broken'
  BY <1>0, <1>1, <1>2, <1>3, BrokenDisk
<1>4. CASE file' = file \ {<<h, ty>>}
  <2> HIDE DEF h, ty
  <2>1. Effects(r)
    BY <1>0, <1>4 DEF Effects, HasBlob
  <2>2. \A s \in Req : Stands(s)'
    BY <1>1, <1>2, <2>1, OthersStand DEF DiskInv
  <2>3. HasBlob(h) => h \in raced
    BY <1>0 DEF DiskInv, Stands, HasBlob, h
  <2>4. RowsHaveFiles'
    BY <1>0, <1>4, <2>3 DEF DiskInv, RowsHaveFiles, HasBlob, Grow
  <2>5. ASSUME NEW g \in Hash, NEW x \in Type, <<g, x>> \in file'
        PROVE  Accounted(g, x)'
    <3>1. <<g, x>> \in file /\ ~Pending(r, g, x)
      BY <1>4, <2>5 DEF Pending, h, ty
    <3> QED  BY <1>0, <1>1, <3>1, FileStays DEF DiskInv, FilesHaveRows
  <2> QED  BY <2>2, <2>4, <2>5 DEF DiskInv, FilesHaveRows
<1> QED  BY <1>3, <1>4 DEF Unlink, RemoveFile

LEMMA SweepDisk ==
    ASSUME Base, DiskInv, Grow, Recorded', NEW r \in Req, Sweep(r)
    PROVE  DiskInv'
<1> DEFINE old == req[r].old
           hs == {b[1] : b \in old}
<1>0. /\ req[r].at = "sweep" /\ DeleteBlobs(hs) /\ file' = file \ old
      /\ \A b \in old : b = <<Thumb(req[r].h), OptMime>>
      /\ req[r].h \in Hash
  BY LocalsOf DEF Sweep, Locals
<1>1. \A s \in Req \ {r} : req'[s] = req[s]
  BY ServeMovesOne DEF Serve
<1>2. Stands(r)'
  <2>1. req'[r].at \in {"idle", "loop"}
    <3>1. CASE Answer(r, tmp)
      BY <3>1, AnswerEnds, SMT DEF Base, Idle
    <3>2. CASE ~Answer(r, tmp)
      BY <3>2, SlotHandler, SMT DEF Sweep, Base, TypeOK, Handler
    <3> QED  BY <3>1, <3>2
  <2> QED  BY <2>1, NothingRelied
<1>3. /\ \A g \in Hash : g \in hs => row'[g] = Absent /\ g = Thumb(req[r].h) /\ <<g, OptMime>> \in old /\ g \in Removing(r)
      /\ \A g \in Hash : g \notin hs => row'[g] = row[g]
  BY <1>0, SMT DEF DeleteBlobs, Removing
<1>4. \A b \in old : b[1] \in hs
  OBVIOUS
<1> HIDE DEF old, hs
<1>5. Effects(r)
  <2>1. \A g \in Hash, ty \in Type : <<g, ty>> \in file => <<g, ty>> \in file' \/ g \in hs
    BY <1>0, <1>4
  <2> QED  BY <1>3, <2>1 DEF Effects, HasBlob
<1>6. \A s \in Req : Stands(s)'
  BY <1>1, <1>2, <1>5, OthersStand DEF DiskInv
<1>7. RowsHaveFiles'
  <2> SUFFICES ASSUME NEW g \in Hash, HasBlob(g)', g \notin raced' \cup broken'
               PROVE  <<g, row'[g]>> \in file'
    BY DEF RowsHaveFiles
  <2>1. g \notin hs /\ row'[g] = row[g]
    BY <1>3 DEF HasBlob
  <2>2. <<g, row[g]>> \in file
    BY <2>1 DEF DiskInv, RowsHaveFiles, HasBlob, Grow
  <2>3. <<g, row[g]>> \notin old
    BY <1>4, <2>1
  <2> QED  BY <1>0, <2>1, <2>2, <2>3
<1>8. ASSUME NEW g \in Hash, NEW x \in Type, <<g, x>> \in file'
      PROVE  Accounted(g, x)'
  <2>1. <<g, x>> \in file /\ <<g, x>> \notin old
    BY <1>0, <1>8
  <2>2. g \notin hs
    <3>1. SUFFICES ASSUME g \in hs
                   PROVE  FALSE
      OBVIOUS
    <3>2. g = Thumb(req[r].h) /\ <<g, OptMime>> \in old
      BY <1>3, <3>1
    <3>3. g[1] = "thumb"
      BY <1>0, <3>2, KindsOfHash
    <3>4. x = OptMime
      BY <2>1, <3>3 DEF Base, Tables
    <3> QED  BY <2>1, <3>2, <3>4
  <2> QED  BY <1>0, <1>1, <1>3, <2>1, <2>2, FileStays DEF DiskInv, FilesHaveRows, Pending
<1> QED  BY <1>6, <1>7, <1>8 DEF DiskInv, FilesHaveRows

LEMMA NextGrows ==
    ASSUME Next
    PROVE  Grow /\ Recorded'
<1>1. raced \subseteq raced' /\ Recorded'
  <2>1. raced' = raced \cup Overlap'
    BY DEF Next
  <2>2. ASSUME NEW r \in Req, NEW q \in Req, NEW h \in Hash, h \in Storing(r)' /\ h \in Removing(q)'
        PROVE  h \in Overlap'
    <3> DEFINE S == {Storing(a)' \cap Removing(b)' : a \in Req, b \in Req}
    <3>1. Overlap' = UNION S
      BY SMT DEF Overlap
    <3>2. Storing(r)' \cap Removing(q)' \in S
      BY SMT
    <3> HIDE DEF S
    <3>3. h \in Storing(r)' \cap Removing(q)'
      BY <2>2
    <3> QED  BY <3>1, <3>2, <3>3
  <2> QED  BY <2>1, <2>2 DEF Recorded
<1>2. ASSUME NEW r \in Req, Serve(r)
      PROVE  broken \subseteq broken' /\ sent \subseteq sent'
  BY <1>2 DEF Serve, UploadDedup, UploadFound, UploadAdopt, UploadBegin, UploadHashed, UploadCommit,
     UploadInsert, MirrorBegin, MirrorHashed, MirrorDedup, MirrorFound, MirrorAdopt, MirrorCommit, MirrorInsert,
     Dispatch, JobDone, MediaBegin, MediaHashed, MediaLookup, MediaMapped, MediaAdopt, MediaOptimize, MediaRehash,
     MediaHasOptimized, MediaGetOptimized, MediaLink, MediaOwn, MediaCommit, MediaInsert, MediaMap, MediaThumbnail,
     MediaNewThumbnail, DeleteCheck, DeleteDisown, DeleteCount, AdminCheck, Drop, Unlink, Sweep, NextBlob,
     ReadServe, Found, Adopt, CommitWrite, Register, InsertDerivative, StorePreparedThumbnail, hist
<1>3. ASSUME NEW r \in Req, Submit(r)
      PROVE  UNCHANGED <<broken, sent>>
  BY <1>3 DEF Submit, SubmitUpload, SubmitMirror, SubmitMedia, SubmitDelete, SubmitAdminDelete, SubmitRead,
     SubmitAdminUser, SubmitPrune, Start, hist
<1>4. ASSUME (\E w \in Worker : WorkerError(w)) \/ (\E h \in Hash : Age(h)) \/ Crash
      PROVE  broken \subseteq broken' /\ sent \subseteq sent'
  BY <1>4 DEF WorkerError, Age, Crash, hist
<1> QED  BY <1>1, <1>2, <1>3, <1>4 DEF Next, Grow

LEMMA AnswerStands ==
    ASSUME Base, NEW r \in Req, NEW ts, Answer(r, ts)
    PROVE  Stands(r)'
<1>1. req'[r].at = "idle"
  BY AnswerEnds, SMT DEF Base, Idle
<1> QED  BY <1>1, NothingRelied

LEMMA StoreDisk ==
    ASSUME Base, DiskInv, Grow, Recorded', NEW r \in Req,
           \/ UploadAdopt(r) \/ MirrorAdopt(r) \/ MediaAdopt(r) \/ MediaOwn(r)
           \/ UploadCommit(r) \/ MirrorCommit(r) \/ MediaCommit(r)
           \/ UploadInsert(r) \/ MirrorInsert(r) \/ MediaInsert(r) \/ MediaThumbnail(r) \/ MediaNewThumbnail(r)
    PROVE  DiskInv'
<1>0. \A s \in Req \ {r} : req'[s] = req[s]
  BY ServeMovesOne DEF Serve
<1>1. ASSUME NEW ts, Answer(r, ts)
      PROVE  Stands(r)'
  BY <1>1, AnswerStands
<1>2. ASSUME NEW at \in {"newthumb", "map"}, To(r, at)
      PROVE  Stands(r)'
  <2>1. req'[r].at = at
    BY <1>2, ToMoves DEF Base, Label
  <2> QED  BY <2>1, NothingRelied
<1>3. CASE UploadAdopt(r) \/ MirrorAdopt(r) \/ MediaAdopt(r) \/ MediaOwn(r)
  <2>1. Adopt(r) /\ UNCHANGED file /\ req[r].op \in Storers /\ req[r].at \in {"adopt", "own"}
    BY <1>3 DEF UploadAdopt, MirrorAdopt, MediaAdopt, MediaOwn, Adopt, Is, Storers
  <2>2. Stands(r)'
    BY <1>1, <1>2, <1>3 DEF UploadAdopt, MirrorAdopt, MediaAdopt, MediaOwn
  <2>3. CASE UNCHANGED db
    BY <1>0, <2>1, <2>2, <2>3, QuietDisk DEF db
  <2>4. CASE InsertBlob(req[r].h, req[r].ty, req[r].who)
    BY <1>0, <2>1, <2>2, <2>4, InsertDisk
  <2> QED  BY <2>1, <2>3, <2>4 DEF Adopt
<1>4. CASE UploadCommit(r) \/ MirrorCommit(r) \/ MediaCommit(r)
  <2>1. req[r].op \in Storers /\ req[r].at = "commit" /\ UNCHANGED row
    BY <1>4 DEF UploadCommit, MirrorCommit, MediaCommit, CommitWrite, Is, Storers, db
  <2>2. \/ CommitFile(req[r].h, req[r].ty) /\ To(r, "insert")
        \/ UNCHANGED file /\ \E ts : Answer(r, ts)
    BY <1>4 DEF UploadCommit, MirrorCommit, MediaCommit, CommitWrite, AbortWrite
  <2>3. CASE CommitFile(req[r].h, req[r].ty) /\ To(r, "insert")
    BY <2>1, <2>3, CommitDisk
  <2>4. CASE UNCHANGED file /\ \E ts : Answer(r, ts)
    <3>1. Stands(r)'
      BY <1>1, <2>4
    <3> QED  BY <1>0, <2>1, <2>4, <3>1, QuietDisk
  <2> QED  BY <2>2, <2>3, <2>4
<1>5. CASE UploadInsert(r) \/ MirrorInsert(r) \/ MediaInsert(r)
  <2>1. req[r].op \in Storers /\ req[r].at = "insert" /\ UNCHANGED file
    BY <1>5 DEF UploadInsert, MirrorInsert, MediaInsert, Register, Is, Storers
  <2>2. Stands(r)'
    BY <1>1, <1>2, <1>5 DEF UploadInsert, MirrorInsert, MediaInsert, Register
  <2>3. InsertBlob(req[r].h, req[r].ty, req[r].who) \/ (UNCHANGED row /\ req[r].h \in broken')
    BY <1>5 DEF UploadInsert, MirrorInsert, MediaInsert, Register, db
  <2>4. CASE InsertBlob(req[r].h, req[r].ty, req[r].who)
    BY <1>0, <2>1, <2>2, <2>4, InsertDisk
  <2>5. CASE UNCHANGED row /\ req[r].h \in broken'
    BY <1>0, <2>1, <2>2, <2>5, BrokenDisk
  <2> QED  BY <2>3, <2>4, <2>5
<1>6. CASE MediaThumbnail(r) \/ MediaNewThumbnail(r)
  <2>1. req[r].op = "media" /\ req[r].at \in {"thumb", "newthumb"}
    BY <1>6 DEF MediaThumbnail, MediaNewThumbnail, Is
  <2>2. Stands(r)'
    BY <1>1, <1>6 DEF MediaThumbnail, MediaNewThumbnail
  <2>3. CASE UNCHANGED <<db, file>>
    BY <1>0, <2>1, <2>2, <2>3, QuietDisk DEF db
  <2>4. CASE ~UNCHANGED <<db, file>>
    <3>1. StorePreparedThumbnail(r)
      BY <1>6, <2>4 DEF MediaThumbnail, MediaNewThumbnail
    <3>2. /\ CommitFile(Thumb(req[r].h), OptMime)
          /\ \/ InsertBlobRecord(Thumb(req[r].h), OptMime)
             \/ UNCHANGED row /\ Thumb(req[r].h) \in broken'
      BY <2>4, <3>1 DEF StorePreparedThumbnail, db
    <3> QED  BY <1>0, <2>1, <2>2, <3>2, ThumbnailDisk
  <2> QED  BY <2>3, <2>4
<1> QED  BY <1>3, <1>4, <1>5, <1>6

\* The lookups that make a handler rely on what they found.
LEMMA LookupDisk ==
    ASSUME Base, DiskInv, Grow, Recorded', NEW r \in Req,
           \/ UploadFound(r) \/ MirrorFound(r) \/ MediaMapped(r) \/ MediaGetOptimized(r) \/ MediaLink(r)
           \/ DeleteCount(r) \/ AdminCheck(r) \/ NextBlob(r)
    PROVE  DiskInv'
<1>0. /\ \A s \in Req \ {r} : req'[s] = req[s]
      /\ req[r] \in Handler
  BY ServeMovesOne, SlotHandler DEF Serve, Base
<1>1. UNCHANGED <<row, file>> /\ req[r].at \notin {"insert", "unlink"}
  BY DEF UploadFound, MirrorFound, Found, MediaMapped, MediaGetOptimized, MediaLink, InsertDerivative,
     DeleteCount, AdminCheck, NextBlob, Is, db, disk
<1>2. ASSUME NEW ts, Answer(r, ts)
      PROVE  Stands(r)'
  BY <1>2, AnswerStands
<1>3. CASE UploadFound(r) \/ MirrorFound(r)
  <2>1. req'[r].h = req[r].h /\ (HasBlob(req[r].h) \/ req'[r].at \in {"begin", "commit"})
    BY <1>0, <1>3, SMT DEF UploadFound, MirrorFound, Found, Base, TypeOK, Handler
  <2>2. req'[r].at \in {"begin", "commit", "adopt"}
    BY <1>0, <1>3, SMT DEF UploadFound, MirrorFound, Found, Base, TypeOK, Handler
  <2>3. Stands(r)'
    BY <1>1, <2>1, <2>2 DEF Stands, HasBlob
  <2> QED  BY <1>0, <1>1, <2>3, QuietDisk
<1>4. CASE MediaMapped(r) \/ MediaGetOptimized(r)
  <2>1. \/ req'[r].at \in {"adopt", "link"} /\ HasBlob(req'[r].h)
        \/ req'[r].at \in {"optimize", "commit"}
    BY <1>0, <1>4, SMT DEF MediaMapped, MediaGetOptimized, To, Base, TypeOK, Handler
  <2>2. Stands(r)'
    BY <1>1, <2>1 DEF Stands, HasBlob
  <2> QED  BY <1>0, <1>1, <2>2, QuietDisk
<1>5. CASE MediaLink(r)
  <2>1. CASE \E ts : Answer(r, ts)
    BY <1>0, <1>1, <1>2, <2>1, QuietDisk
  <2>2. CASE ~\E ts : Answer(r, ts)
    <3>1. HasBlob(req[r].h) /\ To(r, "own")
      BY <1>5, <2>2 DEF MediaLink, InsertDerivative
    <3>2. req'[r].at = "own" /\ req'[r].h = req[r].h
      BY <3>1, ToMoves DEF Base, Label
    <3>3. Stands(r)'
      BY <1>1, <3>1, <3>2 DEF Stands, HasBlob
    <3> QED  BY <1>0, <1>1, <3>3, QuietDisk
  <2> QED  BY <2>1, <2>2
<1>6. CASE AdminCheck(r)
  <2>1. /\ req'[r].at = "drop" /\ req'[r].h = req[r].h
        /\ req'[r].ty = IF HasBlob(req[r].h) THEN row[req[r].h] ELSE NoType
    BY <1>0, <1>6 DEF AdminCheck, Base, TypeOK, Handler
  <2>2. Stands(r)'
    BY <1>1, <2>1 DEF Stands, HasBlob
  <2> QED  BY <1>0, <1>1, <2>2, QuietDisk
<1>7. CASE DeleteCount(r) \/ NextBlob(r)
  <2>1. Base'
    BY <1>7, RemoveKeeps
  <2>2. CASE Answer(r, tmp)
    BY <1>0, <1>1, <1>2, <2>2, QuietDisk
  <2>3. CASE ~Answer(r, tmp)
    <3>1. req'[r].at = "drop" /\ req'[r].op = req[r].op
      <4>1. CASE DeleteCount(r)
        BY <1>0, <2>3, <4>1, SMT DEF DeleteCount, Base, TypeOK, Handler
      <4>2. CASE NextBlob(r)
        <5>1. PICK b : req' = [req EXCEPT ![r].at = "drop", ![r].todo = @ \ {b}, ![r].h = b[1], ![r].ty = b[2],
                                 ![r].old = IF req[r].op = "prune" THEN ThumbnailsOf(b[1]) ELSE {}]
          BY <2>3, <4>2 DEF NextBlob
        <5> QED  BY <1>0, <5>1, SMT DEF Base, TypeOK, Handler
      <4> QED  BY <1>7, <4>1, <4>2
    <3>2. req[r].op \in {"delete", "user", "prune"}
      BY <1>7, LocalsOf, SlotHandler DEF DeleteCount, NextBlob, Is, Steps, Base, Op, Early
    <3>3. Known(req'[r].h, req'[r].ty, sent')
      BY <2>1, <3>1, <3>2 DEF Base, Shaped, Locals
    <3>4. Stands(r)'
      BY <3>1, <3>3 DEF Stands
    <3> QED  BY <1>0, <1>1, <3>4, QuietDisk
  <2> QED  BY <2>2, <2>3
<1> QED  BY <1>3, <1>4, <1>5, <1>6, <1>7

LEMMA OtherDisk ==
    ASSUME Base, DiskInv, Grow, Recorded', NEW r \in Req,
           \/ UploadDedup(r) \/ UploadBegin(r) \/ UploadHashed(r) \/ MirrorBegin(r) \/ MirrorHashed(r)
           \/ MirrorDedup(r) \/ Dispatch(r) \/ JobDone(r) \/ MediaBegin(r) \/ MediaHashed(r) \/ MediaLookup(r)
           \/ MediaOptimize(r) \/ MediaRehash(r) \/ MediaHasOptimized(r) \/ MediaMap(r)
           \/ DeleteCheck(r) \/ DeleteDisown(r) \/ ReadServe(r)
    PROVE  DiskInv'
<1>0. /\ \A s \in Req \ {r} : req'[s] = req[s]
      /\ req[r] \in Handler
  BY ServeMovesOne, SlotHandler DEF Serve, Base
<1>1. UNCHANGED <<row, file>> /\ req[r].at \notin {"insert", "unlink"}
  BY DEF UploadDedup, UploadBegin, UploadHashed, MirrorBegin, MirrorHashed, MirrorDedup, Dispatch, JobDone,
     MediaBegin, MediaHashed, MediaLookup, MediaOptimize, MediaRehash, MediaHasOptimized, MediaMap, InsertDerivative,
     DeleteCheck, DeleteDisown, ReadServe, Is, db, disk
<1>2. ASSUME NEW ts, Answer(r, ts)
      PROVE  Stands(r)'
  BY <1>2, AnswerStands
<1>3. ASSUME NEW at \in {"dispatch", "await", "hashed", "commit", "dedup", "found", "deriv", "mapped", "optimize",
                         "hasopt", "getopt", "thumb", "count"}, To(r, at)
      PROVE  Stands(r)'
  <2>1. req'[r].at = at
    BY <1>3, ToMoves DEF Base, Label
  <2> QED  BY <2>1, NothingRelied
<1>4. Stands(r)'
  <2>1. CASE UploadDedup(r) \/ MediaOptimize(r) \/ DeleteCheck(r)
    <3>1. (\E ts : Answer(r, ts)) \/ req'[r].at \in {"found", "begin", "rehash", "disown"}
      <4>1. CASE UploadDedup(r)
        BY <1>0, <4>1 DEF UploadDedup, Base, TypeOK, Handler
      <4>2. CASE MediaOptimize(r)
        <5>1. \/ req' = [req EXCEPT ![r].at = "rehash", ![r].h = Opt(@)]
              \/ \E ts : Answer(r, ts)
          BY <4>2 DEF MediaOptimize
        <5>2. req \in [Req -> Handler]
          BY DEF Base, TypeOK
        <5>3. CASE req' = [req EXCEPT ![r].at = "rehash", ![r].h = Opt(@)]
          BY <5>2, <5>3, SMT DEF Handler
        <5> QED  BY <5>1, <5>3
      <4>3. CASE DeleteCheck(r)
        BY <1>0, <4>3, SMT DEF DeleteCheck, Base, TypeOK, Handler
      <4> QED  BY <2>1, <4>1, <4>2, <4>3
    <3> QED  BY <1>2, <3>1, NothingRelied
  <2>2. CASE \/ UploadBegin(r) \/ UploadHashed(r) \/ MirrorBegin(r) \/ MirrorHashed(r) \/ Dispatch(r) \/ JobDone(r)
             \/ MediaBegin(r) \/ MediaHashed(r) \/ MediaRehash(r) \/ MediaMap(r) \/ ReadServe(r)
    BY <1>2, <1>3, <2>2 DEF UploadBegin, UploadHashed, MirrorBegin, MirrorHashed, Dispatch, JobDone,
       MediaBegin, MediaHashed, MediaRehash, MediaMap, ReadServe, Busy, MirrorFetch, BeginWrite, AbortWrite, HandleJob,
       InsertDerivative
  <2>3. CASE MirrorDedup(r) \/ MediaLookup(r) \/ MediaHasOptimized(r) \/ DeleteDisown(r)
    <3>1. \E at \in {"dispatch", "await", "hashed", "commit", "dedup", "found", "deriv", "mapped", "optimize",
                     "hasopt", "getopt", "thumb", "count"} : To(r, at)
      BY <2>3 DEF MirrorDedup, MediaLookup, MediaHasOptimized, DeleteDisown
    <3> QED  BY <1>3, <3>1
  <2> QED  BY <2>1, <2>2, <2>3
<1> QED  BY <1>0, <1>1, <1>4, QuietDisk

LEMMA SubmitMovesOne ==
    ASSUME Base, NEW r \in Req, Submit(r)
    PROVE  /\ \A s \in Req \ {r} : req'[s] = req[s]
           /\ req'[r].at \in {"dedup", "begin", "check", "serve", "loop"}
<1>1. ASSUME NEW op, NEW at \in {"dedup", "begin", "check", "serve"}, NEW p, NEW h, NEW ty, NEW dec,
             Start(r, op, at, p, h, ty, dec)
      PROVE  (\A s \in Req \ {r} : req'[s] = req[s]) /\ req'[r].at = at
  BY <1>1 DEF Start, Idle, Base, TypeOK
<1>2. ASSUME NEW p, SubmitAdminUser(r, p)
      PROVE  (\A s \in Req \ {r} : req'[s] = req[s]) /\ req'[r].at = "loop"
  BY <1>2 DEF SubmitAdminUser, Idle, Base, TypeOK
<1>3. ASSUME SubmitPrune(r)
      PROVE  (\A s \in Req \ {r} : req'[s] = req[s]) /\ req'[r].at = "loop"
  <2>1. PICK found : req' = [req EXCEPT ![r] = [Idle EXCEPT !.op = "prune", !.at = "loop", !.todo = Listed(found)]]
    BY <1>3 DEF SubmitPrune
  <2> QED  BY <2>1 DEF Idle, Base, TypeOK
<1>4. \/ \E op, p, h, ty, dec : \E at \in {"dedup", "begin", "check", "serve"} : Start(r, op, at, p, h, ty, dec)
      \/ \E p : SubmitAdminUser(r, p)
      \/ SubmitPrune(r)
  BY DEF Submit, SubmitUpload, SubmitMirror, SubmitMedia, SubmitDelete, SubmitAdminDelete, SubmitRead
<1> QED  BY <1>1, <1>2, <1>3, <1>4

LEMMA StepKeepsDisk ==
    ASSUME Base, DiskInv, [Next]_vars
    PROVE  DiskInv'
<1>1. CASE UNCHANGED vars
  <2>1. UNCHANGED <<row, file, req, sent, broken, raced>>
    BY <1>1 DEF vars, db, disk, hist
  <2> QED  BY <2>1, SMT DEF DiskInv, Recorded, Storing, Removing, RowsHaveFiles, FilesHaveRows, Accounted, Pending,
              Stands, HasBlob
<1>2. CASE Next
  <2>0. Grow /\ Recorded'
    BY <1>2, NextGrows
  <2>1. ASSUME NEW r \in Req, Serve(r)
        PROVE  DiskInv'
    BY <2>0, <2>1, StoreDisk, LookupDisk, OtherDisk, DropDisk, UnlinkDisk, SweepDisk DEF Serve
  <2>2. ASSUME NEW r \in Req, Submit(r)
        PROVE  DiskInv'
    <3>1. req[r].at = "idle" /\ UNCHANGED <<row, file>>
      BY <2>2 DEF Submit, SubmitUpload, SubmitMirror, SubmitMedia, SubmitDelete, SubmitAdminDelete, SubmitRead,
         SubmitAdminUser, SubmitPrune, Start, db, disk
    <3>2. /\ \A s \in Req \ {r} : req'[s] = req[s]
          /\ req'[r].at \in {"dedup", "begin", "check", "serve", "loop"}
      BY <2>2, SubmitMovesOne
    <3>3. Stands(r)'
      BY <3>2, NothingRelied
    <3> QED  BY <2>0, <3>1, <3>2, <3>3, QuietDisk
  <2>3. CASE (\E w \in Worker : WorkerError(w)) \/ (\E h \in Hash : Age(h))
    <3>1. UNCHANGED <<row, file, req, sent, broken>>
      BY <2>3 DEF WorkerError, Age, disk, db, hist
    <3>2. \A s \in Req : Stands(s)'
      BY <2>0, <3>1 DEF DiskInv, Stands, HasBlob, Grow
    <3>3. RowsHaveFiles'
      BY <2>0, <3>1 DEF DiskInv, RowsHaveFiles, HasBlob, Grow
    <3>4. FilesHaveRows'
      BY <2>0, <3>1, SMT DEF DiskInv, FilesHaveRows, Accounted, Pending, Grow
    <3> QED  BY <2>0, <3>2, <3>3, <3>4 DEF DiskInv
  <2>4. CASE Crash
    <3>1. /\ UNCHANGED <<row, file>> /\ req' = [r \in Req |-> Idle]
          /\ \A r \in Req : req[r].at # "idle" /\ req[r].h # Absent => req[r].h \in broken'
      BY <2>4, SMT DEF Crash, InFlight, db
    <3>2. \A s \in Req : Stands(s)'
      <4>1. \A s \in Req : req'[s].at = "idle"
        BY <3>1 DEF Idle
      <4> QED  BY <4>1, NothingRelied
    <3>3. RowsHaveFiles'
      BY <2>0, <3>1 DEF DiskInv, RowsHaveFiles, HasBlob, Grow
    <3>4. ASSUME NEW h \in Hash, NEW ty \in Type, <<h, ty>> \in file
          PROVE  Accounted(h, ty)'
      <4>1. h # Absent
        BY NodeAssumption DEF Hash
      <4>2. CASE \E r \in Req : Pending(r, h, ty)
        BY <3>1, <4>1, <4>2 DEF Pending, Accounted
      <4>3. CASE ~\E r \in Req : Pending(r, h, ty)
        BY <2>0, <3>1, <3>4, <4>3 DEF DiskInv, FilesHaveRows, Accounted, Grow
      <4> QED  BY <4>2, <4>3
    <3> QED  BY <2>0, <3>1, <3>2, <3>3, <3>4 DEF DiskInv, FilesHaveRows
  <2> QED  BY <1>2, <2>1, <2>2, <2>3, <2>4 DEF Next
<1> QED  BY <1>1, <1>2

LEMMA InitDisk ==
    ASSUME Init
    PROVE  DiskInv
<1>1. \A r \in Req : Storing(r) = {} /\ Stands(r)
  BY DEF Init, Idle, Storing, Stands
<1> QED  BY <1>1 DEF Init, DiskInv, Recorded, RowsHaveFiles, FilesHaveRows, HasBlob

\* Rows and files agree whatever handlers and prune loop interleave, for any
\* number of them: a row that some account owns has its file, and a file has the
\* row that names it or a handler about to write or remove it.
THEOREM DiskAgreesWithIndex == Spec => []DiskMatchesIndex
<1>1. ASSUME Init
      PROVE  DiskInv
  BY <1>1, InitDisk
<1>2. ASSUME Base, DiskInv, [Next]_vars
      PROVE  DiskInv'
  BY <1>2, StepKeepsDisk
<1>3. ASSUME Base, DiskInv
      PROVE  DiskMatchesIndex
  <2>1. ASSUME NEW o \in owners, o[1] \notin raced \cup broken
        PROVE  <<o[1], row[o[1]]>> \in file
    <3>1. PICK h \in Hash, p \in Pubkey : o = <<h, p>>
      BY <1>3, <2>1, SMT DEF Base, TypeOK, Rows
    <3>2. o[1] = h /\ HasBlob(h)
      BY <1>3, <2>1, <3>1 DEF Base, Tables
    <3> QED  BY <1>3, <2>1, <3>2 DEF DiskInv, RowsHaveFiles
  <2>2. ASSUME NEW f \in file
        PROVE  \/ row[f[1]] = f[2]
               \/ \E r \in Req : f[1] \in Storing(r) \cup Removing(r)
               \/ f[1] \in raced \cup broken
               \/ \E ty \in Type \ {f[2]} : <<f[1], ty>> \in sent
    <3>1. f[1] \in Hash /\ f[2] \in Type /\ f = <<f[1], f[2]>>
      BY <1>3, <2>2, SMT DEF Base, TypeOK, Rows
    <3>2. Accounted(f[1], f[2])
      BY <1>3, <2>2, <3>1 DEF DiskInv, FilesHaveRows
    <3>3. \A r \in Req : Pending(r, f[1], f[2]) => f[1] \in Storing(r) \cup Removing(r)
      BY DEF Pending, Storing, Removing
    <3> QED  BY <3>2, <3>3 DEF Accounted
  <2> QED  BY <2>1, <2>2 DEF DiskMatchesIndex
<1> QED  BY <1>1, <1>2, <1>3, AlwaysBase, PTL DEF Spec

-----------------------------------------------------------------------------
(* Who loses a blob.                                                       *)

NoOwner(h) == \A p \in Pubkey : <<h, p>> \notin owners
Doomed(s, h) ==
    \/ req[s].at = "drop" /\ req[s].h = h
    \/ \E ty \in Type : <<h, ty>> \in req[s].todo

\* A delete that is past its count found no owner, and what the prune loop has
\* still to drop was ownerless or unseen when it was listed.
DeleteOK(s) ==
    req[s].op = "delete" /\ req[s].at = "drop" /\ req[s].h \notin raced => NoOwner(req[s].h)
PruneOK(s) ==
    req[s].op = "prune" => \A h \in fresh : Doomed(s, h) => h \in touched \/ NoOwner(h)
KeptInv == \A s \in Req : DeleteOK(s) /\ PruneOK(s)

LEMMA CountsOwners ==
    ASSUME NEW h
    PROVE  CountOwners(h) \in Nat /\ (CountOwners(h) = 0 <=> NoOwner(h))
<1> DEFINE S == {p \in Pubkey : <<h, p>> \in owners}
<1>1. IsFiniteSet(S)
  BY NodeAssumption, FS_Subset
<1>2. Cardinality(S) \in Nat /\ (Cardinality(S) = 0 <=> S = {})
  BY <1>1, FS_CardinalityType, FS_EmptySet
<1> QED  BY <1>2 DEF CountOwners, NoOwner

LEMMA OpStays ==
    ASSUME Base, NEW r \in Req, Serve(r)
    PROVE  req'[r].op \in {req[r].op, "none"}
<1>0. req[r] \in Handler
  BY SlotHandler DEF Base
<1>1. ASSUME NEW at, To(r, at)
      PROVE  req'[r].op = req[r].op
  BY <1>0, <1>1 DEF To, Base, TypeOK, Handler
<1>2. ASSUME NEW ts, Answer(r, ts)
      PROVE  req'[r].op = "none"
  BY <1>2, AnswerEnds, SMT DEF Base, Idle
<1>3. CASE UploadDedup(r) \/ UploadFound(r) \/ MirrorFound(r) \/ AdminCheck(r)
  BY <1>0, <1>3, SMT DEF UploadDedup, UploadFound, MirrorFound, Found, AdminCheck, Base, TypeOK, Handler
<1>4. CASE MediaMapped(r) \/ MediaGetOptimized(r)
  BY <1>0, <1>1, <1>4, SMT DEF MediaMapped, MediaGetOptimized, Base, TypeOK, Handler
<1>5. CASE DeleteCheck(r) \/ DeleteCount(r) \/ Sweep(r)
  BY <1>0, <1>2, <1>5, SMT DEF DeleteCheck, DeleteCount, Sweep, Base, TypeOK, Handler
<1>6. CASE MediaOptimize(r)
  BY <1>0, <1>2, <1>6 DEF MediaOptimize, Base, TypeOK, Handler
<1>7. CASE NextBlob(r)
  <2>1. CASE Answer(r, tmp)
    BY <1>2, <2>1
  <2>2. CASE ~Answer(r, tmp)
    <3>1. PICK b : req' = [req EXCEPT ![r].at = "drop", ![r].todo = @ \ {b}, ![r].h = b[1], ![r].ty = b[2],
                             ![r].old = IF req[r].op = "prune" THEN ThumbnailsOf(b[1]) ELSE {}]
      BY <1>7, <2>2 DEF NextBlob
    <3> QED  BY <1>0, <3>1, SMT DEF Base, TypeOK, Handler
  <2> QED  BY <2>1, <2>2
<1>8. CASE \/ UploadAdopt(r) \/ MirrorAdopt(r) \/ MediaAdopt(r) \/ UploadInsert(r) \/ MirrorInsert(r)
           \/ MediaInsert(r) \/ MediaThumbnail(r) \/ MediaNewThumbnail(r) \/ ReadServe(r) \/ Drop(r) \/ Unlink(r)
           \/ DeleteDisown(r) \/ MediaOwn(r) \/ MediaHasOptimized(r) \/ MirrorDedup(r) \/ MediaLookup(r)
  BY <1>1, <1>2, <1>8 DEF UploadAdopt, MirrorAdopt, MediaAdopt, UploadInsert, MirrorInsert, Register, MediaInsert,
     MediaThumbnail, MediaNewThumbnail, ReadServe, Drop, Unlink, DeleteDisown, MediaOwn, MediaHasOptimized,
     MirrorDedup, MediaLookup
<1>9. CASE \/ UploadBegin(r) \/ MirrorBegin(r) \/ MediaBegin(r) \/ Dispatch(r) \/ JobDone(r)
           \/ UploadHashed(r) \/ MirrorHashed(r) \/ MediaHashed(r) \/ MediaRehash(r)
           \/ UploadCommit(r) \/ MirrorCommit(r) \/ MediaCommit(r) \/ MediaLink(r) \/ MediaMap(r)
  BY <1>1, <1>2, <1>9 DEF UploadBegin, MirrorBegin, MediaBegin, Busy, MirrorFetch, BeginWrite, Dispatch, JobDone,
     HandleJob, AbortWrite, UploadHashed, MirrorHashed, MediaHashed, MediaRehash, UploadCommit, MirrorCommit,
     CommitWrite, MediaCommit, MediaLink, MediaMap, InsertDerivative
<1> QED  BY <1>3, <1>4, <1>5, <1>6, <1>7, <1>8, <1>9 DEF Serve

\* Only these take owners away; the others add at most the handler's own.
LEMMA OwnersChange ==
    ASSUME Base, NEW r \in Req, Serve(r)
    PROVE  /\ owners \subseteq owners' \/ DeleteDisown(r) \/ Drop(r) \/ Sweep(r)
           /\ \A h \in Hash : NoOwner(h) => NoOwner(h)' \/ h \in Storing(r)
<1>1. CASE \/ UploadAdopt(r) \/ MirrorAdopt(r) \/ MediaAdopt(r) \/ MediaOwn(r)
           \/ UploadInsert(r) \/ MirrorInsert(r) \/ MediaInsert(r)
  <2>1. req[r].at \in {"adopt", "own", "insert"}
    BY <1>1 DEF UploadAdopt, MirrorAdopt, MediaAdopt, MediaOwn, UploadInsert, MirrorInsert, MediaInsert, Is
  <2>2. UNCHANGED owners \/ owners' = owners \cup {<<req[r].h, req[r].who>>}
    BY <1>1 DEF UploadAdopt, MirrorAdopt, MediaAdopt, MediaOwn, Adopt, UploadInsert, MirrorInsert, MediaInsert,
       Register, InsertBlob, db
  <2>3. req[r].h \in Storing(r)
    BY <2>1 DEF Storing
  <2> QED  BY <2>2, <2>3 DEF NoOwner
<1>2. CASE DeleteDisown(r) \/ Drop(r) \/ Sweep(r)
  <2>1. owners' \subseteq owners
    BY <1>2 DEF DeleteDisown, RemoveOwner, Drop, Sweep, DeleteBlobs
  <2> QED  BY <1>2, <2>1 DEF NoOwner
<1>3. CASE MediaThumbnail(r) \/ MediaNewThumbnail(r)
  <2>1. UNCHANGED owners
    BY <1>3 DEF MediaThumbnail, MediaNewThumbnail, StorePreparedThumbnail, InsertBlobRecord, db
  <2> QED  BY <2>1 DEF NoOwner
<1>4. CASE \/ UploadDedup(r) \/ UploadFound(r) \/ UploadBegin(r) \/ UploadHashed(r) \/ UploadCommit(r)
           \/ MirrorBegin(r) \/ MirrorHashed(r) \/ MirrorDedup(r) \/ MirrorFound(r) \/ MirrorCommit(r)
           \/ Dispatch(r) \/ JobDone(r) \/ MediaBegin(r) \/ MediaHashed(r) \/ MediaLookup(r) \/ MediaMapped(r)
           \/ MediaOptimize(r) \/ MediaRehash(r) \/ MediaHasOptimized(r) \/ MediaGetOptimized(r) \/ MediaLink(r)
           \/ MediaCommit(r) \/ MediaMap(r) \/ DeleteCheck(r) \/ DeleteCount(r) \/ AdminCheck(r) \/ Unlink(r)
           \/ NextBlob(r) \/ ReadServe(r)
  <2>1. UNCHANGED owners
    BY <1>4 DEF UploadDedup, UploadFound, UploadBegin, UploadHashed, UploadCommit, MirrorBegin, MirrorHashed,
       MirrorDedup, MirrorFound, MirrorCommit, Found, CommitWrite, Dispatch, JobDone, MediaBegin, MediaHashed,
       MediaLookup, MediaMapped, MediaOptimize, MediaRehash, MediaHasOptimized, MediaGetOptimized, MediaLink,
       MediaCommit, MediaMap, InsertDerivative, DeleteCheck, DeleteCount, AdminCheck, Unlink, NextBlob, ReadServe, db
  <2> QED  BY <2>1 DEF NoOwner
<1> QED  BY <1>1, <1>2, <1>3, <1>4 DEF Serve

\* What is read or stored while the loop runs is noted, whoever does it.
LEMMA PruneStays ==
    ASSUME Base, Base', Next, NEW s \in Req, PruneOK(s), req[s].op = "prune", req'[s].op = "prune",
           \A h \in Hash : Doomed(s, h)' => Doomed(s, h)
    PROVE  PruneOK(s)'
<1>1. touched' = touched \cup (fresh' \ fresh) \cup {o[1] : o \in owners' \ owners}
  BY DEF Next, Pruning
<1>2. ASSUME NEW h \in fresh', Doomed(s, h)'
      PROVE  h \in touched' \/ NoOwner(h)'
  <2>1. h \in Hash /\ Doomed(s, h)
    BY <1>2 DEF Base, TypeOK, Rows
  <2>2. CASE h \notin fresh \/ h \in touched
    BY <1>1, <1>2, <2>2
  <2>3. CASE h \in fresh /\ NoOwner(h)
    <3>1. ASSUME NEW p \in Pubkey, <<h, p>> \in owners'
          PROVE  h \in touched'
      <4>1. <<h, p>> \in owners' \ owners /\ h = <<h, p>>[1]
        BY <2>3, <3>1 DEF NoOwner
      <4> QED  BY <1>1, <4>1
    <3> QED  BY <3>1 DEF NoOwner
  <2> QED  BY <2>1, <2>2, <2>3 DEF PruneOK
<1> QED  BY <1>2 DEF PruneOK

\* The handler itself: only a count that found no owner leads to the drop, and
\* the loop only takes from its list.
LEMMA ServeKept ==
    ASSUME Base, NEW r \in Req, Serve(r)
    PROVE  /\ DeleteOK(r)'
           /\ req'[r].op = "prune" =>
                req[r].op = "prune" /\ \A h \in Hash : Doomed(r, h)' => Doomed(r, h)
<1>0. req[r] \in Handler /\ Steps(req[r])
  BY SlotHandler, LocalsOf DEF Base
<1>1. ASSUME req'[r].op = "delete", req'[r].at = "drop"
      PROVE  \A p \in Pubkey : <<req'[r].h, p>> \notin owners'
  <2>1. req[r].op = "delete"
    BY <1>1, OpStays
  <2>2. req[r].at \in {"check", "disown", "count", "drop", "unlink", "sweep"}
    BY <1>0, <2>1 DEF Steps
  <2>3. DeleteCheck(r) \/ DeleteDisown(r) \/ DeleteCount(r) \/ Drop(r) \/ Unlink(r) \/ Sweep(r)
    BY <2>1, <2>2 DEF Serve, UploadDedup, UploadFound, UploadAdopt, UploadBegin, UploadHashed, UploadCommit,
       UploadInsert, MirrorBegin, MirrorHashed, MirrorDedup, MirrorFound, MirrorAdopt, MirrorCommit, MirrorInsert,
       Dispatch, JobDone, MediaBegin, MediaHashed, MediaLookup, MediaMapped, MediaAdopt, MediaOptimize, MediaRehash,
       MediaHasOptimized, MediaGetOptimized, MediaLink, MediaOwn, MediaCommit, MediaInsert, MediaMap, MediaThumbnail,
       MediaNewThumbnail, AdminCheck, NextBlob, ReadServe, Is
  <2>4. CASE DeleteCount(r)
    <3>1. ~(CountOwners(req[r].h) > 0)
      BY <1>1, <2>4, AnswerEnds, SMT DEF DeleteCount, Base, Idle
    <3>2. req'[r].h = req[r].h /\ UNCHANGED owners
      BY <1>0, <2>4, <3>1 DEF DeleteCount, Base, TypeOK, Handler, db
    <3>3. NoOwner(req[r].h)
      BY <3>1, CountsOwners, SMT
    <3> QED  BY <3>2, <3>3 DEF NoOwner
  <2>5. CASE DeleteCheck(r)
    <3>1. req'[r].at = "disown" \/ Answer(r, tmp)
      BY <1>0, <2>5 DEF DeleteCheck, Base, TypeOK, Handler
    <3> QED  BY <1>1, <3>1, AnswerEnds, SMT DEF Base, Idle
  <2>6. CASE DeleteDisown(r) \/ Drop(r) \/ Unlink(r)
    <3>1. req'[r].at \in {"count", "unlink", "sweep"}
      BY <2>6, ToMoves DEF DeleteDisown, Drop, Unlink, Base, Label
    <3> QED  BY <1>1, <3>1
  <2>7. CASE Sweep(r)
    <3>1. Answer(r, tmp)
      BY <2>1, <2>7 DEF Sweep
    <3> QED  BY <1>1, <3>1, AnswerEnds, SMT DEF Base, Idle
  <2> QED  BY <2>3, <2>4, <2>5, <2>6, <2>7
<1>2. ASSUME req'[r].op = "prune"
      PROVE  req[r].op = "prune" /\ \A h \in Hash : Doomed(r, h)' => Doomed(r, h)
  <2>1. req[r].op = "prune"
    BY <1>2, OpStays, ZenonT(30)
  <2>2. req[r].at \in {"loop", "drop", "unlink", "sweep"}
    BY <1>0, <2>1 DEF Steps
  <2>3. NextBlob(r) \/ Drop(r) \/ Unlink(r) \/ Sweep(r)
    BY <2>1, <2>2 DEF Serve, UploadDedup, UploadFound, UploadAdopt, UploadBegin, UploadHashed, UploadCommit,
       UploadInsert, MirrorBegin, MirrorHashed, MirrorDedup, MirrorFound, MirrorAdopt, MirrorCommit, MirrorInsert,
       Dispatch, JobDone, MediaBegin, MediaHashed, MediaLookup, MediaMapped, MediaAdopt, MediaOptimize, MediaRehash,
       MediaHasOptimized, MediaGetOptimized, MediaLink, MediaOwn, MediaCommit, MediaInsert, MediaMap, MediaThumbnail,
       MediaNewThumbnail, DeleteCheck, DeleteDisown, DeleteCount, AdminCheck, ReadServe, Is
  <2>4. ASSUME NEW ts, Answer(r, ts)
        PROVE  FALSE
    <3>1. req'[r].op = "none"
      BY <2>4, AnswerEnds, SMT DEF Base, Idle
    <3> QED  BY <1>2, <3>1
  <2>5. CASE NextBlob(r)
    <3>1. PICK b \in req[r].todo : req' = [req EXCEPT ![r].at = "drop", ![r].todo = @ \ {b}, ![r].h = b[1],
                 ![r].ty = b[2], ![r].old = IF req[r].op = "prune" THEN ThumbnailsOf(b[1]) ELSE {}]
      BY <2>4, <2>5 DEF NextBlob
    <3>2. req'[r].h = b[1] /\ req'[r].todo \subseteq req[r].todo
      BY <1>0, <3>1, SMT DEF Base, TypeOK, Handler
    <3>3. \E ty \in Type : <<b[1], ty>> \in req[r].todo
      BY <1>0, <3>1, SMT DEF Handler
    <3> QED  BY <2>1, <3>2, <3>3 DEF Doomed
  <2>6. CASE Drop(r) \/ Unlink(r)
    <3>1. req'[r].at \in {"unlink", "sweep"} /\ req'[r].todo = req[r].todo
      BY <1>0, <2>6, SMT DEF Drop, Unlink, To, Base, TypeOK, Handler
    <3> QED  BY <2>1, <3>1 DEF Doomed
  <2>7. CASE Sweep(r)
    <3>1. req'[r].at = "loop" /\ req'[r].todo = req[r].todo
      BY <1>0, <2>1, <2>7, SMT DEF Sweep, Base, TypeOK, Handler
    <3> QED  BY <2>1, <3>1 DEF Doomed
  <2> QED  BY <2>3, <2>5, <2>6, <2>7
<1> QED  BY <1>1, <1>2 DEF DeleteOK, NoOwner

LEMMA SubmitKept ==
    ASSUME Base, KeptInv, NEW r \in Req, Submit(r), Next
    PROVE  DeleteOK(r)' /\ PruneOK(r)'
<1>0. UNCHANGED <<owners, fresh>> /\ req[r].at = "idle"
  BY DEF Submit, SubmitUpload, SubmitMirror, SubmitMedia, SubmitDelete, SubmitAdminDelete, SubmitRead,
     SubmitAdminUser, SubmitPrune, Start, db
<1>1. ASSUME NEW op, NEW at \in {"dedup", "begin", "check", "serve"}, NEW p, NEW h, NEW ty, NEW dec, op # "prune",
             Start(r, op, at, p, h, ty, dec)
      PROVE  DeleteOK(r)' /\ PruneOK(r)'
  <2>1. req'[r].at = at /\ req'[r].op = op
    BY <1>1 DEF Start, Idle, Base, TypeOK
  <2> QED  BY <1>1, <2>1 DEF DeleteOK, PruneOK
<1>2. ASSUME NEW p, SubmitAdminUser(r, p)
      PROVE  DeleteOK(r)' /\ PruneOK(r)'
  <2>1. req'[r].op = "user"
    BY <1>2 DEF SubmitAdminUser, Idle, Base, TypeOK
  <2> QED  BY <2>1 DEF DeleteOK, PruneOK
<1>3. ASSUME SubmitPrune(r)
      PROVE  DeleteOK(r)' /\ PruneOK(r)'
  <2>1. PICK found \in {Expired(rule) : rule \in Rules} \cup {Ownerless} :
          req' = [req EXCEPT ![r] = [Idle EXCEPT !.op = "prune", !.at = "loop", !.todo = Listed(found)]]
    BY <1>3 DEF SubmitPrune
  <2>2. req'[r].op = "prune" /\ req'[r].at = "loop" /\ req'[r].todo = Listed(found)
    BY <2>1 DEF Idle, Base, TypeOK
  <2>3. \A h \in found : h \notin fresh \/ NoOwner(h)
    BY <2>1, CountsOwners DEF Expired, Ownerless
  <2>4. ASSUME NEW h, NEW ty, <<h, ty>> \in Listed(found)
        PROVE  h \in found
    BY <2>4 DEF Listed
  <2>5. \A h : NoOwner(h)' <=> NoOwner(h)
    BY <1>0 DEF NoOwner
  <2> QED  BY <1>0, <2>2, <2>3, <2>4, <2>5 DEF DeleteOK, PruneOK, Doomed
<1>4. \/ \E op, p, h, ty, dec : \E at \in {"dedup", "begin", "check", "serve"} :
            op # "prune" /\ Start(r, op, at, p, h, ty, dec)
      \/ \E p : SubmitAdminUser(r, p)
      \/ SubmitPrune(r)
  BY DEF Submit, SubmitUpload, SubmitMirror, SubmitMedia, SubmitDelete, SubmitAdminDelete, SubmitRead
<1> QED  BY <1>1, <1>2, <1>3, <1>4

\* The requests a step leaves alone.
LEMMA OthersKept ==
    ASSUME Base, Base', Recorded, Grow, KeptInv, Next, NEW s \in Req, req'[s] = req[s],
           \A h \in Hash : NoOwner(h) => NoOwner(h)' \/ \E r \in Req : h \in Storing(r)
    PROVE  DeleteOK(s)' /\ PruneOK(s)'
<1>1. DeleteOK(s)'
  <2> SUFFICES ASSUME req[s].op = "delete", req[s].at = "drop", req[s].h \notin raced'
               PROVE  NoOwner(req[s].h)'
    BY DEF DeleteOK
  <2>1. req[s].h \in Hash /\ req[s].h \in Removing(s) /\ req[s].h \notin raced
    BY LocalsOf DEF Locals, Removing, Grow
  <2>2. NoOwner(req[s].h)
    BY <2>1 DEF KeptInv, DeleteOK
  <2> QED  BY <2>1, <2>2 DEF Recorded
<1>2. PruneOK(s)'
  <2>1. CASE req[s].op = "prune"
    <3>1. \A h \in Hash : Doomed(s, h)' => Doomed(s, h)
      BY DEF Doomed
    <3> QED  BY <2>1, <3>1, PruneStays DEF KeptInv
  <2>2. CASE req[s].op # "prune"
    BY <2>2 DEF PruneOK
  <2> QED  BY <2>1, <2>2
<1> QED  BY <1>1, <1>2

LEMMA StepKeepsKept ==
    ASSUME Base, Base', Recorded, KeptInv, [Next]_vars
    PROVE  KeptInv'
<1>1. CASE UNCHANGED vars
  <2>1. UNCHANGED <<owners, fresh, req, raced, touched>>
    BY <1>1 DEF vars, db
  <2> QED  BY <2>1 DEF KeptInv, DeleteOK, PruneOK, Doomed, NoOwner
<1>2. CASE Next
  <2>0. Grow
    BY <1>2, NextGrows
  <2>1. ASSUME NEW r \in Req, Serve(r)
        PROVE  KeptInv'
    <3>1. /\ \A s \in Req \ {r} : req'[s] = req[s]
          /\ \A h \in Hash : NoOwner(h) => NoOwner(h)' \/ \E q \in Req : h \in Storing(q)
      BY <2>1, ServeMovesOne, OwnersChange
    <3>2. \A s \in Req \ {r} : DeleteOK(s)' /\ PruneOK(s)'
      BY <1>2, <2>0, <3>1, OthersKept
    <3>3. DeleteOK(r)'
      BY <2>1, ServeKept
    <3>4. PruneOK(r)'
      <4>1. CASE req'[r].op = "prune"
        <5>1. req[r].op = "prune" /\ \A h \in Hash : Doomed(r, h)' => Doomed(r, h)
          BY <2>1, <4>1, ServeKept
        <5> QED  BY <1>2, <4>1, <5>1, PruneStays DEF KeptInv
      <4>2. CASE req'[r].op # "prune"
        BY <4>2 DEF PruneOK
      <4> QED  BY <4>1, <4>2
    <3> QED  BY <3>2, <3>3, <3>4 DEF KeptInv
  <2>2. ASSUME NEW r \in Req, Submit(r)
        PROVE  KeptInv'
    <3>1. /\ \A s \in Req \ {r} : req'[s] = req[s]
          /\ UNCHANGED owners
      BY <2>2, SubmitMovesOne DEF Submit, SubmitUpload, SubmitMirror, SubmitMedia, SubmitDelete, SubmitAdminDelete,
         SubmitRead, SubmitAdminUser, SubmitPrune, Start, db
    <3>2. \A h \in Hash : NoOwner(h) => NoOwner(h)' \/ \E q \in Req : h \in Storing(q)
      BY <3>1 DEF NoOwner
    <3>3. \A s \in Req \ {r} : DeleteOK(s)' /\ PruneOK(s)'
      BY <1>2, <2>0, <3>1, <3>2, OthersKept
    <3> QED  BY <1>2, <2>2, <3>3, SubmitKept DEF KeptInv
  <2>3. CASE (\E w \in Worker : WorkerError(w)) \/ (\E h \in Hash : Age(h))
    <3>1. UNCHANGED <<req, owners>>
      BY <2>3 DEF WorkerError, Age, db
    <3>2. \A h \in Hash : NoOwner(h) => NoOwner(h)' \/ \E q \in Req : h \in Storing(q)
      BY <3>1 DEF NoOwner
    <3> QED  BY <1>2, <2>0, <3>1, <3>2, OthersKept DEF KeptInv
  <2>4. CASE Crash
    <3>1. \A s \in Req : req'[s].op = "none"
      BY <2>4 DEF Crash, Idle
    <3> QED  BY <3>1 DEF KeptInv, DeleteOK, PruneOK
  <2> QED  BY <1>2, <2>1, <2>2, <2>3, <2>4 DEF Next
<1> QED  BY <1>1, <1>2

\* An account loses a blob only through its own delete, an operator or the
\* prune loop, or where a delete overlapped with a store of the same hash; and
\* the loop drops a blob read or stored inside the window only when that
\* happened after it had listed it: for any number of accounts and handlers.
THEOREM BlobsAreKept == Spec => BlobsKept
<1>1. ASSUME Init
      PROVE  KeptInv
  BY <1>1 DEF Init, Idle, KeptInv, DeleteOK, PruneOK
<1>2. ASSUME Base, Base', DiskInv, KeptInv, [Next]_vars
      PROVE  KeptInv'
  BY <1>2, StepKeepsKept DEF DiskInv
<1>3. ASSUME Base, KeptInv, Next, NEW o \in owners \ owners'
      PROVE  \/ \E r \in Req : /\ req[r].h = o[1]
                               /\ \/ req[r].op = "delete" /\ req[r].who = o[2]
                                  \/ req[r].op \in {"admin", "user", "prune"}
             \/ o[1] \in raced
  <2>1. PICK r \in Req : Serve(r)
    BY <1>3 DEF Next, Submit, SubmitUpload, SubmitMirror, SubmitMedia, SubmitDelete, SubmitAdminDelete, SubmitRead,
       SubmitAdminUser, SubmitPrune, Start, WorkerError, Age, Crash, db
  <2>2. DeleteDisown(r) \/ Drop(r) \/ Sweep(r)
    BY <1>3, <2>1, OwnersChange
  <2>3. PICK h \in Hash, p \in Pubkey : o = <<h, p>>
    BY <1>3, SMT DEF Base, TypeOK, Rows
  <2>4. h[1] # "thumb"
    BY <1>3, <2>3 DEF Base, Tables
  <2>5. CASE DeleteDisown(r)
    <3>1. o = <<req[r].h, req[r].who>> /\ req[r].op = "delete"
      BY <1>3, <2>5 DEF DeleteDisown, RemoveOwner, Is
    <3> QED  BY <3>1
  <2>6. CASE Drop(r)
    <3>1. req[r].at = "drop" /\ req[r].h = o[1]
      BY <1>3, <2>6 DEF Drop, DeleteBlobs
    <3>2. req[r].op \in {"delete", "admin", "user", "prune"}
      BY <1>3, <3>1, LocalsOf, SlotHandler DEF Steps, Base, Op, Early
    <3>3. req[r].op = "delete" => o[1] \in raced
      BY <1>3, <2>3, <3>1 DEF KeptInv, DeleteOK, NoOwner
    <3> QED  BY <3>1, <3>2, <3>3
  <2>7. CASE Sweep(r)
    <3>1. PICK t \in req[r].old : t[1] = h
      BY <1>3, <2>3, <2>7 DEF Sweep, DeleteBlobs
    <3>2. t = <<Thumb(req[r].h), OptMime>>
      BY <1>3, LocalsOf DEF Locals
    <3>3. h[1] = "thumb"
      BY <3>1, <3>2 DEF Thumb
    <3> QED  BY <2>4, <3>3
  <2> QED  BY <2>2, <2>5, <2>6, <2>7
<1>4. ASSUME Base, KeptInv, NEW r \in Req, NEW h \in fresh, Is(r, "prune", "drop"), req[r].h = h
      PROVE  h \in touched \/ CountOwners(h) = 0
  BY <1>4, CountsOwners DEF KeptInv, PruneOK, Doomed, Is
<1>5. Base /\ KeptInv /\ [Next]_vars =>
        [/\ \A o \in owners \ owners' :
              \/ \E r \in Req : /\ req[r].h = o[1]
                                /\ \/ req[r].op = "delete" /\ req[r].who = o[2]
                                   \/ req[r].op \in {"admin", "user", "prune"}
              \/ o[1] \in raced
         /\ \A r \in Req, h \in fresh :
              Is(r, "prune", "drop") /\ req[r].h = h /\ row'[h] # row[h]
                 => h \in touched \/ CountOwners(h) = 0]_vars
  BY <1>3, <1>4
<1>6. Init => DiskInv
  BY InitDisk
<1>7. Base /\ DiskInv /\ [Next]_vars => DiskInv'
  BY StepKeepsDisk
<1> QED  BY <1>1, <1>2, <1>5, <1>6, <1>7, AlwaysBase, PTL DEF Spec, BlobsKept

=============================================================================
