---------------------------- MODULE StorageNode ----------------------------
(***************************************************************************)
(* One storage node (storage-client/blossom): the blob table in SQLite,    *)
(* the blob files, the temporary files of uploads, the pool of upload      *)
(* workers, and the handlers that change them: PUT /upload, PUT /mirror,   *)
(* PUT /media, DELETE /:sha256, GET /:sha256, the admin deletions and the  *)
(* prune loop.  A handler is one request slot; it takes one step per await *)
(* that reads or writes shared state, so handlers interleave as they do    *)
(* on the event loop of the node.  A request that its checks refuse before *)
(* it touches anything leaves no trace and is not a step.                  *)
(***************************************************************************)
EXTENDS Integers, FiniteSets

CONSTANTS
    Pubkey,      \* accounts
    Original,    \* contents that clients send
    Mime,        \* declared types that map to a file extension
    NoType,      \* application/octet-stream: stored as NULL, no extension
    OptMime,     \* the type of what the optimizer writes
    Absent,      \* no row
    Req,         \* request slots
    Worker,      \* upload workers
    MaxJobs,     \* maxJobsPerWorker
    Rules,       \* the types named by the storage rules with an expiration
    Ops,         \* the operations clients and operators use
    Faults,      \* which steps may fail (one of them in a behaviour)
    MaxRequests  \* bound on the requests in a behaviour

\* The markers stand for no value; what the optimizer writes has an extension.
ASSUME NodeAssumption ==
    /\ Absent \notin Mime \cup {NoType} \cup Pubkey \cup Worker
    /\ Absent \notin {"in", "opt", "thumb"} \X Original
    /\ OptMime \in Mime
    /\ MaxJobs \in Nat
    /\ IsFiniteSet(Pubkey) /\ IsFiniteSet(Req)

AnyType == "*"
Type == Mime \cup {NoType}

\* A content, what the optimizer makes of it, and the thumbnail of that.
Hash == {"in", "opt", "thumb"} \X Original
Opt(h) == <<"opt", h[2]>>
Thumb(h) == <<"thumb", h[2]>>

VARIABLES
    row,       \* blobs: the type of each stored hash, or Absent
    owners,    \* owners: pairs of hash and pubkey
    fresh,     \* hashes whose accessed time is inside the expiration window
    deriv,     \* media_derivatives: pairs of original and optimized hash
    thumbs,    \* media_thumbnails: pairs of parent and thumbnail hash
    file,      \* stored files: pairs of hash and type (the extension)
    tmp,       \* temporary files: pairs of request slot and role
    count,     \* jobCount of each worker
    job,       \* the worker a request's job runs on, or Absent
    req,       \* the handler in each slot
    issued,    \* how many requests there were, up to MaxRequests
    \* History, read by the properties only.
    left,      \* temporary files that the last request to end left behind
    raced,     \* hashes a writer and a remover worked on at the same time
    sent,      \* pairs of hash and type that were ever committed
    broken,    \* hashes a failed step or a crash left half done
    erred,     \* workers that raised an error event
    touched    \* hashes read or stored after the prune loop listed the table

db == <<row, owners, fresh, deriv, thumbs>>
disk == <<file, tmp>>
pool == <<count, job>>
hist == <<sent, broken, erred>>
vars == <<db, disk, pool, req, issued, left, hist, raced, touched>>

Idle == [op |-> "none", at |-> "idle", who |-> Absent, h |-> Absent,
         ty |-> Absent, dec |-> FALSE, cut |-> FALSE, todo |-> {}, old |-> {}]

Init ==
    /\ row = [h \in Hash |-> Absent]
    /\ owners = {} /\ fresh = {} /\ deriv = {} /\ thumbs = {}
    /\ file = {} /\ tmp = {} /\ left = {}
    /\ count = [w \in Worker |-> 0]
    /\ job = [r \in Req |-> Absent]
    /\ req = [r \in Req |-> Idle] /\ issued = 0
    /\ raced = {} /\ sent = {} /\ broken = {} /\ erred = {} /\ touched = {}

-----------------------------------------------------------------------------
(* The tables (db/blobs.ts).                                               *)

GetBlob(h) == row[h]
HasBlob(h) == row[h] # Absent
IsOwner(h, p) == <<h, p>> \in owners
CountOwners(h) == Cardinality({p \in Pubkey : <<h, p>> \in owners})
ThumbnailsOf(h) == {<<t, row[t]>> : t \in {u \in Hash : <<h, u>> \in thumbs}}
GetMediaThumbnail(h) == ThumbnailsOf(h) # {}
GetMediaDerivative(h) == <<h, Opt(h)>> \in deriv

\* INSERT OR IGNORE: the first row of a hash keeps its type.
InsertBlob(h, ty, p) ==
    /\ row' = IF HasBlob(h) THEN row ELSE [row EXCEPT ![h] = ty]
    /\ owners' = owners \cup {<<h, p>>}
    /\ fresh' = fresh \cup {h}
    /\ UNCHANGED <<deriv, thumbs>>

\* The record of a thumbnail has no owner.
InsertBlobRecord(t, ty) ==
    /\ row' = IF HasBlob(t) THEN row ELSE [row EXCEPT ![t] = ty]
    /\ fresh' = fresh \cup {t}
    /\ UNCHANGED <<owners, deriv>>

\* The foreign key refuses a link from a parent that has no row.
InsertMediaThumbnail(h, t) ==
    thumbs' = IF HasBlob(h) THEN thumbs \cup {<<h, t>>} ELSE thumbs

RemoveOwner(h, p) == owners' = owners \ {<<h, p>>}
TouchBlob(h) == fresh' = IF HasBlob(h) THEN fresh \cup {h} ELSE fresh

\* The foreign keys cascade: owners, accessed, derivatives, thumbnails.
DeleteBlobs(hs) ==
    /\ row' = [h \in Hash |-> IF h \in hs THEN Absent ELSE row[h]]
    /\ owners' = {o \in owners : o[1] \notin hs}
    /\ fresh' = fresh \ hs
    /\ deriv' = {d \in deriv : d[2] \notin hs}
    /\ thumbs' = {t \in thumbs : t[1] \notin hs /\ t[2] \notin hs}

(* The disk (storage/local.ts, storage/s3.ts).                             *)

\* S3 and the local disk alike: nothing is sent when the object exists, and
\* a missing source fails the commit.
CanCommit(r, role, h, ty) == <<h, ty>> \in file \/ <<r, role>> \in tmp

\* An existing file wins and the temporary one is dropped; otherwise rename.
CommitFile(h, ty) == file' = file \cup {<<h, ty>>}

HasFile(h, ty) == <<h, ty>> \in file
RemoveFile(h, ty) == file' = file \ {<<h, ty>>}

(* The worker pool (workers/pool.ts).                                      *)

Available == {w \in Worker : count[w] < MaxJobs}

Running(w) == {r \in Req : job[r] = w}

-----------------------------------------------------------------------------
(* The control flow shared by the handlers.                                *)

Is(r, op, at) == req[r].op = op /\ req[r].at = at
To(r, at) == req' = [req EXCEPT ![r].at = at]
May(fault) == fault \in Faults /\ broken = {} /\ erred = {}

\* The handler answers: whatever it still holds in ts stays on the disk.
Answer(r, ts) ==
    /\ req' = [req EXCEPT ![r] = Idle]
    /\ tmp' = {t \in ts : t[1] # r}
    /\ left' = {<<req[r].op, req[r].at, t[2]>> : t \in {u \in ts : u[1] = r}}

Without(r, roles) == tmp \ {<<r, x>> : x \in roles}

\* beginWrite opens a temporary file for the body.
BeginWrite(r) ==
    /\ tmp' = tmp \cup {<<r, "in">>}
    /\ To(r, "dispatch") /\ UNCHANGED left

\* abortWrite: the handler answers and the body's file is gone.
AbortWrite(r) == Answer(r, Without(r, {"in"}))

Start(r, op, at, p, h, ty, dec) ==
    /\ op \in Ops /\ req[r].at = "idle"
    /\ req' = [req EXCEPT ![r] = [Idle EXCEPT !.op = op, !.at = at, !.who = p,
                                  !.h = h, !.ty = ty, !.dec = dec]]
    /\ UNCHANGED <<db, disk, pool, left, hist>>

\* PUT /upload: with X-SHA-256 the table is asked first.
SubmitUpload(r, p, o, ty, dec) ==
    Start(r, "upload", IF dec THEN "dedup" ELSE "begin", p, <<"in", o>>, ty, dec)

\* PUT /mirror: the pool is asked before the origin is fetched.
SubmitMirror(r, p, o, ty) ==
    /\ Available # {}
    /\ Start(r, "mirror", "begin", p, <<"in", o>>, ty, FALSE)

\* PUT /media.
SubmitMedia(r, p, o) ==
    Start(r, "media", "begin", p, <<"in", o>>, OptMime, FALSE)

\* hasBlob of the hash the upload declares.  A hit cancels the body.
UploadDedup(r) ==
    /\ Is(r, "upload", "dedup")
    /\ req' = [req EXCEPT ![r].at = IF HasBlob(req[r].h) THEN "found" ELSE "begin",
                          ![r].cut = HasBlob(req[r].h)]
    /\ UNCHANGED <<db, disk, pool, left, hist>>

\* getBlob after hasBlob; a row deleted in between sends the handler on.
Found(r, otherwise) ==
    /\ req' = [req EXCEPT
         ![r].at = IF HasBlob(req[r].h) THEN "adopt" ELSE otherwise,
         ![r].ty = IF HasBlob(req[r].h) THEN GetBlob(req[r].h) ELSE @]
    /\ UNCHANGED <<db, disk, pool, left, hist>>

UploadFound(r) == Is(r, "upload", "found") /\ Found(r, "begin")
MirrorFound(r) == Is(r, "mirror", "found") /\ Found(r, "commit")

\* isOwner, then insertBlob of the record read before.
Adopt(r) ==
    /\ \/ /\ IsOwner(req[r].h, req[r].who)
          /\ UNCHANGED db
       \/ /\ ~IsOwner(req[r].h, req[r].who)
          /\ InsertBlob(req[r].h, req[r].ty, req[r].who)
    /\ UNCHANGED <<file, pool, hist>>

UploadAdopt(r) == Is(r, "upload", "adopt") /\ Adopt(r) /\ Answer(r, tmp)
MirrorAdopt(r) == Is(r, "mirror", "adopt") /\ Adopt(r) /\ Answer(r, tmp)

\* The pool is asked again before the body is read: 503 when it is full.
Busy(r) == Available = {} /\ Answer(r, tmp)

UploadBegin(r) ==
    /\ Is(r, "upload", "begin")
    /\ Busy(r) \/ (Available # {} /\ BeginWrite(r))
    /\ UNCHANGED <<db, file, pool, hist>>

MediaBegin(r) ==
    /\ Is(r, "media", "begin")
    /\ Busy(r) \/ (Available # {} /\ BeginWrite(r))
    /\ UNCHANGED <<db, file, pool, hist>>

\* PUT /mirror races the fetch against connectTimeout; one that fails, times
\* out or is refused by its headers is answered here.
MirrorFetch(r) == Answer(r, tmp)

\* It does not look at the pool again before beginWrite.
MirrorBegin(r) ==
    /\ Is(r, "mirror", "begin")
    /\ MirrorFetch(r) \/ BeginWrite(r)
    /\ UNCHANGED <<db, file, pool, hist>>

\* pool.dispatch: any worker with room, or null and the file is aborted.
Dispatch(r) ==
    /\ req[r].at = "dispatch"
    /\ \/ /\ Available = {}
          /\ AbortWrite(r)
          /\ UNCHANGED pool
       \/ \E w \in Available :
            /\ count' = [count EXCEPT ![w] = @ + 1]
            /\ job' = [job EXCEPT ![r] = w]
            /\ To(r, "await") /\ UNCHANGED <<tmp, left>>
    /\ UNCHANGED <<db, file, hist>>

\* Mutant: only a job that succeeds gives its slot back.
JobDoneKeepsSlot(r) ==
    /\ req[r].at = "await" /\ job[r] \in Worker
    /\ job' = [job EXCEPT ![r] = Absent]
    /\ \/ /\ ~req[r].cut /\ count' = [count EXCEPT ![job[r]] = @ - 1]
          /\ To(r, "hashed") /\ UNCHANGED <<tmp, left>>
       \/ Answer(r, Without(r, {"in"})) /\ UNCHANGED count
    /\ UNCHANGED <<db, file, hist>>

\* handleJob: the body is written and hashed, or the file is removed and the
\* error reported.  A cancelled body fails.
HandleJob(r) ==
    \/ ~req[r].cut /\ To(r, "hashed") /\ UNCHANGED <<tmp, left>>
    \/ AbortWrite(r)

\* onmessage gives the slot back and settles the promise; a failed job is
\* answered at once (abortWrite finds nothing left to remove).
JobDone(r) ==
    /\ req[r].at = "await" /\ job[r] \in Worker
    /\ count' = [count EXCEPT ![job[r]] = @ - 1]
    /\ job' = [job EXCEPT ![r] = Absent]
    /\ HandleJob(r)
    /\ UNCHANGED <<db, file, hist>>

\* onerror: the count drops by one, and a job of the worker may never report.
WorkerError(w) ==
    /\ May("worker") /\ w \notin erred
    /\ count' = [count EXCEPT ![w] = IF @ > 0 THEN @ - 1 ELSE @]
    /\ \E lost \in SUBSET Running(w) :
         /\ Cardinality(lost) <= 1
         /\ job' = [r \in Req |-> IF r \in lost THEN Absent ELSE job[r]]
    /\ erred' = erred \cup {w}
    /\ UNCHANGED <<db, disk, req, left, sent, broken>>

\* The x tags of the token may not cover the hash: deferred to here by
\* PUT /upload without X-SHA-256.
UploadHashed(r) ==
    /\ Is(r, "upload", "hashed")
    /\ \/ ~req[r].dec /\ AbortWrite(r)
       \/ To(r, "commit") /\ UNCHANGED <<tmp, left>>
    /\ UNCHANGED <<db, file, pool, hist>>

\* PUT /mirror and PUT /media need an x tag with the hash.
MirrorHashed(r) ==
    /\ Is(r, "mirror", "hashed")
    /\ \/ AbortWrite(r)
       \/ To(r, "dedup") /\ UNCHANGED <<tmp, left>>
    /\ UNCHANGED <<db, file, pool, hist>>

MediaHashed(r) ==
    /\ Is(r, "media", "hashed")
    /\ \/ AbortWrite(r)
       \/ To(r, "deriv") /\ UNCHANGED <<tmp, left>>
    /\ UNCHANGED <<db, file, pool, hist>>

\* PUT /mirror asks the table only now; a hit drops the fetched bytes.
MirrorDedup(r) ==
    /\ Is(r, "mirror", "dedup")
    /\ To(r, IF HasBlob(req[r].h) THEN "found" ELSE "commit")
    /\ tmp' = IF HasBlob(req[r].h) THEN Without(r, {"in"}) ELSE tmp
    /\ UNCHANGED <<db, file, pool, left, hist>>

\* commitWrite; on a failure the temporary file is aborted.
CommitWrite(r) ==
    /\ \/ /\ CanCommit(r, "in", req[r].h, req[r].ty)
          /\ CommitFile(req[r].h, req[r].ty)
          /\ tmp' = Without(r, {"in"})
          /\ sent' = sent \cup {<<req[r].h, req[r].ty>>}
          /\ To(r, "insert") /\ UNCHANGED left
       \/ /\ ~CanCommit(r, "in", req[r].h, req[r].ty) \/ May("commit")
          /\ AbortWrite(r)
          /\ UNCHANGED <<file, sent>>
    /\ UNCHANGED <<db, pool, broken, erred>>

UploadCommit(r) == Is(r, "upload", "commit") /\ CommitWrite(r)
MirrorCommit(r) == Is(r, "mirror", "commit") /\ CommitWrite(r)

\* insertBlob of what was committed.  If it fails the file has no row.
Register(r) ==
    /\ Answer(r, tmp)
    /\ \/ /\ InsertBlob(req[r].h, req[r].ty, req[r].who)
          /\ UNCHANGED broken
       \/ /\ May("insert")
          /\ broken' = broken \cup {req[r].h}
          /\ UNCHANGED db
    /\ UNCHANGED <<file, pool, sent, erred>>

UploadInsert(r) == Is(r, "upload", "insert") /\ Register(r)
MirrorInsert(r) == Is(r, "mirror", "insert") /\ Register(r)

-----------------------------------------------------------------------------
(* PUT /media after the body is hashed.                                    *)

\* getMediaDerivative: a known original needs no bytes any more.
MediaLookup(r) ==
    /\ Is(r, "media", "deriv")
    /\ LET known == GetMediaDerivative(req[r].h) IN
         /\ To(r, IF known THEN "mapped" ELSE "optimize")
         /\ tmp' = IF known THEN Without(r, {"in"}) ELSE tmp
    /\ UNCHANGED <<db, file, pool, left, hist>>

\* getBlob of the mapped hash; when it went meanwhile, on to the optimizer.
MediaMapped(r) ==
    /\ Is(r, "media", "mapped")
    /\ LET o == Opt(req[r].h) IN
         req' = IF HasBlob(o)
                THEN [req EXCEPT ![r].at = "adopt", ![r].h = o, ![r].ty = row[o]]
                ELSE [req EXCEPT ![r].at = "optimize"]
    /\ UNCHANGED <<db, disk, pool, left, hist>>

MediaAdopt(r) == Is(r, "media", "adopt") /\ Adopt(r) /\ Answer(r, tmp)

\* What the optimizers leave of their output file: they create it first, and
\* one that fails throws before its path is known to anyone who removes it.
OptimizeImage == {"made", "partial"}
OptimizeVideo == {"made", "partial"}
\* An undetected or unsupported type fails before any output exists.
OptimizeMedia == OptimizeImage \cup OptimizeVideo \cup {"none"}
\* The same for thumbnails; a type that has none counts as no output.
CreateThumbnail == {"made", "partial", "none"}

\* optimizeMedia.  A failure returns 422 from inside the try, past the
\* catch that removes temporary files; it is certain when the input is gone.
MediaOptimize(r) ==
    /\ Is(r, "media", "optimize")
    /\ \/ /\ "made" \in OptimizeMedia /\ <<r, "in">> \in tmp
          /\ tmp' = Without(r, {"in"}) \cup {<<r, "out">>}
          /\ req' = [req EXCEPT ![r].at = "rehash", ![r].h = Opt(@)]
          /\ UNCHANGED left
       \/ \E out \in OptimizeMedia \ {"made"} :
            Answer(r, tmp \cup {<<r, x>> : x \in {out} \ {"none"}})
    /\ UNCHANGED <<db, file, pool, hist>>

\* hashFile of the output; a failure returns 500 past the catch as well.
MediaRehash(r) ==
    /\ Is(r, "media", "rehash")
    /\ \/ To(r, "hasopt") /\ UNCHANGED <<tmp, left>>
       \/ Answer(r, tmp)
    /\ UNCHANGED <<db, file, pool, hist>>

\* hasBlob of the optimized hash.
MediaHasOptimized(r) ==
    /\ Is(r, "media", "hasopt")
    /\ To(r, IF HasBlob(req[r].h) THEN "getopt" ELSE "commit")
    /\ UNCHANGED <<db, disk, pool, left, hist>>

\* getBlob of it: found, it is linked; gone meanwhile, the output is removed
\* and the handler goes on to commit a file that no longer exists.
MediaGetOptimized(r) ==
    /\ Is(r, "media", "getopt")
    /\ LET h == req[r].h IN
         IF HasBlob(h)
         THEN /\ req' = [req EXCEPT ![r].at = "link", ![r].ty = GetBlob(h)]
              /\ UNCHANGED tmp
         ELSE /\ To(r, "commit")
              /\ tmp' = Without(r, {"out"})
    /\ UNCHANGED <<db, file, pool, left, hist>>

\* insertMediaDerivative: the foreign key refuses a hash without a row, and
\* the error reaches the catch of the handler.
InsertDerivative(r, next, kept) ==
    /\ \/ /\ HasBlob(req[r].h)
          /\ deriv' = deriv \cup {<<<<"in", req[r].h[2]>>, req[r].h>>}
          /\ To(r, next) /\ UNCHANGED <<tmp, left>>
       \/ /\ ~HasBlob(req[r].h)
          /\ Answer(r, kept) /\ UNCHANGED deriv
    /\ UNCHANGED <<row, owners, fresh, thumbs, file, pool, hist>>

MediaLink(r) ==
    /\ Is(r, "media", "link")
    /\ InsertDerivative(r, "own", Without(r, {"out"}))

\* The account of a duplicate becomes an owner; a thumbnail may be missing.
MediaOwn(r) ==
    /\ Is(r, "media", "own") /\ Adopt(r)
    /\ To(r, "newthumb") /\ UNCHANGED <<tmp, left>>

\* prepareThumbnail (which may fail on its own), then commitFile.
PrepareThumbnail(r) ==
    {{}} \cup {{<<r, x>>} : x \in {IF out = "made" THEN "thumb" ELSE out :
                                       out \in CreateThumbnail \ {"none"}}}
MediaCommit(r) ==
    /\ Is(r, "media", "commit")
    /\ \E made \in PrepareThumbnail(r) :
         \/ /\ CanCommit(r, "out", req[r].h, req[r].ty)
            /\ made = {<<r, "thumb">>} => <<r, "out">> \in tmp
            /\ CommitFile(req[r].h, req[r].ty)
            /\ tmp' = Without(r, {"out"}) \cup made
            /\ To(r, "insert") /\ UNCHANGED left
         \/ /\ ~CanCommit(r, "out", req[r].h, req[r].ty) \/ May("commit")
            /\ Answer(r, Without(r, {"out"}) \cup (made \ {<<r, "thumb">>}))
            /\ UNCHANGED file
    /\ UNCHANGED <<db, pool, hist>>

\* insertBlob; the catch of the handler knows nothing of the thumbnail.
MediaInsert(r) ==
    /\ Is(r, "media", "insert")
    /\ \/ /\ InsertBlob(req[r].h, req[r].ty, req[r].who)
          /\ To(r, "map") /\ UNCHANGED <<tmp, left, broken>>
       \/ /\ May("insert")
          /\ broken' = broken \cup {req[r].h}
          /\ Answer(r, tmp) /\ UNCHANGED db
    /\ UNCHANGED <<file, pool, sent, erred>>

MediaMap(r) ==
    /\ Is(r, "media", "map")
    /\ InsertDerivative(r, "thumb", tmp)

\* storePreparedThumbnail: file, row, link.  Errors are swallowed: before
\* the file is stored, or after it.
StorePreparedThumbnail(r) ==
    LET h == req[r].h
        t == Thumb(h)
    IN \/ UNCHANGED <<db, file, broken>>
       \/ /\ CommitFile(t, OptMime)
          /\ InsertBlobRecord(t, OptMime)
          /\ InsertMediaThumbnail(h, t)
          /\ UNCHANGED broken
       \/ /\ May("insert")
          /\ CommitFile(t, OptMime)
          /\ broken' = broken \cup {t} /\ UNCHANGED db

\* The thumbnail prepared before the commit, if there is one.
MediaThumbnail(r) ==
    /\ Is(r, "media", "thumb")
    /\ Answer(r, Without(r, {"thumb"}))
    /\ IF <<r, "thumb">> \in tmp
       THEN StorePreparedThumbnail(r) ELSE UNCHANGED <<db, file, broken>>
    /\ UNCHANGED <<pool, sent, erred>>

\* createAndStoreThumbnail, for a duplicate that has none; a failed attempt
\* leaves its partial output.
MediaNewThumbnail(r) ==
    /\ Is(r, "media", "newthumb")
    /\ \/ /\ Answer(r, Without(r, {"out"}))
          /\ IF GetMediaThumbnail(req[r].h)
             THEN UNCHANGED <<db, file, broken>> ELSE StorePreparedThumbnail(r)
       \/ /\ ~GetMediaThumbnail(req[r].h) /\ "partial" \in CreateThumbnail
          /\ Answer(r, Without(r, {"out"}) \cup {<<r, "partial">>})
          /\ UNCHANGED <<db, file, broken>>
    /\ UNCHANGED <<pool, sent, erred>>

-----------------------------------------------------------------------------
(* Removal: DELETE /:sha256, the admin routes, the prune loop.             *)

\* DELETE /:sha256 and the two admin routes that delete blobs.
SubmitDelete(r, p, h) == Start(r, "delete", "check", p, h, Absent, FALSE)
SubmitAdminDelete(r, h) == Start(r, "admin", "check", Absent, h, Absent, FALSE)

\* getBlob (its type names the file) and isOwner.
DeleteCheck(r) ==
    /\ Is(r, "delete", "check")
    /\ LET h == req[r].h IN
         IF HasBlob(h) /\ IsOwner(h, req[r].who)
         THEN /\ req' = [req EXCEPT ![r].at = "disown", ![r].ty = GetBlob(h)]
              /\ UNCHANGED <<tmp, left>>
         ELSE Answer(r, tmp)
    /\ UNCHANGED <<db, file, pool, hist>>

DeleteDisown(r) ==
    /\ Is(r, "delete", "disown")
    /\ RemoveOwner(req[r].h, req[r].who)
    /\ To(r, "count")
    /\ UNCHANGED <<row, fresh, deriv, thumbs, disk, pool, left, hist>>

\* Mutant: one remaining owner does not keep the blob.
DeleteCountOffByOne(r) ==
    /\ Is(r, "delete", "count")
    /\ IF CountOwners(req[r].h) > 1
       THEN Answer(r, tmp)
       ELSE /\ req' = [req EXCEPT ![r].at = "drop", ![r].old = ThumbnailsOf(req[r].h)]
            /\ UNCHANGED <<tmp, left>>
    /\ UNCHANGED <<db, file, pool, hist>>

\* Other owners keep the blob; else the thumbnails are noted and it goes.
DeleteCount(r) ==
    /\ Is(r, "delete", "count")
    /\ IF CountOwners(req[r].h) > 0
       THEN Answer(r, tmp)
       ELSE /\ req' = [req EXCEPT ![r].at = "drop", ![r].old = ThumbnailsOf(req[r].h)]
            /\ UNCHANGED <<tmp, left>>
    /\ UNCHANGED <<db, file, pool, hist>>

\* The admin deletion asks for no owner and ignores thumbnails; a missing
\* row leaves the extension empty.
AdminCheck(r) ==
    /\ Is(r, "admin", "check")
    /\ req' = [req EXCEPT ![r].at = "drop",
                          ![r].ty = IF HasBlob(req[r].h) THEN row[req[r].h] ELSE NoType]
    /\ UNCHANGED <<db, disk, pool, left, hist>>

\* deleteBlob.
Drop(r) ==
    /\ req[r].at = "drop"
    /\ DeleteBlobs({req[r].h})
    /\ To(r, "unlink")
    /\ UNCHANGED <<disk, pool, left, hist>>

\* Mutant: the row goes and the file stays.
UnlinkForgets(r) ==
    /\ req[r].at = "unlink" /\ To(r, "sweep")
    /\ UNCHANGED <<db, disk, pool, left, hist>>

\* storage.remove, best effort; it leaves the file of another type alone.
Unlink(r) ==
    /\ req[r].at = "unlink"
    /\ \/ /\ RemoveFile(req[r].h, req[r].ty)
          /\ UNCHANGED broken
       \/ /\ May("unlink")
          /\ broken' = broken \cup {req[r].h} /\ UNCHANGED file
    /\ To(r, "sweep")
    /\ UNCHANGED <<db, tmp, pool, left, sent, erred>>

\* The thumbnails noted before lose their rows and files.  A request ends
\* here; a loop over several blobs goes on.
Sweep(r) ==
    /\ req[r].at = "sweep"
    /\ DeleteBlobs({t[1] : t \in req[r].old})
    /\ file' = file \ req[r].old
    /\ IF req[r].op \in {"delete", "admin"}
       THEN Answer(r, tmp)
       ELSE /\ req' = [req EXCEPT ![r].at = "loop", ![r].old = {}]
            /\ UNCHANGED <<tmp, left>>
    /\ UNCHANGED <<pool, hist>>

\* A listing carries the type of each row, which names the file to remove.
Listed(hs) == {<<h, row[h]>> : h \in hs}

\* DELETE /admin/api/users/:pubkey: every blob the account owns, shared or
\* not, from one listing.
SubmitAdminUser(r, p) ==
    /\ "user" \in Ops /\ req[r].at = "idle"
    /\ req' = [req EXCEPT ![r] = [Idle EXCEPT !.op = "user", !.at = "loop", !.who = p,
                                  !.todo = Listed({h \in Hash : IsOwner(h, p)})]]
    /\ UNCHANGED <<db, disk, pool, left, hist>>

\* What a rule's type admits at upload, and what its LIKE pattern selects at
\* prune time: NULL is LIKE nothing.
MimeMatchesRule(ty, rule) == rule = AnyType \/ (ty # NoType /\ ty = rule)
SqlLike(ty, rule) == ty # NoType /\ (rule = AnyType \/ ty = rule)
GetFileRule(ty) == Rules = {} \/ \E rule \in Rules : MimeMatchesRule(ty, rule)

IsThumbnail(h) == \E t \in thumbs : t[2] = h

\* The loop runs one pass at a time: per rule the rows it selects that were
\* not seen inside the window, then the rows without an owner.
Expired(rule) ==
    {h \in Hash : HasBlob(h) /\ SqlLike(row[h], rule) /\ ~IsThumbnail(h)
                    /\ h \notin fresh}
Ownerless == {h \in Hash : HasBlob(h) /\ CountOwners(h) = 0 /\ ~IsThumbnail(h)}

Pruning == \E r \in Req : req[r].op = "prune"

SubmitPrune(r) ==
    /\ "prune" \in Ops /\ req[r].at = "idle"
    /\ ~Pruning
    /\ \E found \in {Expired(rule) : rule \in Rules} \cup {Ownerless} :
         /\ found # {}
         /\ req' = [req EXCEPT ![r] = [Idle EXCEPT !.op = "prune", !.at = "loop",
                                       !.todo = Listed(found)]]
    /\ UNCHANGED <<db, disk, pool, left, hist>>

\* The next blob of the list as it was read; only the prune loop notes the
\* thumbnails.
NextBlob(r) ==
    /\ req[r].at = "loop"
    /\ \/ /\ req[r].todo = {}
          /\ Answer(r, tmp)
       \/ \E b \in req[r].todo :
            /\ req' = [req EXCEPT ![r].at = "drop", ![r].todo = @ \ {b},
                 ![r].h = b[1], ![r].ty = b[2],
                 ![r].old = IF req[r].op = "prune" THEN ThumbnailsOf(b[1]) ELSE {}]
            /\ UNCHANGED <<tmp, left>>
    /\ UNCHANGED <<db, file, pool, hist>>

\* GET /:sha256: the row, then the file, then touchBlob.
SubmitRead(r, h) == HasBlob(h) /\ Start(r, "read", "serve", Absent, h, row[h], FALSE)

ReadServe(r) ==
    /\ Is(r, "read", "serve")
    /\ Answer(r, tmp)
    /\ IF HasFile(req[r].h, req[r].ty) THEN TouchBlob(req[r].h) ELSE UNCHANGED fresh
    /\ UNCHANGED <<row, owners, deriv, thumbs, file, pool, sent, broken, erred>>

\* The expiration window passes over a blob nobody reads.
Age(h) ==
    /\ h \in fresh
    /\ fresh' = fresh \ {h}
    /\ UNCHANGED <<row, owners, deriv, thumbs, disk, pool, req, left, hist>>

\* The process stops and starts again: requests and the pool are gone, and
\* nothing removes what lies in the directory of temporary files.
InFlight == {r \in Req : req[r].at # "idle"}
Crash ==
    /\ May("crash") /\ InFlight # {}
    /\ req' = [r \in Req |-> Idle]
    /\ job' = [r \in Req |-> Absent]
    /\ count' = [w \in Worker |-> 0]
    /\ left' = {<<"crash", req[t[1]].op, t[2]>> : t \in tmp}
    /\ tmp' = {} /\ erred' = {}
    /\ broken' = broken \cup UNION {{req[r].h, Thumb(req[r].h)} : r \in
                                {q \in InFlight : req[q].h # Absent}}
    /\ UNCHANGED <<db, file, sent>>

-----------------------------------------------------------------------------

Serve(r) ==
    \/ UploadDedup(r) \/ UploadFound(r) \/ UploadAdopt(r) \/ UploadBegin(r)
    \/ UploadHashed(r) \/ UploadCommit(r) \/ UploadInsert(r)
    \/ MirrorBegin(r) \/ MirrorHashed(r) \/ MirrorDedup(r)
    \/ MirrorFound(r) \/ MirrorAdopt(r) \/ MirrorCommit(r) \/ MirrorInsert(r)
    \/ Dispatch(r) \/ JobDone(r) \/ MediaBegin(r) \/ MediaHashed(r)
    \/ MediaLookup(r) \/ MediaMapped(r) \/ MediaAdopt(r) \/ MediaOptimize(r)
    \/ MediaRehash(r) \/ MediaHasOptimized(r) \/ MediaGetOptimized(r)
    \/ MediaLink(r) \/ MediaOwn(r) \/ MediaCommit(r) \/ MediaInsert(r)
    \/ MediaMap(r) \/ MediaThumbnail(r) \/ MediaNewThumbnail(r) \/ DeleteCheck(r) \/ DeleteDisown(r) \/ DeleteCount(r)
    \/ AdminCheck(r) \/ Drop(r) \/ Unlink(r) \/ Sweep(r) \/ NextBlob(r)
    \/ ReadServe(r)

Submit(r) ==
    \/ \E p \in Pubkey, o \in Original :
         \/ \E ty \in {t \in Type : GetFileRule(t)} :
              \/ \E dec \in BOOLEAN : SubmitUpload(r, p, o, ty, dec)
              \/ SubmitMirror(r, p, o, ty)
         \/ SubmitMedia(r, p, o)
    \/ \E h \in Hash : \/ \E p \in Pubkey : SubmitDelete(r, p, h)
                       \/ SubmitAdminDelete(r, h)
                       \/ SubmitRead(r, h)
    \/ \E p \in Pubkey : SubmitAdminUser(r, p)
    \/ SubmitPrune(r)

\* The hashes a handler is about to store or to claim, and to remove.
Storing(r) ==
    IF req[r].at \in {"found", "adopt", "commit", "insert", "link", "own", "map",
                      "thumb", "newthumb"}
    THEN {req[r].h} \cup (IF req[r].op = "media" THEN {Thumb(req[r].h)} ELSE {})
    ELSE {}
Removing(r) ==
    IF req[r].at \in {"drop", "unlink", "sweep"}
    THEN {req[r].h} \cup {t[1] : t \in req[r].old} ELSE {}
Overlap == UNION {Storing(r) \cap Removing(q) : r \in Req, q \in Req}

Next ==
    /\ \/ /\ issued < MaxRequests /\ issued' = issued + 1
          /\ \E r \in Req : Submit(r)
       \/ /\ UNCHANGED issued
          /\ \/ \E r \in Req : Serve(r)
             \/ \E w \in Worker : WorkerError(w)
             \/ \E h \in Hash : Age(h)
             \/ Crash
    /\ raced' = raced \cup Overlap'
    /\ touched' = IF Pruning /\ Pruning'
                  THEN touched \cup (fresh' \ fresh) \cup {o[1] : o \in owners' \ owners}
                  ELSE {}

Spec == Init /\ [][Next]_vars

-----------------------------------------------------------------------------

\* Rows and files agree, whatever handlers and prune loop interleave.  A row
\* that some account owns has its file; a file has the row that names it, or a
\* handler about to write or remove it.  Excepted are a hash that one handler
\* stored while another removed it (delete.ts takes the count, the row and the
\* file in separate awaits), one that a failed step or a crash left behind, and
\* a file whose hash was sent under two types: the row keeps the first.
DiskMatchesIndex ==
    /\ \A o \in owners : o[1] \notin raced \cup broken => <<o[1], row[o[1]]>> \in file
    /\ \A f \in file : \/ row[f[1]] = f[2]
                       \/ \E r \in Req : f[1] \in Storing(r) \cup Removing(r)
                       \/ f[1] \in raced \cup broken
                       \/ \E ty \in Type \ {f[2]} : <<f[1], ty>> \in sent

\* Everything a request took is given back, on every path.  PUT /upload and
\* PUT /mirror leave no temporary file; PUT /media does when it returns past
\* its catch (422 and 500), fails between the prepared thumbnail and its
\* commit, or when an optimizer failed after it had created its output.  And
\* jobCount is the number of the worker's jobs, at most maxJobsPerWorker, until
\* a worker raises an error event: pool.ts then frees a slot on a guess.
ResourcesReturned ==
    /\ \A t \in left :
         /\ t[1] \in {"media", "crash"}
         /\ t[1] = "media" =>
              \/ <<t[2], t[3]>> \in {<<"optimize", "in">>, <<"rehash", "out">>,
                                     <<"insert", "thumb">>, <<"map", "thumb">>}
              \/ t[3] = "partial"
    /\ \A w \in Worker \ erred : /\ count[w] = Cardinality(Running(w))
                                 /\ count[w] <= MaxJobs

\* An account loses a blob only through its own delete, an operator or the
\* prune loop, however many owners delete at once (a delete that counted no
\* owner while another account was storing the hash is the exception); and the
\* prune loop drops a blob that was read or stored inside the window only when
\* that happened after the loop had listed it.
BlobsKept ==
    [][/\ \A o \in owners \ owners' :
            \/ \E r \in Req : /\ req[r].h = o[1]
                              /\ \/ req[r].op = "delete" /\ req[r].who = o[2]
                                 \/ req[r].op \in {"admin", "user", "prune"}
            \/ o[1] \in raced
       /\ \A r \in Req, h \in fresh :
            Is(r, "prune", "drop") /\ req[r].h = h /\ row'[h] # row[h]
               => h \in touched \/ CountOwners(h) = 0]_vars
=============================================================================
