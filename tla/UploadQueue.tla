----------------------------- MODULE UploadQueue -----------------------------
(***************************************************************************)
(* The landing page's forms: UploadForm hashes, signs for, checks and      *)
(* uploads the files of its queue; MirrorForm signs for and mirrors the    *)
(* blobs of its list.  A run works on the files that were pending when its *)
(* button was pressed; the button is offered again when no row shows a     *)
(* working status.  Code between two awaits is one step.                   *)
(***************************************************************************)
EXTENDS Naturals, Sequences, FiniteSets

CONSTANTS
    QFile,        \* rows in the order they are added: a range of numbers
    QRun,         \* runs that may be under way at once
    BatchSize,    \* MAX_X_TAGS_PER_EVENT
    Concurrency,  \* concurrent uploads
    MaxRetries

\* Rows are numbered, and an event signs for at least one blob.
ASSUME QueueAssumption == QFile \subseteq Nat /\ BatchSize \in Nat \ {0}

VARIABLES
    form,      \* "upload" or "mirror"
    auth,      \* does the server require a signed event
    nostr,     \* is there a Nostr extension
    status,    \* of each row; "new" before it is added, "gone" once removed
    optimize,  \* rows that go to /media
    runs,      \* the runs
    unread,    \* history: a file could not be read
    pulled     \* history: a row was removed that a run had still to deal with

queueVars == <<form, auth, nostr, status, optimize, runs, unread, pulled>>

Working == {"hashing", "checking", "signing", "uploading", "mirroring", "retrying"}
Terminal == {"done", "exists", "skipped", "error"}
NoRun == [at |-> "idle", todo |-> <<>>, group |-> {}, cur |-> 0, rest |-> {},
          batch |-> {}, where |-> <<>>, tries |-> <<>>]

QueueInit ==
    /\ form \in {"upload", "mirror"} /\ auth \in BOOLEAN /\ nostr \in BOOLEAN
    /\ status = [f \in QFile |-> "new"] /\ optimize = {}
    /\ runs = [r \in QRun |-> NoRun] /\ unread = FALSE /\ pulled = FALSE

-----------------------------------------------------------------------------
IsWorking == \E f \in QFile : status[f] \in Working
Pending == {f \in QFile : status[f] = "pending"}
QueueCanUploadAlways == form = "upload" /\ Pending # {}
QueueCanUpload == form = "upload" /\ Pending # {} /\ ~IsWorking
CanMirror == form = "mirror" /\ Pending # {} /\ ~IsWorking

\* What the server's answers come to: a status, 0 where there is none (no
\* connection) or its body cannot be read.  Each status stands for its class.
BlobExists == {200, 404, 0}
PreflightUpload == {200, 413, 0}
XhrUpload == {200, 201, 413, 503, 0}
MirrorPut == {200, 201, 429, 502, 0}
IsRetryable(code) == code \in {429, 503}

\* patchFile: a row that is no longer there is left alone.
Patch(files, s, st) ==
    [f \in QFile |-> IF f \in files /\ st[f] # "gone" THEN s ELSE st[f]]
FirstOf(files, n) == {f \in files : Cardinality({g \in files : g < f}) < n}
At(run, places) == {f \in DOMAIN run.where : run.where[f] \in places}
Going == IF form = "mirror" THEN "mirroring" ELSE "uploading"

\* The rows a run has still to deal with.
Claimed(run) ==
    (UNION {run.todo[i] : i \in DOMAIN run.todo}) \cup run.rest
    \cup IF run.at = "hashing" THEN run.group
         ELSE IF run.at = "signing" THEN run.batch ELSE At(run, {"dedup", "preflight", "ready", "put", "wait"})

\* Phases a run enters.  In the upload phase without a signature rows go in
\* slices of Concurrency, with one each waits for a slot; mirrors go at once.
Checking(run, batch) ==
    [run EXCEPT !.at = "checking", !.batch = batch,
                !.where = [f \in batch |-> IF f \in optimize THEN "preflight" ELSE "dedup"]]
Sending(run) ==
    LET ready == At(run, {"ready"}) IN
      [run EXCEPT !.at = "sending",
         !.where = [f \in run.batch |->
                      IF f \in (IF form = "mirror" THEN ready
                                ELSE IF auth THEN {} ELSE FirstOf(ready, Concurrency))
                      THEN "put" ELSE run.where[f]],
         !.tries = [f \in run.batch |-> 0]]
Batched(run, files) ==
    LET batch == IF auth THEN FirstOf(files, BatchSize) ELSE files
        some == [run EXCEPT !.batch = batch, !.rest = files \ batch, !.where = <<>>] IN
      IF auth THEN [some EXCEPT !.at = "signing"]
      ELSE IF form = "mirror" THEN Sending([some EXCEPT !.where = [f \in batch |-> "ready"]])
      ELSE Checking(some, batch)
\* What follows a batch: the next one, the next group, or the end.
Advance(run) ==
    IF run.rest # {} THEN Batched(run, run.rest)
    ELSE IF run.todo = <<>> THEN NoRun
    ELSE LET group == Head(run.todo)
             next == [NoRun EXCEPT !.todo = Tail(run.todo), !.group = group] IN
           IF form = "mirror" THEN Batched(next, group)
           ELSE [next EXCEPT !.at = "hashing",
                   !.cur = CHOOSE f \in group : \A g \in group : f <= g]

\* The statuses a phase gives its rows on entry.
Shown(run, st) ==
    IF run.at = "hashing" THEN Patch({run.cur}, "hashing", st)
    ELSE IF run.at = "signing" THEN Patch(run.batch, "signing", st)
    ELSE IF run.at = "checking" THEN Patch(run.batch, "checking", st)
    ELSE Patch(At(run, {"put"}), Going, st)
\* activeCount: rows in uploadOne, of every run.
Active == Cardinality(UNION {At(runs[r], {"put", "wait"}) : r \in QRun})
Proceed(r, run, st) ==
    /\ runs' = [runs EXCEPT ![r] = run]
    /\ status' = Shown(run, st)

-----------------------------------------------------------------------------
\* addFiles, from the picker or a drop.
AddFile(f) ==
    /\ form = "upload"
    /\ status[f] = "new" /\ \A g \in QFile : g < f => status[g] # "new"
    /\ status' = [status EXCEPT ![f] = "pending"]
    /\ optimize' \in {optimize, optimize \cup {f}}
    /\ UNCHANGED <<form, auth, nostr, runs, unread, pulled>>
\* The toggle decides again for every file still pending.
ToggleOptimize ==
    /\ form = "upload" /\ Pending # {} /\ ~IsWorking
    /\ \E media \in SUBSET Pending : optimize' = (optimize \ Pending) \cup media
    /\ UNCHANGED <<form, auth, nostr, status, runs, unread, pulled>>
\* The input phase ends with the distinct blobs its text names, if any.
HandleNext(f) ==
    /\ form = "mirror" /\ \A g \in QFile : status[g] \in {"new", "gone"}
    /\ status[f] = "new"
    /\ status' = [g \in QFile |-> IF status[g] = "new" /\ g <= f THEN "pending" ELSE status[g]]
    /\ UNCHANGED <<form, auth, nostr, optimize, runs, unread, pulled>>
\* Rows leave the list: one, all of them, those that are over.
Drop(files) ==
    /\ status' = [f \in QFile |-> IF f \in files THEN "gone" ELSE status[f]]
    /\ pulled' = (pulled \/ \E r \in QRun : files \cap Claimed(runs[r]) # {})
    /\ UNCHANGED <<form, auth, nostr, optimize, runs, unread>>
RemoveRow(f) == status[f] = "pending" /\ Drop({f})
HandleBack ==
    /\ form = "mirror" /\ ~IsWorking
    /\ Drop({f \in QFile : status[f] # "new"})
ClearDone ==
    /\ ~IsWorking
    /\ Drop({f \in QFile : status[f] \in Terminal})

\* runQueue, runMirror, as far as their first await.
Refused(pending) ==
    /\ auth /\ ~nostr
    /\ status' = Patch(pending, "error", status) /\ UNCHANGED runs
NonEmpty(group) == IF group = {} THEN <<>> ELSE <<group>>
RunQueue(r) ==
    /\ QueueCanUpload /\ runs[r] = NoRun
    /\ \/ Refused(Pending)
       \/ /\ auth => nostr
          /\ Proceed(r, Advance([NoRun EXCEPT !.todo =
                IF auth THEN NonEmpty(Pending \ optimize) \o NonEmpty(Pending \cap optimize)
                ELSE <<Pending>>]), status)
    /\ UNCHANGED <<form, auth, nostr, optimize, unread, pulled>>
RunMirror(r) ==
    /\ CanMirror /\ runs[r] = NoRun
    /\ \/ Refused(Pending)
       \/ /\ auth => nostr
          /\ Proceed(r, Advance([NoRun EXCEPT !.todo = <<Pending>>]), status)
    /\ UNCHANGED <<form, auth, nostr, optimize, unread, pulled>>

\* hashBatch: one file after the other; a file that cannot be read ends the run.
Hashed(r) ==
    LET run == runs[r]
        after == {f \in run.group : f > run.cur} IN
      /\ run.at = "hashing"
      /\ Proceed(r, IF after = {} THEN Batched(run, run.group)
                  ELSE [run EXCEPT !.cur = CHOOSE f \in after : \A g \in after : f <= g], status)
      /\ UNCHANGED <<form, auth, nostr, optimize, unread, pulled>>
HashFails(r) ==
    /\ runs[r].at = "hashing"
    /\ runs' = [runs EXCEPT ![r] = NoRun] /\ unread' = TRUE
    /\ UNCHANGED <<form, auth, nostr, status, optimize, pulled>>

\* signBatch answers, or is refused.
BatchSigned(r) ==
    LET run == runs[r] IN
      /\ run.at = "signing"
      /\ Proceed(r, IF form = "mirror" THEN Sending([run EXCEPT !.where = [f \in run.batch |-> "ready"]])
                  ELSE Checking(run, run.batch), status)
      /\ UNCHANGED <<form, auth, nostr, optimize, unread, pulled>>
SignRefused(r) ==
    LET run == runs[r] IN
      /\ run.at = "signing"
      /\ Proceed(r, Advance(run), Patch(run.batch, "error", status))
      /\ UNCHANGED <<form, auth, nostr, optimize, unread, pulled>>

\* A row of the batch has got somewhere; when the whole phase has, the next
\* begins: the uploads after the checks, a slice after a slice, another batch.
Moved(r, f, place, st) ==
    LET run == [runs[r] EXCEPT !.where[f] = place] IN
      IF At(run, {"dedup", "preflight", "put", "wait"}) # {} \/ (auth /\ run.at = "sending" /\ At(run, {"ready"}) # {})
      THEN runs' = [runs EXCEPT ![r] = run] /\ status' = st
      ELSE Proceed(r, IF At(run, {"ready"}) # {} THEN Sending(run) ELSE Advance(run), st)

\* checkOne: a dedup check that fails counts as absent, a preflight that fails
\* as accepted.
CheckExists(r, f) ==
    /\ runs[r].at = "checking" /\ f \in At(runs[r], {"dedup"})
    /\ \E code \in BlobExists :
         IF code = 200 THEN Moved(r, f, "over", Patch({f}, "exists", status))
         ELSE Moved(r, f, "preflight", status)
    /\ UNCHANGED <<form, auth, nostr, optimize, unread, pulled>>
CheckAccepted(r, f) ==
    /\ runs[r].at = "checking" /\ f \in At(runs[r], {"preflight"})
    /\ \E code \in PreflightUpload :
         IF code \in {200, 0} THEN Moved(r, f, "ready", status)
         ELSE Moved(r, f, "over", Patch({f}, "skipped", status))
    /\ UNCHANGED <<form, auth, nostr, optimize, unread, pulled>>

\* uploadWithSlot of a signed batch.
TakeSlot(r, f) ==
    /\ runs[r].at = "sending" /\ auth /\ f \in At(runs[r], {"ready"})
    /\ Active < Concurrency
    /\ runs' = [runs EXCEPT ![r] = [runs[r] EXCEPT !.where[f] = "put"]]
    /\ status' = Patch({f}, "uploading", status)
    /\ UNCHANGED <<form, auth, nostr, optimize, unread, pulled>>

\* One attempt of uploadOne or mirrorOne has its answer.
Answered(r, f, code) ==
    IF code = 201 THEN Moved(r, f, "over", Patch({f}, "done", status))
    ELSE IF code = 200 THEN Moved(r, f, "over", Patch({f}, "exists", status))
    ELSE IF IsRetryable(code) /\ runs[r].tries[f] < MaxRetries
    THEN Moved(r, f, "wait", Patch({f}, "retrying", status))
    ELSE Moved(r, f, "over", Patch({f}, "error", status))
UploadOne(r, f) ==
    /\ form = "upload" /\ runs[r].at = "sending" /\ f \in At(runs[r], {"put"})
    /\ \E code \in XhrUpload : Answered(r, f, code)
    /\ UNCHANGED <<form, auth, nostr, optimize, unread, pulled>>
MirrorOne(r, f) ==
    /\ form = "mirror" /\ runs[r].at = "sending" /\ f \in At(runs[r], {"put"})
    /\ \E code \in MirrorPut : Answered(r, f, code)
    /\ UNCHANGED <<form, auth, nostr, optimize, unread, pulled>>
Retry(r, f) ==
    /\ runs[r].at = "sending" /\ f \in At(runs[r], {"wait"})
    /\ runs' = [runs EXCEPT ![r] = [runs[r] EXCEPT !.where[f] = "put", !.tries[f] = @ + 1]]
    /\ UNCHANGED <<form, auth, nostr, status, optimize, unread, pulled>>

QueueNext ==
    \/ \E f \in QFile : AddFile(f) \/ HandleNext(f) \/ RemoveRow(f)
    \/ ToggleOptimize \/ HandleBack \/ ClearDone
    \/ \E r \in QRun :
         RunQueue(r) \/ RunMirror(r) \/ Hashed(r) \/ HashFails(r) \/ BatchSigned(r) \/ SignRefused(r)
    \/ \E r \in QRun, f \in QFile :
         \/ CheckExists(r, f) \/ CheckAccepted(r, f) \/ TakeSlot(r, f)
         \/ UploadOne(r, f) \/ MirrorOne(r, f) \/ Retry(r, f)

QueueSpec == QueueInit /\ [][QueueNext]_queueVars

-----------------------------------------------------------------------------
(***************************************************************************)
(* No row is worked on by two runs, though the button is offered whenever  *)
(* no row shows a working status, as long as no row is removed that a run  *)
(* has still to deal with; and when no run is left no row shows a working  *)
(* status, so the form can be used again, unless a file could not be read  *)
(* (isWorking, canUpload and canMirror against the statuses the runs set). *)
(***************************************************************************)
RowsWorkedOnce ==
    /\ ~pulled => \A r, q \in QRun : r # q => Claimed(runs[r]) \cap Claimed(runs[q]) = {}
    /\ (\A r \in QRun : runs[r] = NoRun) /\ ~unread => ~IsWorking
=============================================================================
