---------------------------- MODULE BlobBackend ----------------------------
(***************************************************************************)
(* The storage adapters of a node (storage/interface.ts): files of the     *)
(* local disk (local.ts), or objects of an S3 bucket behind a spool of     *)
(* local files (s3.ts), in steps between awaits.  Writes, removals and     *)
(* reads of the same blob overlap, calls to the bucket fail, with or       *)
(* without effect, and the process may die.  The bucket itself is external *)
(***************************************************************************)
EXTENDS Integers

CONSTANTS
    BlobKey,      \* object keys: <hash>.<ext>, or <hash>
    Session,      \* write sessions
    MaxRemovals,  \* bound: removals
    MaxBoots    \* bound: starts of the process

VARIABLES
    adapter,    \* local, s3, or s3 with a publicURL
    up,         \* is the process running?
    boots,      \* starts so far
    objects,    \* keys that the disk or the bucket has
    spool,      \* sessions whose local file exists
    session,    \* step and key of each session; did its commit meet the blob?
    get,        \* a GET: step and key; why it may have missed
    erased      \* removals so far

backendVars == <<adapter, up, boots, objects, spool, session, get, erased>>

NoSession == [at |-> "idle"]
NoGet == [at |-> "idle"]

BackendInit ==
    /\ adapter \in {"local", "s3", "s3 public"}
    /\ up = FALSE /\ boots = 0
    /\ objects = {} /\ spool = {}
    /\ session = [w \in Session |-> NoSession]
    /\ get = NoGet /\ erased = 0

S3 == adapter # "local"
To(w, step) == session' = [session EXCEPT ![w].at = step]
-----------------------------------------------------------------------------
(***************************************************************************)
(* The process                                                             *)
(***************************************************************************)

\* The directories are made, and the bucket must let itself be listed.
Setup ==
    /\ ~up /\ boots < MaxBoots
    /\ up' \in {TRUE, ~S3}
    /\ boots' = boots + 1
    /\ UNCHANGED <<adapter, objects, spool, session, get, erased>>

\* What was under way is forgotten; its local files stay.
ProcessDies ==
    /\ up
    /\ up' = FALSE
    /\ session' = [w \in Session |-> IF session[w].at \in {"idle", "stored", "refused"}
                                     THEN session[w] ELSE [at |-> "dead"]]
    /\ get' = NoGet
    /\ UNCHANGED <<adapter, boots, objects, spool, erased>>
-----------------------------------------------------------------------------
(***************************************************************************)
(* Writing                                                                 *)
(***************************************************************************)

\* Bytes go to a local file only, wherever they end up.
BeginSession(w, k) ==
    /\ up /\ session[w].at = "idle"
    /\ session' = [session EXCEPT ![w] = [at |-> "written", key |-> k, met |-> FALSE]]
    /\ spool' = spool \cup {w}
    /\ UNCHANGED <<adapter, up, boots, objects, get, erased>>

\* The route gives up: a wrong digest, or a commit that failed.
AbortSession(w) ==
    /\ up /\ session[w].at \in {"written", "failed"}
    /\ spool' = spool \ {w}
    /\ To(w, "refused")
    /\ UNCHANGED <<adapter, up, boots, objects, get, erased>>

\* An error is taken for a yes.
HasOnError(k) == {(k \in objects), TRUE}

\* has: an error is a no, as if the blob were not there.
Has(k) == {(k \in objects), FALSE}

\* commitWrite and commitFile begin with has().
CommitChecks(w) ==
    /\ up /\ session[w].at = "written"
    /\ \E found \in Has(session[w].key) :
          session' = [session EXCEPT ![w].at = IF found THEN "drop" ELSE "send",
                                     ![w].met = session[w].key \in objects]
    /\ UNCHANGED <<adapter, up, boots, objects, spool, get, erased>>

\* The blob is there: the local file is not needed.
DropSource(w) ==
    /\ up /\ session[w].at = "drop"
    /\ spool' = spool \ {w}
    /\ To(w, "stored")
    /\ UNCHANGED <<adapter, up, boots, objects, get, erased>>

\* rename, which is atomic, or fails and leaves the file to the route.
RenameSource(w) ==
    /\ up /\ ~S3 /\ session[w].at = "send"
    /\ \/ /\ objects' = objects \cup {session[w].key}
          /\ spool' = spool \ {w}
          /\ session' = [session EXCEPT ![w].at = "stored", ![w].met = TRUE]
       \/ To(w, "failed") /\ UNCHANGED <<objects, spool>>
    /\ UNCHANGED <<adapter, up, boots, get, erased>>

\* stat and open, whose failure leaves the file to the route; then putObject,
\* whose failure may come after the bucket took the object.
PutObject(w) ==
    /\ up /\ S3 /\ session[w].at = "send"
    /\ \/ To(w, "failed") /\ UNCHANGED objects
       \/ \E took \in BOOLEAN, ok \in BOOLEAN :
             /\ ok => took
             /\ objects' = IF took THEN objects \cup {session[w].key} ELSE objects
             /\ session' = [session EXCEPT ![w].at = IF ok THEN "sent" ELSE "unsent",
                                           ![w].met = @ \/ took]
    /\ UNCHANGED <<adapter, up, boots, spool, get, erased>>

\* finally: the local file goes, whatever came of it.
CleanUp(w) ==
    /\ up /\ session[w].at \in {"sent", "unsent"}
    /\ spool' = spool \ {w}
    /\ To(w, IF session[w].at = "sent" THEN "stored" ELSE "failed")
    /\ UNCHANGED <<adapter, up, boots, objects, get, erased>>

\* remove: an error is a no, though the bucket may have done it.
RemoveObject(k) ==
    /\ up /\ k \in objects /\ erased < MaxRemovals
    /\ objects' \in {objects, objects \ {k}}
    /\ erased' = erased + 1
    /\ get' = IF get.at # "idle" /\ get.key = k /\ k \notin objects'
              THEN [get EXCEPT !.why = @ \cup {"removed"}] ELSE get
    /\ UNCHANGED <<adapter, up, boots, spool, session>>
-----------------------------------------------------------------------------
(***************************************************************************)
(* Reading (GET of routes/blobs.ts)                                        *)
(***************************************************************************)

BeginGet(k) ==
    /\ up /\ get.at # "has"
    /\ get' = [at |-> "has", key |-> k,
               why |-> IF k \in objects THEN {} ELSE {"absent"}]
    /\ UNCHANGED <<adapter, up, boots, objects, spool, session, erased>>

GetHas ==
    /\ up /\ get.at = "has"
    /\ \E found \in Has(get.key) :
          get' = [get EXCEPT !.at = IF found THEN "read" ELSE "missing",
                             !.why = IF found = (get.key \in objects) THEN @
                                     ELSE @ \cup {"error"}]
    /\ UNCHANGED <<adapter, up, boots, objects, spool, session, erased>>

\* read and readRange: nothing from a bucket with a public address.
ReadObject ==
    /\ up /\ get.at = "read"
    /\ \/ /\ get.key \in objects /\ adapter # "s3 public"
          /\ get' = [get EXCEPT !.at = "served"]
       \/ /\ get.key \notin objects
          /\ get' = [get EXCEPT !.at = "missing"]
       \/ get' = [get EXCEPT !.at = "missing",
                             !.why = @ \cup {IF adapter = "s3 public" THEN "public"
                                             ELSE "error"}]
    /\ UNCHANGED <<adapter, up, boots, objects, spool, session, erased>>

BackendNext ==
    \/ Setup \/ ProcessDies
    \/ \E w \in Session :
          \/ \E k \in BlobKey : BeginSession(w, k)
          \/ AbortSession(w) \/ CommitChecks(w) \/ DropSource(w)
          \/ RenameSource(w) \/ PutObject(w) \/ CleanUp(w)
    \/ \E k \in BlobKey : RemoveObject(k) \/ BeginGet(k)
    \/ GetHas \/ ReadObject

BackendSpec == BackendInit /\ [][BackendNext]_backendVars
-----------------------------------------------------------------------------
\* What the routes rely on, whatever overlaps or fails: a commit that reports
\* success met the blob in the store, as it found it or as it put it there, so
\* that only a removal can have taken it away since; a session that is over,
\* unless the process died, has left no local file; and a GET that answers 404
\* for a blob in the store met a removal, an error, or a bucket that has a
\* public address (IBlobStorage, storage/s3.ts and storage/local.ts).
StoreHonest ==
    /\ \A w \in Session :
          /\ session[w].at = "stored" => session[w].met
          /\ session[w].at \in {"stored", "refused"} => w \notin spool
          /\ session[w].at = "stored" /\ erased = 0 => session[w].key \in objects
    /\ get.at = "missing" => get.why # {}
=============================================================================
