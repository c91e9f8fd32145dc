---------------------------- MODULE AccountPage ----------------------------
(***************************************************************************)
(* The dashboard of the console (packages/console/src/pages/Dashboard.tsx  *)
(* over api.ts, nostr.ts and signer.tsx): what a customer is shown of      *)
(* their account and blobs while refreshes and deletions are under way.    *)
(* Every call is signed with whatever key the browser extension has active *)
(* when it is made, which need not be the key that the page connected.     *)
(***************************************************************************)
EXTENDS Integers, FiniteSets

CONSTANTS
    Holder,       \* keys of the extension
    OwnBlob,         \* hashes
    MaxRefreshes  \* bound on the refreshes

NoOne == "nobody"

ASSUME PageAssumption == NoOne \notin Holder

NoAnswer == [who |-> NoOne, hashes |-> {}]
EmptyPage == [account |-> NoAnswer, blobs |-> NoAnswer, extras |-> {}, error |-> FALSE]

VARIABLES
    extension,   \* the key that window.nostr signs with
    me,          \* identities, NoOne before connecting
    stored,      \* the proxy: who has which blobs
    dash,        \* account, blob list, and whose invoices, notices and plan
    refreshes,   \* refresh() calls of the open page: number and answers so far
    extraCalls,  \* keys that signed the three other reads of the open page
    removals,    \* remove() calls: hash, key, how far, and is the page still open?
    refreshed,   \* how many refreshes were started
    removed,     \* history: hashes that this page was told are deleted
    overlapped,  \* history: refreshes of this page were under way together
    mixed        \* history: the extension was switched while the page was open

dashVars == <<extension, me, stored, dash, refreshes, extraCalls, removals,
              refreshed, removed, overlapped, mixed>>

PageInit ==
    /\ extension \in Holder /\ me = NoOne
    /\ stored = [k \in Holder |-> OwnBlob]
    /\ dash = EmptyPage /\ refreshes = {} /\ extraCalls = {} /\ removals = {}
    /\ refreshed = 0
    /\ removed = {} /\ overlapped = FALSE /\ mixed = FALSE
-----------------------------------------------------------------------------
(***************************************************************************)
(* signer.tsx                                                              *)
(***************************************************************************)

\* The person picks another profile in the extension.
SwitchKey(k) ==
    /\ extension # k
    /\ extension' = k
    /\ mixed' = (me # NoOne)
    /\ UNCHANGED <<me, stored, dash, refreshes, extraCalls, removals, refreshed,
                   removed, overlapped>>

\* refresh(): both calls are sent.
StartRefresh == [number |-> refreshed + 1, account |-> NoAnswer, blobs |-> NoAnswer]

\* connect(), or the same by itself after a reload; the dashboard opens with a
\* refresh and the other three reads.
Connect ==
    /\ me = NoOne /\ refreshed < MaxRefreshes
    /\ me' = extension
    /\ refreshed' = refreshed + 1 /\ refreshes' = {StartRefresh}
    /\ extraCalls' = {extension}
    /\ UNCHANGED <<extension, stored, dash, removals, removed, overlapped, mixed>>

\* disconnect(), where Protected leaves the dashboard, or a reload: the page's
\* state is gone and its calls are heard by nobody.
Disconnect ==
    /\ me # NoOne
    /\ me' = NoOne
    /\ dash' = EmptyPage /\ refreshes' = {} /\ extraCalls' = {}
    /\ removals' = {[c EXCEPT !.open = FALSE] : c \in {d \in removals : d.at = "sent"}}
    /\ removed' = {} /\ overlapped' = FALSE /\ mixed' = FALSE
    /\ UNCHANGED <<extension, stored, refreshed>>
-----------------------------------------------------------------------------
(***************************************************************************)
(* Dashboard.tsx                                                           *)
(***************************************************************************)

\* What is on the screen: nothing before the first answer, then the account
\* and plan, and under the tabs the blobs, the invoices and the notices.
Displayed == dash.account # NoAnswer
Whose == IF Displayed THEN {dash.account.who, dash.blobs.who} \cup dash.extras ELSE {}
Rows == IF Displayed THEN dash.blobs.hashes ELSE {}

\* The button.
RefreshPage ==
    /\ me # NoOne /\ Displayed /\ refreshed < MaxRefreshes
    /\ refreshed' = refreshed + 1
    /\ refreshes' = refreshes \cup {StartRefresh}
    /\ dash' = [dash EXCEPT !.error = FALSE]
    /\ overlapped' = (overlapped \/ refreshes # {})
    /\ UNCHANGED <<extension, me, stored, extraCalls, removals, removed, mixed>>

\* GET /storage and GET /account/blobs are signed and answered each on its own,
\* for the key that signs.
Parsed == [who |-> extension, hashes |-> stored[extension]]
GetStorage(r) ==
    /\ r.account = NoAnswer
    /\ refreshes' = (refreshes \ {r}) \cup {[r EXCEPT !.account = Parsed]}
    /\ UNCHANGED <<extension, me, stored, dash, extraCalls, removals, refreshed,
                   removed, overlapped, mixed>>

ListBlobs(r) ==
    /\ r.blobs = NoAnswer
    /\ refreshes' = (refreshes \ {r}) \cup {[r EXCEPT !.blobs = Parsed]}
    /\ UNCHANGED <<extension, me, stored, dash, extraCalls, removals, refreshed,
                   removed, overlapped, mixed>>

\* Both are there, and go up together; or one fails and the page keeps what it
\* has.
Refreshed(r, ok) ==
    /\ ok => r.account # NoAnswer /\ r.blobs # NoAnswer
    /\ refreshes' = refreshes \ {r}
    /\ dash' = IF ok THEN [dash EXCEPT !.account = r.account, !.blobs = r.blobs]
               ELSE [dash EXCEPT !.error = TRUE]
    /\ UNCHANGED <<extension, me, stored, extraCalls, removals, refreshed, removed,
                   overlapped, mixed>>

\* Subscription, invoices and notifications, or nothing if they fail.
ExtrasArrive(k) ==
    /\ extraCalls' = extraCalls \ {k}
    /\ dash' \in {dash, [dash EXCEPT !.extras = {k}]}
    /\ UNCHANGED <<extension, me, stored, refreshes, removals, refreshed, removed,
                   overlapped, mixed>>

\* remove(): the button of a row that is shown.
PressDelete(h) ==
    /\ me # NoOne /\ h \in Rows
    /\ removals' = removals \cup {[open |-> TRUE, hash |-> h, who |-> extension, at |-> "sent"]}
    /\ UNCHANGED <<extension, me, stored, dash, refreshes, extraCalls, refreshed,
                   removed, overlapped, mixed>>

\* DELETE at the proxy: the blob goes if the key that signed has it.
DeleteBlob(c) ==
    /\ c.at = "sent"
    /\ stored' = [stored EXCEPT ![c.who] = @ \ {c.hash}]
    /\ removals' = (removals \ {c}) \cup
                   {[c EXCEPT !.at = IF c.hash \in stored[c.who] THEN "gone" ELSE "failed"]}
    /\ UNCHANGED <<extension, me, dash, refreshes, extraCalls, refreshed, removed,
                   overlapped, mixed>>

\* The row is left to the refresh.
RemovedLater(c) == dash

\* The answer reaches the page: the row goes and a refresh starts.
RemovedNow(c) == [dash EXCEPT !.blobs.hashes = @ \ {c.hash}, !.error = FALSE]

Removed(c) ==
    /\ c.at \in {"gone", "failed"}
    /\ removals' = removals \ {c}
    /\ IF c.at = "gone" /\ c.open
       THEN /\ refreshed < MaxRefreshes
            /\ dash' = RemovedNow(c) /\ removed' = removed \cup {c.hash}
            /\ refreshed' = refreshed + 1
            /\ refreshes' = refreshes \cup {StartRefresh}
            /\ overlapped' = (overlapped \/ refreshes # {})
       ELSE UNCHANGED <<dash, removed, refreshed, refreshes, overlapped>>
    /\ UNCHANGED <<extension, me, stored, extraCalls, mixed>>

PageNext ==
    \/ \E k \in Holder : SwitchKey(k)
    \/ Connect \/ Disconnect \/ RefreshPage
    \/ \E r \in refreshes : GetStorage(r) \/ ListBlobs(r) \/ Refreshed(r, TRUE) \/ Refreshed(r, FALSE)
    \/ \E k \in extraCalls : ExtrasArrive(k)
    \/ \E h \in OwnBlob : PressDelete(h)
    \/ \E c \in removals : DeleteBlob(c) \/ Removed(c)

PageSpec == PageInit /\ [][PageNext]_dashVars
-----------------------------------------------------------------------------
\* The dashboard is never the wrong one: all that is shown belongs to the
\* connected key, unless the extension was switched to another while the page
\* was open; and once nothing is under way, no blob is listed that the page
\* was told is deleted, unless two refreshes were under way together, whose
\* answers may come in either order (Dashboard.tsx, refresh and remove).
DashboardTrue ==
    me # NoOne =>
        /\ ~mixed => Whose \subseteq {me}
        /\ refreshes = {} /\ ~(\E c \in removals : c.open) /\ ~overlapped /\ ~mixed
              => Rows \cap removed = {}
=============================================================================
