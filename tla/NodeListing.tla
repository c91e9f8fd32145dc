----------------------------- MODULE NodeListing -----------------------------
(***************************************************************************)
(* The lists of the blob server, read page by page while rows come and go: *)
(* GET /list/:pubkey, which a client walks with a cursor, and the lists of *)
(* the admin dashboard, through which an operator goes by page numbers,    *)
(* deleting rows on the way.                                               *)
(***************************************************************************)
EXTENDS Naturals, FiniteSets, FiniteSetsExt

CONSTANTS
    Sha,           \* hashes in their order: a range of numbers
    PageLimit,     \* limit of a page
    MaxClock       \* bound on the seconds that pass

NoSha == 0

VARIABLES
    clock,     \* the server's second
    uploaded,  \* blob rows of one owner: hash -> second of its upload, or none
    reader,    \* who reads: a "client" or an "operator"
    walk,      \* a client's walk over GET /list
    browser    \* an operator's page of a list

listingVars == <<clock, uploaded, reader, walk, browser>>

NoWalk == [at |-> "idle", cursor |-> NoSha, since |-> NoSha, listed |-> {},
           stayed |-> {}, twice |-> {}, moved |-> FALSE]
NoPage == [at |-> "idle", list |-> "none", page |-> 1, rows |-> {}, total |-> 0,
           got |-> {}, left |-> {}, owed |-> {}]
Stored == DOMAIN uploaded

ListingInit ==
    /\ clock = 1 /\ uploaded = [h \in {} |-> 1] /\ reader \in {"client", "operator"}
    /\ walk = NoWalk /\ browser = NoPage

-----------------------------------------------------------------------------
PassSecond ==
    /\ clock < MaxClock
    /\ clock' = clock + 1
    /\ UNCHANGED <<uploaded, reader, walk, browser>>

\* insertBlob of a hash that is not there.  The rows that an operator is still
\* owed are forgotten when one comes between the queries of a page.
StoreSha(h) ==
    /\ h \notin Stored
    /\ uploaded' = [g \in Stored \cup {h} |-> IF g = h THEN clock ELSE uploaded[g]]
    /\ browser' = [browser EXCEPT !.owed = IF browser.got = {"total"} THEN {} ELSE @]
    /\ UNCHANGED <<clock, reader, walk>>

\* deleteBlob; the histories note what did not stay, a cursor lost, and that the
\* pages an operator has not seen move up.
Without(h) == [g \in Stored \ {h} |-> uploaded[g]]
DropSha(h) ==
    /\ h \in Stored
    /\ uploaded' = Without(h)
    /\ walk' = [walk EXCEPT !.stayed = @ \ {h}, !.moved = @ \/ walk.cursor = h]
    /\ browser' = [browser EXCEPT !.owed = {}]
    /\ UNCHANGED <<clock, reader>>

-----------------------------------------------------------------------------
\* ORDER BY uploaded DESC, sha256 ASC.
Before(g, h) ==
    \/ uploaded[g] > uploaded[h]
    \/ uploaded[g] = uploaded[h] /\ g < h
\* Bug: ties are not told apart by hash.
PastCursorStrict(c, second) == {h \in Stored : second = NoSha \/ uploaded[h] < second}
\* The rows past the cursor, its second as the first query read it; a cursor
\* that is not there adds no condition.
PastCursor(c, second) ==
    {h \in Stored : second = NoSha \/ uploaded[h] < second \/ (uploaded[h] = second /\ h > c)}
FirstRows(rows) == {h \in rows : Cardinality({g \in rows : Before(g, h)}) < PageLimit}

StartWalk ==
    /\ reader = "client" /\ walk.at \in {"idle", "ended"}
    /\ walk' = [NoWalk EXCEPT !.at = "query", !.stayed = Stored]
    /\ UNCHANGED <<clock, uploaded, reader, browser>>

\* listBlobsByPubkey's first query: the cursor's upload second.
ReadCursor ==
    /\ walk.at = "cursor"
    /\ walk' = [walk EXCEPT !.at = "query",
                  !.since = IF walk.cursor \in Stored THEN uploaded[walk.cursor] ELSE NoSha]
    /\ UNCHANGED <<clock, uploaded, reader, browser>>

\* The second: the page.  The client asks on from its last row until a page is empty.
ReadPage ==
    /\ walk.at = "query"
    /\ LET page == FirstRows(PastCursor(walk.cursor, walk.since)) IN
         walk' = [walk EXCEPT
                    !.at = IF page = {} THEN "ended" ELSE "cursor",
                    !.cursor = IF page = {} THEN NoSha
                               ELSE CHOOSE h \in page : \A g \in page : g = h \/ Before(g, h),
                    !.since = NoSha,
                    !.twice = @ \cup (walk.listed \cap page),
                    !.listed = @ \cup page]
    /\ UNCHANGED <<clock, uploaded, reader, browser>>

-----------------------------------------------------------------------------
(* The dashboard.  Its lists show the newest first, the users in the order *)
(* of their keys; rows of one second are taken to come in a fixed order.   *)

Lists == {"blobs", "users", "user", "reports"}
ComesFirst(list, g, h) == IF list = "users" THEN g < h ELSE Before(g, h)
Slice(list, offset) ==
    {h \in Stored : Cardinality({g \in Stored : ComesFirst(list, g, h)})
                       \in offset .. offset + PageLimit - 1}
ListAllBlobs(offset) == Slice("blobs", offset)
ListAllUsers(offset) == Slice("users", offset)
ListBlobsByPubkeyAdmin(offset) == Slice("user", offset)
ListAllReports(offset) == Slice("reports", offset)
CountBlobs == Cardinality(Stored)
CountUsers == Cardinality(Stored)
CountBlobsByPubkey == Cardinality(Stored)
CountReports == Cardinality(Stored)

\* The two queries of a page.
BlobsPage(page) == [rows |-> ListAllBlobs((page - 1) * PageLimit), total |-> CountBlobs]
UsersPage(page) == [rows |-> ListAllUsers((page - 1) * PageLimit), total |-> CountUsers]
UserDetailPage(page) ==
    [rows |-> ListBlobsByPubkeyAdmin((page - 1) * PageLimit), total |-> CountBlobsByPubkey]
ReportsPage(page) == [rows |-> ListAllReports((page - 1) * PageLimit), total |-> CountReports]
PageOf(list, page) ==
    CASE list = "blobs" -> BlobsPage(page)
      [] list = "users" -> UsersPage(page)
      [] list = "user" -> UserDetailPage(page)
      [] list = "reports" -> ReportsPage(page)

\* GET /admin/<list>?page=n: the page and the total are read at the same time,
\* in either order.
AskPage(list, page, b) ==
    [b EXCEPT !.at = "loading", !.list = list, !.page = page, !.rows = {}, !.total = 0, !.got = {}]
OpenList(list) ==
    /\ reader = "operator" /\ browser.at \in {"idle", "ended"}
    /\ browser' = AskPage(list, 1, [NoPage EXCEPT !.owed = Stored])
    /\ UNCHANGED <<clock, uploaded, reader, walk>>
Loaded(what) == IF browser.got \cup {what} = {"rows", "total"} THEN "shown" ELSE "loading"
ReadRows ==
    /\ browser.at = "loading" /\ "rows" \notin browser.got
    /\ LET rows == PageOf(browser.list, browser.page).rows IN
         browser' = [browser EXCEPT !.at = Loaded("rows"), !.rows = rows, !.got = @ \cup {"rows"},
                                    !.owed = @ \ rows]
    /\ UNCHANGED <<clock, uploaded, reader, walk>>
ReadTotal ==
    /\ browser.at = "loading" /\ "total" \notin browser.got
    /\ LET total == PageOf(browser.list, browser.page).total IN
         browser' = [browser EXCEPT !.at = Loaded("total"), !.total = total, !.got = @ \cup {"total"}]
    /\ UNCHANGED <<clock, uploaded, reader, walk>>

\* A user without blobs is not found.
Found == ~(browser.list = "user" /\ browser.page = 1 /\ browser.total = 0)
Visible == IF Found THEN browser.rows ELSE {}

\* Pagination: the link to the next page, if there is one; an empty page has none.
TotalPages == Max({1, (browser.total + PageLimit - 1) \div PageLimit})
FollowNext ==
    /\ browser.at = "shown"
    /\ browser' = IF Visible # {} /\ browser.page < TotalPages
                  THEN AskPage(browser.list, browser.page + 1, browser)
                  ELSE [AskPage("none", 1, browser) EXCEPT !.at = "ended"]
    /\ UNCHANGED <<clock, uploaded, reader, walk>>

\* A row's page of its own, and the way back, to the first page of the list.
BlobDetailPage(h) == {h} \cap Stored
ReportDetailPage(h) == {h} \cap Stored
OpenDetail(h) ==
    /\ browser.at = "shown" /\ browser.list \in {"blobs", "reports"} /\ h \in Visible
    /\ browser' = [AskPage(browser.list, browser.page, browser)
                     EXCEPT !.at = "detail", !.rows = IF browser.list = "blobs" THEN BlobDetailPage(h)
                                                     ELSE ReportDetailPage(h)]
    /\ UNCHANGED <<clock, uploaded, reader, walk>>
BackToList ==
    /\ browser.at = "detail"
    /\ browser' = AskPage(browser.list, 1, browser)
    /\ UNCHANGED <<clock, uploaded, reader, walk>>

\* adminAction on a row: once it is deleted the page is loaded again, unless the
\* answer does not arrive.  A report that is gone is refused.
Reload(b) == IF b.at = "detail" THEN [b EXCEPT !.rows = {}] ELSE AskPage(b.list, b.page, b)
Unloaded(b) == [b EXCEPT !.owed = {}]
DeleteShown(h) ==
    /\ browser.at \in {"shown", "detail"} /\ browser.list # "users" /\ h \in Visible
    /\ uploaded' = Without(h)
    /\ \/ browser' = Unloaded(browser)
       \/ (browser.list = "reports" => h \in Stored) /\ browser' = Reload(browser)
    /\ UNCHANGED <<clock, reader, walk>>

\* adminAction on a report's blob: every report of the blob goes, those of other
\* pages included.
DeleteWithReports(h, others) ==
    /\ browser.at \in {"shown", "detail"} /\ browser.list = "reports" /\ h \in Visible \cap Stored
    /\ uploaded' = [g \in Stored \ (others \cup {h}) |-> uploaded[g]]
    /\ browser' \in {Reload(Unloaded(browser)), Unloaded(browser)}
    /\ UNCHANGED <<clock, reader, walk>>

\* adminAction on a user: their blobs are listed, deleted one after the other,
\* and the page is loaded again.
DeleteUser ==
    /\ browser.at = "shown" /\ browser.list = "user" /\ Found
    /\ browser' = [Unloaded(browser) EXCEPT !.at = "deleting", !.left = Stored]
    /\ UNCHANGED <<clock, uploaded, reader, walk>>
DeleteNext ==
    /\ browser.at = "deleting"
    /\ \/ /\ browser.left = {}
          /\ browser' \in {Reload(browser), [browser EXCEPT !.at = "shown"]}
          /\ UNCHANGED uploaded
       \/ \E h \in browser.left :
          /\ uploaded' = Without(h)
          /\ browser' = [browser EXCEPT !.left = @ \ {h}]
    /\ UNCHANGED <<clock, reader, walk>>

-----------------------------------------------------------------------------
ListingNext ==
    \/ PassSecond \/ StartWalk \/ ReadCursor \/ ReadPage
    \/ ReadRows \/ ReadTotal \/ FollowNext \/ BackToList \/ DeleteUser \/ DeleteNext
    \/ \E list \in Lists : OpenList(list)
    \/ \E h \in Sha, others \in SUBSET Stored : DeleteWithReports(h, others)
    \/ \E h \in Sha : StoreSha(h) \/ DropSha(h) \/ OpenDetail(h) \/ DeleteShown(h)

-----------------------------------------------------------------------------
(***************************************************************************)
(* A client that follows the cursor of GET /list until a page is empty has *)
(* been given every blob that was there all along, uploads and deletes in  *)
(* between notwithstanding, and none of them twice unless the blob its     *)
(* cursor named was deleted under it (listBlobsByPubkey).  An operator who *)
(* goes from page to page of a list, deleting rows on the way, has seen    *)
(* every row that stayed, unless rows were deleted elsewhere than on the   *)
(* page, the page was not loaded again, or a row came between the queries  *)
(* for a page's total and its rows.                                        *)
(***************************************************************************)
WalkComplete ==
    /\ walk.at = "ended" => walk.stayed \subseteq walk.listed
    /\ walk.twice \cap walk.stayed # {} => walk.moved
    /\ browser.at = "ended" => browser.owed = {}
=============================================================================
