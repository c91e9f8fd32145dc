----------------------------- MODULE ReportDesk -----------------------------
(***************************************************************************)
(* Reports on the blob server: PUT /report files a signed event against    *)
(* each hash it names, an admin dismisses a report or deletes the blob it  *)
(* is about together with all its reports.                                 *)
(***************************************************************************)
EXTENDS Naturals, FiniteSets

CONSTANTS
    Reported,     \* hashes reports are about
    ReportEvent   \* signed report events

NoReport == "none"

VARIABLES
    held,      \* hashes with a row
    reports,   \* report rows, unique (event, blob)
    reporting, \* a PUT /report between two inserts: event and hashes left
    desk       \* a delete-blob request

deskVars == <<held, reports, reporting, desk>>

NoReporting == [event |-> NoReport, left |-> {}]

DeskInit ==
    /\ held = Reported /\ reports = {} /\ reporting = NoReporting
    /\ desk = [at |-> "idle", sha |-> NoReport, known |-> {}]

-----------------------------------------------------------------------------
\* PUT /report, past its checks: INSERT OR IGNORE, one x tag after the other.
SubmitReport(e, hashes) ==
    /\ reporting = NoReporting
    /\ reporting' = [event |-> e, left |-> hashes]
    /\ UNCHANGED <<held, reports, desk>>
InsertReport(h) ==
    LET row == <<reporting.event, h>> IN
      /\ h \in reporting.left
      /\ reports' = reports \cup {row}
      /\ reporting' = IF reporting.left = {h} THEN NoReporting
                      ELSE [reporting EXCEPT !.left = @ \ {h}]
      /\ desk' = [desk EXCEPT !.known = IF row \in reports THEN @ ELSE @ \ {row}]
      /\ UNCHANGED held

\* POST /api/reports/:id/dismiss
DismissReport(r) ==
    /\ reports' = reports \ {r}
    /\ UNCHANGED <<held, reporting, desk>>

\* Bug: one report of the blob, not all.
OneReportOn(sha) == LET on == {q \in reports : q[2] = sha} IN
    {q \in on : q = CHOOSE p \in on : TRUE}
ReportsOn(sha) == {q \in reports : q[2] = sha}

\* POST /api/reports/:id/delete-blob: the report, then the row and the file,
\* then every report of the blob.
OpenReport(r) ==
    /\ desk.at \in {"idle", "ended"}
    /\ desk' = [at |-> "delete", sha |-> r[2], known |-> {q \in reports : q[2] = r[2]}]
    /\ UNCHANGED <<held, reports, reporting>>
DeleteReported ==
    /\ desk.at = "delete"
    /\ held' = held \ {desk.sha}
    /\ desk' = [desk EXCEPT !.at = "dismiss"]
    /\ UNCHANGED <<reports, reporting>>
DeleteReportsByBlob ==
    /\ desk.at = "dismiss"
    /\ reports' = reports \ ReportsOn(desk.sha)
    /\ desk' = [desk EXCEPT !.at = "ended"]
    /\ UNCHANGED <<held, reporting>>

\* insertBlob: the hash is uploaded again.
StoreAgain(h) ==
    /\ held' = held \cup {h}
    /\ UNCHANGED <<reports, reporting, desk>>

DeskNext ==
    \/ DeleteReported \/ DeleteReportsByBlob
    \/ \E e \in ReportEvent, hashes \in (SUBSET Reported) \ {{}} : SubmitReport(e, hashes)
    \/ \E h \in Reported : InsertReport(h) \/ StoreAgain(h)
    \/ \E r \in reports : DismissReport(r) \/ OpenReport(r)

DeskSpec == DeskInit /\ [][DeskNext]_deskVars

-----------------------------------------------------------------------------
(***************************************************************************)
(* When delete-blob answers, no report that was on file against the blob   *)
(* when the admin opened it is left, however many events named the blob    *)
(* and whatever is filed or dismissed meanwhile ("delete blob + dismiss    *)
(* all its reports", admin-router.tsx).                                    *)
(***************************************************************************)
ReportsDismissed == desk.at = "ended" => desk.known \cap reports = {}
=============================================================================
