--------------------------- MODULE LegacyMigration ---------------------------
(***************************************************************************)
(* The blob server's start: maybeMigrateLegacyDb rewrites a database of the *)
(* earlier server in place, then initDb opens the file.  The process may   *)
(* die at any step and is started again.                                   *)
(***************************************************************************)
EXTENDS Naturals

CONSTANTS
    LegacyRow,  \* rows of the database found at the first start
    NewRow,     \* rows written once the server runs
    MaxStarts   \* bound on the starts of one behaviour

VARIABLES
    dbFile,       \* the file at config.path
    bakFile,      \* the file at config.path.bak
    boot,         \* where the starting process is
    starts,       \* starts so far
    oddity,       \* what the legacy rows hold: "none", "orphan", "repeat"
    found,        \* the rows there were before the first start
    interrupted   \* history: a start ended between the rename and its end

migrationVars == <<dbFile, bakFile, boot, starts, oddity, found, interrupted>>

NoFile == [schema |-> "none", rows |-> {}]

MigrationInit ==
    /\ \E s \in {"none", "legacy", "current"} :
         dbFile = [schema |-> s, rows |-> IF s = "none" THEN {} ELSE LegacyRow]
    /\ found = dbFile.rows
    /\ bakFile = NoFile /\ boot = "off" /\ starts = 0 /\ interrupted = FALSE
    /\ oddity \in {"none", "orphan", "repeat"}

\* main.ts starts: stat, detectLegacySchema.
StartServer ==
    /\ boot = "off" /\ starts < MaxStarts
    /\ starts' = starts + 1
    /\ boot' = IF dbFile.schema = "legacy" THEN "rename" ELSE "open"
    /\ UNCHANGED <<dbFile, bakFile, oddity, found, interrupted>>

\* Step 2, the rows having been read into memory.
BackUp ==
    /\ boot = "rename"
    /\ bakFile' = dbFile /\ dbFile' = NoFile /\ boot' = "fresh"
    /\ UNCHANGED <<starts, oddity, found, interrupted>>

\* Step 3, and the initDb of main.ts: create the tables that are missing.
OpenDb ==
    /\ boot \in {"fresh", "open"}
    /\ dbFile' = [dbFile EXCEPT !.schema = "current"]
    /\ boot' = IF boot = "fresh" THEN "import" ELSE "serving"
    /\ UNCHANGED <<bakFile, starts, oddity, found, interrupted>>

\* Step 4, a row at a time.  An owner of no blob fails its foreign key and
\* the exception ends the process.
ImportRow(row) ==
    /\ boot = "import" /\ row \notin dbFile.rows
    /\ \/ /\ oddity = "orphan" => dbFile.rows \cup {row} # LegacyRow
          /\ dbFile' = [dbFile EXCEPT !.rows = @ \cup {row}]
          /\ UNCHANGED <<boot, interrupted>>
       \/ /\ oddity = "orphan"
          /\ boot' = "off" /\ interrupted' = TRUE
          /\ UNCHANGED dbFile
    /\ UNCHANGED <<bakFile, starts, oddity, found>>

\* Step 5: counts.  A row the new keys hold to be a repeat was ignored.
VerifyCounts ==
    /\ boot = "import" /\ LegacyRow \subseteq dbFile.rows
    /\ boot' = IF oddity = "repeat" THEN "remove" ELSE "open"
    /\ UNCHANGED <<dbFile, bakFile, starts, oddity, found, interrupted>>

\* Bug: the backup goes with the new file.
RemoveBoth ==
    /\ boot = "remove"
    /\ dbFile' = NoFile /\ bakFile' = NoFile /\ boot' = "restore"
    /\ UNCHANGED <<starts, oddity, found, interrupted>>
\* A mismatch: remove the new file, whatever comes of it, ...
RemoveFresh ==
    /\ boot = "remove"
    /\ dbFile' = NoFile /\ boot' = "restore"
    /\ UNCHANGED <<bakFile, starts, oddity, found, interrupted>>
\* ... put the backup back, exit.
RestoreBackup ==
    /\ boot = "restore"
    /\ dbFile' = bakFile /\ bakFile' = NoFile /\ boot' = "off"
    /\ UNCHANGED <<starts, oddity, found, interrupted>>

\* The running server writes.
WriteRow(row) ==
    /\ boot = "serving"
    /\ dbFile' = [dbFile EXCEPT !.rows = @ \cup {row}]
    /\ UNCHANGED <<bakFile, boot, starts, oddity, found, interrupted>>

\* The process is killed, or stops.
KillServer ==
    /\ boot # "off"
    /\ interrupted' = (interrupted \/ boot \in {"fresh", "import", "remove", "restore"})
    /\ boot' = "off"
    /\ UNCHANGED <<dbFile, bakFile, starts, oddity, found>>

MigrationNext ==
    \/ StartServer \/ BackUp \/ OpenDb \/ VerifyCounts \/ RemoveFresh \/ RestoreBackup
    \/ \E row \in LegacyRow : ImportRow(row)
    \/ \E row \in NewRow : WriteRow(row)
    \/ KillServer

MigrationSpec == MigrationInit /\ [][MigrationNext]_migrationVars

-----------------------------------------------------------------------------
(***************************************************************************)
(* Wherever a start is cut short, the rows of the earlier server are on    *)
(* disk, all of them in one file; and a server that runs has them in its   *)
(* database unless an earlier start ended inside runMigration.             *)
(***************************************************************************)
LegacyKept ==
    /\ found \subseteq dbFile.rows \/ found \subseteq bakFile.rows
    /\ boot = "serving" /\ ~interrupted => found \subseteq dbFile.rows
=============================================================================
