---- MODULE Upgrade ----
(***************************************************************************)
(* Opening the platform database (packages/storage, database.ts and        *)
(* migration.ts): backup, migrations, check, and the way back when one of  *)
(* them fails, with a process that may die between any two file            *)
(* operations.                                                             *)
(*                                                                         *)
(* Rows are counted, and so are migrations: a database at n has the first  *)
(* n of them.  A version of the program knows the first `known`.           *)
(***************************************************************************)
EXTENDS Naturals

CONSTANTS
  MaxKnown, \* bound: migrations ever shipped
  MaxRows,  \* bound: rows the user saves
  MaxKills  \* bound: deaths of the process

ASSUME UpgradeAssumption == MaxKnown \in Nat \ {0} /\ MaxRows \in Nat /\ MaxKills \in Nat

VARIABLES
  file,    \* autoappz.db
  wal,     \* its write-ahead log: what is committed and not yet in the file
  backup,  \* the last file in backups/
  opening, \* openDatabase
  known,
  stored,   \* history: rows stored so far
  cut,     \* history: a restore was cut short by the death of the process
  kills

upgradeVars == <<file, wal, backup, opening, known, stored, cut, kills>>
files == <<file, wal, backup>>

None == [is |-> "none", rows |-> 0, at |-> 0]
Whole(rows, at) == [is |-> "whole", rows |-> rows, at |-> at]
Torn == [None EXCEPT !.is = "torn"]
Shut == [at |-> "closed", existed |-> FALSE, backedUp |-> FALSE]

UpgradeTypeOK ==
  /\ \A f \in {file, backup} : f.is \in {"none", "whole", "torn"} /\ f.rows \in 0..MaxRows /\ f.at \in 0..MaxKnown
  /\ wal \in [rows : 0..MaxRows, at : 0..MaxKnown] /\ stored \in 0..MaxRows /\ known \in 1..MaxKnown
  /\ opening.at \in {"closed", "opened", "migrating", "failed", "unlinked", "moved", "copying", "open"}
  /\ cut \in BOOLEAN /\ kills \in 0..MaxKills

UpgradeInit ==
  /\ file = None /\ backup = None /\ wal = [rows |-> 0, at |-> 0]
  /\ opening = Shut /\ known = 1 /\ stored = 0 /\ cut = FALSE /\ kills = 0

\* What a connection reads: the file with its log.
RowsNow == file.rows + wal.rows
VersionNow == file.at + wal.at
NoWal == [rows |-> 0, at |-> 0]
Checkpointed == Whole(RowsNow, VersionNow)

-----------------------------------------------------------------------------
\* A missing file is created, and one that is torn does not open.
Open ==
  /\ opening.at = "closed"
  /\ CASE file.is = "none" -> file' = Whole(0, 0) /\ wal' = NoWal /\ opening' = [Shut EXCEPT !.at = "opened"]
       [] file.is = "whole" -> /\ opening' = [Shut EXCEPT !.at = "opened", !.existed = TRUE]
                               /\ UNCHANGED <<file, wal>>
       [] OTHER -> UNCHANGED <<file, wal, opening>>
  /\ UNCHANGED <<backup, known, stored, cut, kills>>

Pending == VersionNow < known

\* Fault: the log is not flushed before the file is copied.
CreateBackupFault == backup' = file /\ UNCHANGED <<file, wal>>

\* The log is flushed, so that the copy is a whole database.
CreateBackup == file' = Checkpointed /\ wal' = NoWal /\ backup' = Checkpointed

\* Only a database that was there, and only before a migration.
Backup ==
  /\ opening.at = "opened"
  /\ IF Pending /\ opening.existed
     THEN CreateBackup /\ opening' = [opening EXCEPT !.at = "migrating", !.backedUp = TRUE]
     ELSE opening' = [opening EXCEPT !.at = "migrating"] /\ UNCHANGED files
  /\ UNCHANGED <<known, stored, cut, kills>>

\* One transaction with its record in _migrations.
ApplyMigration ==
  /\ opening.at = "migrating" /\ Pending
  /\ \/ wal' = [wal EXCEPT !.at = @ + 1] /\ UNCHANGED opening
     \/ UNCHANGED wal /\ opening' = [opening EXCEPT !.at = "failed"]
  /\ UNCHANGED <<file, backup, known, stored, cut, kills>>

\* integrity_check and foreign_key_check; then the database is opened anew.
Verify ==
  /\ opening.at = "migrating" /\ ~Pending
  /\ \/ /\ opening' = [opening EXCEPT !.at = "open"] /\ file' = Checkpointed /\ wal' = NoWal
     \/ opening' = [opening EXCEPT !.at = "failed"] /\ UNCHANGED <<file, wal>>
  /\ UNCHANGED <<backup, known, stored, cut, kills>>

\* The way back: close, drop the log, set the file aside, copy the backup.
CloseFailed ==
  /\ opening.at = "failed" /\ file' = Checkpointed /\ wal' = NoWal
  /\ opening' = IF opening.backedUp THEN [opening EXCEPT !.at = "unlinked"] ELSE Shut
  /\ UNCHANGED <<backup, known, stored, cut, kills>>

SetAside ==
  /\ opening.at = "unlinked" /\ opening' = [opening EXCEPT !.at = "moved"] /\ file' = None
  /\ UNCHANGED <<wal, backup, known, stored, cut, kills>>

CopyBack ==
  /\ opening.at \in {"moved", "copying"}
  /\ IF opening.at = "moved" THEN file' = Torn /\ opening' = [opening EXCEPT !.at = "copying"]
     ELSE file' = backup /\ opening' = Shut
  /\ UNCHANGED <<wal, backup, known, stored, cut, kills>>

-----------------------------------------------------------------------------
\* Rows go to the log, and from time to time into the file.
Save ==
  /\ opening.at = "open" /\ stored < MaxRows /\ stored' = stored + 1 /\ wal' = [wal EXCEPT !.rows = @ + 1]
  /\ UNCHANGED <<file, backup, opening, known, cut, kills>>

Checkpoint ==
  /\ opening.at = "open" /\ file' = Checkpointed /\ wal' = NoWal
  /\ UNCHANGED <<backup, opening, known, stored, cut, kills>>

Close ==
  /\ opening.at = "open" /\ file' = Checkpointed /\ wal' = NoWal /\ opening' = Shut
  /\ UNCHANGED <<backup, known, stored, cut, kills>>

Update == opening.at = "closed" /\ known < MaxKnown /\ known' = known + 1 /\ UNCHANGED <<files, opening, stored, cut, kills>>

\* The log of a process that died is read by the next.
Die ==
  /\ opening.at # "closed" /\ kills < MaxKills /\ kills' = kills + 1 /\ opening' = Shut
  /\ cut' = (cut \/ opening.at \in {"moved", "copying"})
  /\ UNCHANGED <<files, known, stored>>

UpgradeNext ==
  \/ Open \/ Backup \/ ApplyMigration \/ Verify \/ CloseFailed \/ SetAside \/ CopyBack
  \/ Save \/ Checkpoint \/ Close \/ Update \/ Die

UpgradeSpec == UpgradeInit /\ [][UpgradeNext]_upgradeVars

-----------------------------------------------------------------------------
(* Properties                                                               *)

\* A database that is open is of the program's version and has every row ever
\* stored, however often an upgrade failed and the process died; but for a
\* restore that was cut short, after which the next start may find no file
\* and begin with an empty one.
RowsSurviveUpgrades == opening.at = "open" => VersionNow = known /\ (RowsNow = stored \/ cut)
====
