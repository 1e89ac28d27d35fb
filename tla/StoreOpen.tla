----------------------------- MODULE StoreOpen -----------------------------
(***************************************************************************)
(* Opening the database (store.Open): restoring a backup when a newer      *)
(* program wrote it, backing it up before migrations, and migrating it,    *)
(* with the process ending between any two statements or file operations.  *)
(*                                                                         *)
(* Version n of the program has the migrations 1..n.  The first creates    *)
(* the one table looked at, RebuildAt rebuilds it outside a transaction.   *)
(***************************************************************************)
EXTENDS Naturals, Sequences

CONSTANTS
    Rows,         \* what administrators enter into the table
    LastVersion,  \* of the program
    RebuildAt,    \* the migration that rebuilds the table
    Scripts,      \* the ways it may be written, of ScriptKinds
    NoTable, NoFile,
    Torn,         \* a file that was copied in part
    MaxCrashes, MaxErrors, MaxBackups

Versions == 1..LastVersion

\* "blind" is migration 20; "script" 31, 32 and 34; "loop" 33; "afresh" 39.
ScriptKinds == {"blind", "script", "loop", "afresh"}

ASSUME StoreAssumption ==
    /\ LastVersion \in Nat /\ RebuildAt \in 2..LastVersion
    /\ Scripts \subseteq ScriptKinds
    /\ {MaxCrashes, MaxErrors, MaxBackups} \subseteq Nat

VARIABLES
    db,       \* what SQLite shows at dbPath: the file and its write-ahead log
    main,     \* the file at dbPath alone
    opened,   \* the database s.DB has open, once its file was renamed
    saved,    \* the .incompatible-vN files
    backups,  \* the wdbgp-backup- files by modification time
    script,   \* the way migration RebuildAt is written
    env,      \* WDBGP_BACKUP_ENABLED, WDBGP_AUTO_RESTORE_ENABLED
    bin,      \* the version of the program that was started last
    stage,    \* where it is
    picked,   \* the backup being restored
    spent,    \* crashes and failures so far
    entered,     \* history: all rows that were ever entered
    lastServed,  \* history: the database as it was last served or restored
    forgone,     \* history: rows excepted from NothingIsLost
    strayed      \* history: the log of a renamed database was left behind

files == <<db, main, opened, saved, backups>>
storeVars == <<files, script, env, bin, stage, picked, spent, entered,
               lastServed, forgone, strayed>>

\* The table in its old or new shape, and the copy being made, name_new.
Databases == [version : Nat, old : (SUBSET Rows) \cup {NoTable},
              new : (SUBSET Rows) \cup {NoTable},
              staging : (SUBSET Rows) \cup {NoTable}]
EmptyFile == [version |-> 0, old |-> NoTable, new |-> NoTable,
              staging |-> NoTable]

\* A missing table or file is none that could be there.
ASSUME StoreNames ==
    /\ \A rows \in SUBSET Rows : rows # NoTable
    /\ NoFile \notin Databases /\ Torn \notin Databases /\ NoFile # Torn

Held(file) ==
    IF file \in {NoFile, Torn} THEN {}
    ELSE UNION ({file.old, file.new, file.staging} \ {NoTable})

HasTable == db.old # NoTable \/ db.new # NoTable

StoreTypeOK ==
    /\ {db, main, opened, picked} \subseteq Databases \cup {NoFile, Torn}
    /\ saved \in [Versions -> Databases \cup {NoFile}]
    /\ backups \in Seq(Databases \cup {Torn})
    /\ script \in Scripts /\ env \in [backup : BOOLEAN, restore : BOOLEAN]
    /\ bin \in Versions
    /\ spent \in [crashes : 0..MaxCrashes, failures : 0..MaxErrors]
    /\ entered \subseteq Rows /\ forgone \subseteq Rows
    /\ lastServed \in Databases /\ strayed \in BOOLEAN

\* A new installation, or one that an earlier version has filled.
StoreInit ==
    /\ \/ db = NoFile /\ lastServed = EmptyFile
       \/ \E rows \in SUBSET Rows :
             /\ db = [EmptyFile EXCEPT !.version = RebuildAt - 1, !.old = rows]
             /\ lastServed = db
    /\ main = db /\ opened = NoFile /\ backups = <<>>
    /\ saved = [v \in Versions |-> NoFile]
    /\ script \in Scripts
    /\ env \in [backup : BOOLEAN, restore : BOOLEAN]
    /\ bin = 1 /\ stage = "down" /\ picked = NoFile
    /\ spent = [crashes |-> 0, failures |-> 0]
    /\ entered = Held(db) /\ forgone = {} /\ strayed = FALSE

\* An SQL statement outside a transaction, or a transaction.
Sql(after) == db' = after /\ UNCHANGED <<main, opened, saved, backups>>
MoveTo(s) ==
    /\ stage' = s
    /\ UNCHANGED <<script, env, bin, picked, spent, entered, lastServed,
                   forgone, strayed>>

----------------------------------------------------------------------------
(* Starting, and what Migrate decides first                                *)

NeedsBackup(file, v) ==
    env.backup /\ file.version > 0 /\ file.version < v

\* A missing file is created.  One that is cut short cannot be read: Open
\* fails.  What SQLite makes of another database's log is not modelled.
Start(v) ==
    /\ stage = "down" /\ db # Torn /\ ~strayed
    /\ LET file == IF db = NoFile THEN EmptyFile ELSE db IN
       /\ NeedsBackup(file, v) => Len(backups) < MaxBackups
       /\ db' = file
       /\ main' = IF db = NoFile THEN file ELSE main
       /\ stage' = CASE file.version > v ->
                          IF env.restore THEN "restore" ELSE "degraded"
                     [] NeedsBackup(file, v) -> "backup"
                     [] OTHER -> "migrate"
    /\ bin' = v
    /\ UNCHANGED <<opened, saved, backups, script, env, picked, spent,
                   entered, lastServed, forgone, strayed>>

----------------------------------------------------------------------------
(* tryRestore                                                              *)

Candidates == {i \in DOMAIN backups :
                  backups[i] # Torn /\ backups[i].version = bin}

NoBackupFound == stage = "restore" /\ Candidates = {} /\ MoveTo("degraded")
                 /\ UNCHANGED files

\* The newest one is taken.  The file is renamed without its log, over a
\* file of that name.
SetAside ==
    /\ stage = "restore"
    /\ \E i \in Candidates :
          /\ \A j \in Candidates : j <= i
          /\ picked' = backups[i]
    /\ saved' = [saved EXCEPT ![db.version] = main]
    /\ forgone' = forgone \cup Held(saved[db.version])
    /\ opened' = db /\ db' = NoFile /\ main' = NoFile
    /\ lastServed' = EmptyFile /\ stage' = "create"
    /\ UNCHANGED <<backups, script, env, bin, spent, entered, strayed>>

\* os.Create and the copy, which takes several writes.  An empty file is an
\* empty database.
WriteFile(from, file, to) ==
    /\ stage = from /\ stage' = to
    /\ db' = file /\ main' = file
    /\ lastServed' = IF file = picked THEN picked ELSE lastServed
    /\ UNCHANGED <<opened, saved, backups, script, env, bin, picked, spent,
                   entered, forgone, strayed>>
CreateFile == WriteFile("create", EmptyFile, "copy")
CopyPart == WriteFile("copy", Torn, "copyRest")
CopyRest == WriteFile("copyRest", picked, "reopen")

\* Closing without the log.
ClosedAsRenamed == saved

\* Closing the last connection writes the log into the file it belongs to,
\* wherever that is now.
Closed == IF opened = NoFile THEN saved
          ELSE [saved EXCEPT ![opened.version] = opened]

Reopen ==
    /\ stage = "reopen" /\ saved' = Closed /\ opened' = NoFile
    /\ MoveTo("migrate") /\ UNCHANGED <<db, main, backups>>

\* An error on the way, among them a full disk: the program goes on in
\* degraded mode with the files as they are.
RestoreFails ==
    /\ stage \in {"restore", "create", "copy", "copyRest"}
    /\ spent.failures < MaxErrors
    /\ spent' = [spent EXCEPT !.failures = @ + 1]
    /\ stage' = "degraded"
    /\ UNCHANGED <<files, script, env, bin, picked, entered, lastServed,
                   forgone, strayed>>

----------------------------------------------------------------------------
(* The backup before migrations                                            *)

\* Copying the file as it lies there.
NotCheckpointed == main

\* PRAGMA wal_checkpoint(TRUNCATE)
Checkpointed == db

\* The checkpoint, and the new file, which is no database before it is whole.
BeginBackup ==
    /\ stage = "backup" /\ main' = Checkpointed
    /\ backups' = Append(backups, Torn)
    /\ MoveTo("copyBackup") /\ UNCHANGED <<db, opened, saved>>
CopyBackup ==
    /\ stage = "copyBackup"
    /\ backups' = [backups EXCEPT ![Len(backups)] = main]
    /\ MoveTo("migrate") /\ UNCHANGED <<db, main, opened, saved>>

----------------------------------------------------------------------------
(* Migrations                                                              *)

NextVersion == db.version + 1
Migrating == stage = "migrate" /\ db.version < bin

\* A migration within a transaction, which also records it.
ApplyMigration ==
    /\ Migrating /\ NextVersion # RebuildAt
    /\ Sql([db EXCEPT !.version = NextVersion,
               !.old = IF NextVersion = 1 /\ ~HasTable THEN {} ELSE @])
    /\ MoveTo("migrate")

RebuildDue == Migrating /\ NextVersion = RebuildAt

\* CREATE TABLE IF NOT EXISTS name_new
WithCopy == [db EXCEPT !.staging = IF @ = NoTable THEN {} ELSE @]

\* Migration 20 looks at nothing before.
BeginBlind == RebuildDue /\ script = "blind" /\ Sql(WithCopy)
              /\ MoveTo("insert")

\* The others look where an earlier attempt stopped.  Migration 33 takes a
\* copy that is not empty for whole; so do 31, 32 and 34, when they insert.
BeginCopy ==
    /\ RebuildDue /\ script \in {"script", "loop"} /\ db.old # NoTable
    /\ Sql(WithCopy)
    /\ MoveTo(IF script = "loop" /\ WithCopy.staging # {} THEN "drop"
              ELSE "insert")

\* Migration 39 discards a copy of a table that is still there.
BeginAfresh ==
    /\ RebuildDue /\ script = "afresh" /\ db.old # NoTable
    /\ Sql([db EXCEPT !.staging = {}]) /\ MoveTo("insert")

\* A missing table that is taken for one that needs nothing.
TakenForDone == db

\* A missing table was dropped: its copy has to be renamed.
Finished == [db EXCEPT !.new = db.staging, !.staging = NoTable]

FinishRename ==
    /\ RebuildDue /\ script # "blind" /\ ~HasTable
    /\ Sql(Finished) /\ MoveTo("record")

\* The table has its new shape, only the record is missing.
AlreadyRebuilt ==
    /\ RebuildDue /\ script # "blind" /\ db.new # NoTable
    /\ Sql(db) /\ MoveTo("record")

\* INSERT ... SELECT of a table without rows: all rows or none.
InsertAll ==
    /\ stage = "insert" /\ script # "loop" /\ HasTable
    /\ Sql([db EXCEPT !.staging = IF @ = {} THEN Held(db) ELSE @])
    /\ MoveTo("drop")
\* Migration 33 converts the rows one by one, each with a statement.
InsertRow ==
    /\ stage = "insert" /\ script = "loop"
    /\ \E r \in db.old \ db.staging :
          Sql([db EXCEPT !.staging = @ \cup {r}])
    /\ MoveTo("insert")
InsertedRows ==
    /\ stage = "insert" /\ script = "loop" /\ db.old \subseteq db.staging
    /\ Sql(db) /\ MoveTo("drop")

DropTable ==
    /\ stage = "drop" /\ Sql([db EXCEPT !.old = NoTable, !.new = NoTable])
    /\ MoveTo("rename")
RenameTable ==
    /\ stage = "rename"
    /\ Sql([db EXCEPT !.new = db.staging, !.staging = NoTable])
    /\ MoveTo("record")
RecordMigration ==
    /\ stage = "record" /\ Sql([db EXCEPT !.version = NextVersion])
    /\ MoveTo("migrate")

----------------------------------------------------------------------------
(* Serving, and the end of the process                                     *)

Serve ==
    /\ stage = "migrate" /\ db.version >= bin
    /\ stage' = "serving" /\ lastServed' = db
    /\ UNCHANGED <<files, script, env, bin, picked, spent, entered,
                   forgone, strayed>>

\* A program can write the table in the shape it knows.  An older one, after
\* an upgrade that failed, may do so beside the copy that is left from it: the
\* next upgrade finds that copy filled and takes it as it is.
EnterRow(r) ==
    /\ stage = "serving" /\ r \notin entered
    /\ IF bin < RebuildAt
       THEN db.old # NoTable /\ Sql([db EXCEPT !.old = @ \cup {r}])
       ELSE db.new # NoTable /\ Sql([db EXCEPT !.new = @ \cup {r}])
    /\ entered' = entered \cup {r} /\ lastServed' = db'
    /\ forgone' = IF db.staging # NoTable /\ script # "afresh"
                  THEN forgone \cup {r} ELSE forgone
    /\ UNCHANGED <<script, env, bin, stage, picked, spent, strayed>>

\* SQLite does so now and then.
Checkpoint ==
    /\ stage = "serving" /\ main' = db
    /\ MoveTo("serving") /\ UNCHANGED <<db, opened, saved, backups>>

\* Shutdown, and Open when it returns an error, close the database.
Close ==
    /\ saved' = Closed /\ opened' = NoFile
    /\ main' = IF opened = NoFile THEN db ELSE main
    /\ stage' = "down"
    /\ UNCHANGED <<db, backups, script, env, bin, picked, entered,
                   lastServed, forgone, strayed>>
Stop == stage \in {"serving", "degraded"} /\ Close /\ UNCHANGED spent

OpenSteps == {"backup", "copyBackup", "migrate", "insert", "drop", "rename",
              "record"}
OpenFails ==
    /\ stage \in OpenSteps \cup {"reopen"} /\ spent.failures < MaxErrors
    /\ spent' = [spent EXCEPT !.failures = @ + 1]
    /\ Close

\* The log stays where it is; without its file it strays.
Crash ==
    /\ stage # "down" /\ spent.crashes < MaxCrashes
    /\ spent' = [spent EXCEPT !.crashes = @ + 1]
    /\ strayed' = (opened # NoFile /\ Closed # saved)
    /\ stage' = "down" /\ opened' = NoFile
    /\ UNCHANGED <<db, main, saved, backups, script, env, bin, picked,
                   entered, lastServed, forgone>>

StoreNext ==
    \/ \E v \in Versions : Start(v)
    \/ NoBackupFound \/ SetAside \/ CreateFile \/ CopyPart \/ CopyRest
    \/ Reopen \/ RestoreFails
    \/ BeginBackup \/ CopyBackup
    \/ ApplyMigration \/ BeginBlind \/ BeginCopy \/ BeginAfresh
    \/ FinishRename \/ AlreadyRebuilt \/ InsertAll \/ InsertRow
    \/ InsertedRows \/ DropTable \/ RenameTable \/ RecordMigration
    \/ Serve \/ \E r \in Rows : EnterRow(r)
    \/ Checkpoint \/ Stop \/ OpenFails \/ Crash
StoreSpec == StoreInit /\ [][StoreNext]_storeVars

----------------------------------------------------------------------------
(* Properties                                                              *)

\* Whatever restores, backups and migrations are cut short where, every row
\* ever entered is in some database that can be found: the one in use, one
\* set aside or a backup.  Excepted is what a second restore from the same
\* version replaces, what is entered beside an old copy, a log that a crash has
\* parted from its file, and what migration 33 drops when its copy was cut.
CopyWasCut == script = "loop" /\ spent # [crashes |-> 0, failures |-> 0]
NothingIsLost ==
    \/ strayed \/ CopyWasCut
    \/ entered \subseteq
          forgone
          \cup UNION {Held(f) : f \in {db, opened}
                                      \cup {saved[v] : v \in Versions}
                                      \cup {backups[i] : i \in DOMAIN backups}}

RowsAreKept == Held(db') = Held(lastServed)
StartsServing == stage # "serving" /\ stage' = "serving"

\* What is served after an upgrade, however often it was cut short or failed,
\* has the rows that were last served, or restored (if no old copy was beside
\* them), and migrations that are recorded have run to their end.  Migration
\* 33 must not be cut.
UpgradeKeepsRows ==
    [][StartsServing =>
          /\ lastServed.staging = NoTable \/ script = "afresh"
             => CopyWasCut \/ RowsAreKept
          /\ db.version >= RebuildAt
             => db.new # NoTable /\ db.old = NoTable /\ db.staging = NoTable
      ]_storeVars

\* The same for migration 33 when it is cut short or fails, which "must be
\* idempotent so it is safe to re-run on retry" (store.go:459).
RetryKeepsRows ==
    [][StartsServing /\ lastServed.staging = NoTable => RowsAreKept]_storeVars

\* The same for what an older program has served after a failed upgrade.  It
\* does not hold.
RollbackKeepsRows == [][StartsServing => RowsAreKept]_storeVars

\* While migrations run, the database as it was last served is among the
\* backups, even if an earlier attempt has changed it since.
UpgradeIsBackedUp ==
    stage \in OpenSteps \ {"backup", "copyBackup"} /\ env.backup
    /\ lastServed.version \in 1 .. bin - 1
    => \E i \in DOMAIN backups : backups[i] = lastServed

\* A program finds the table in the shape it knows.  It does not hold: an
\* older program is started on what a failed upgrade left, and the newest
\* backup may have been made after an earlier attempt had begun to rebuild.
ShapeIsKnown ==
    stage = "serving"
    => (IF bin < RebuildAt THEN db.old ELSE db.new) # NoTable

\* An interrupted rebuild can go on: no statement needs a table that an
\* earlier attempt has dropped ("safe for retry after partial run",
\* 020_adapter_m2m.go:95).  Not so in migration 20.
StatementsCanRun == stage = "insert" => HasTable
=============================================================================
