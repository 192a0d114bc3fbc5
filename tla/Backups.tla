------------------------------ MODULE Backups ------------------------------
(***************************************************************************)
(* Backup and restore: scripts/db-backup.ts dumps, encrypts and prunes,    *)
(* scripts/db-restore.ts decrypts, reads the contents and restores.  Each  *)
(* is a sequence of child processes that can fail, leaving what they wrote *)
(* so far, and can be killed between any two.  A file name is its stamp    *)
(* and whether ".enc" follows ".dump"; names sort by both.                 *)
(***************************************************************************)
EXTENDS Environment, FiniteSets

CONSTANTS
  Retains,    \* values of --retain
  MaxBackups  \* bound: backups of a behaviour

\* main refuses a --retain below one.
ASSUME BackupsAssumption == Retains \subseteq Nat \ {0} /\ MaxBackups \in Nat

VARIABLES
  dumps,     \* the directory: [stamp, enc, state]
  backup,    \* the backup in progress
  restore,   \* the restore in progress
  database,  \* what the target holds: [ver, torn]
  stamps,    \* how many backups there were
  completed  \* history: [stamp, retain, before], the last complete backup

backupVars == <<dumps, backup, restore, database, stamps, completed>>

NoBackup == [st |-> "none"]
NoRestore == [st |-> "none"]
NeverDone == [stamp |-> 0, retain |-> 1, before |-> {}]

\* What a file is worth: whole; cut off after its table of contents; or
\* without a readable one.
Broken == {"cut", "unreadable"}
Older(f, g) == f.stamp < g.stamp \/ (f.stamp = g.stamp /\ ~f.enc /\ g.enc)

BackupInit ==
  /\ dumps = {}
  /\ backup = NoBackup
  /\ restore = NoRestore
  /\ database = [ver |-> 1, torn |-> "no"]
  /\ stamps = 0
  /\ completed = NeverDone

\* The application writes on.
DatabaseChanges ==
  /\ database.ver < MaxBackups
  /\ database' = [database EXCEPT !.ver = @ + 1]
  /\ Upset
  /\ UNCHANGED <<dumps, backup, restore, stamps, completed>>
-----------------------------------------------------------------------------
(* db-backup: main.                                                        *)

\* pg_dump opens its file first.
StartBackup(encrypt, retain) ==
  /\ backup = NoBackup /\ stamps < MaxBackups
  /\ stamps' = stamps + 1
  /\ dumps' = dumps \cup {[stamp |-> stamps + 1, enc |-> FALSE, state |-> "unreadable", of |-> 0]}
  /\ backup' = [st |-> "dump", stamp |-> stamps + 1, encrypt |-> encrypt, retain |-> retain,
                todo |-> {}, before |-> {}]
  /\ Calm
  /\ UNCHANGED <<restore, database, completed>>

Mine(enc) == CHOOSE f \in dumps : f.stamp = backup.stamp /\ f.enc = enc
FileWritten(enc, state, of) ==
  {f \in dumps : f.stamp # backup.stamp \/ f.enc # enc} \cup
    {[stamp |-> backup.stamp, enc |-> enc, state |-> state, of |-> of]}

\* pg_dump writes a snapshot of what is there; --verify can list it.
DumpDone ==
  /\ backup.st = "dump"
  /\ dumps' = FileWritten(FALSE, "whole", database.ver)
  /\ backup' = [backup EXCEPT !.st = IF backup.encrypt THEN "encrypt" ELSE "list"]
  /\ Calm
  /\ UNCHANGED <<restore, database, stamps, completed>>

\* openssl writes the other file; then the plain one is removed.
Encrypt ==
  /\ backup.st = "encrypt"
  /\ dumps' = FileWritten(TRUE, "whole", Mine(FALSE).of)
  /\ backup' = [backup EXCEPT !.st = "unlink"]
  /\ Calm
  /\ UNCHANGED <<restore, database, stamps, completed>>

\* Without BACKUP_PASSPHRASE the dump is removed and the backup fails.
NoPassphrase ==
  /\ backup.st = "encrypt"
  /\ dumps' = {f \in dumps : f.stamp # backup.stamp}
  /\ backup' = NoBackup
  /\ Upset
  /\ UNCHANGED <<restore, database, stamps, completed>>

UnlinkPlain ==
  /\ backup.st = "unlink"
  /\ dumps' = dumps \ {Mine(FALSE)}
  /\ backup' = [backup EXCEPT !.st = "list"]
  /\ Calm
  /\ UNCHANGED <<restore, database, stamps, completed>>

\* readdir and sort; slice(0, excess), where a negative end counts from the
\* end of the array.  (NewestFirst sorts the other way.)
SliceEnd(length, end) ==
  IF end >= 0 THEN end ELSE IF length + end > 0 THEN length + end ELSE 0
NewestFirst(entries, retain) ==
  LET n == Cardinality(entries)
  IN  {f \in entries : Cardinality({g \in entries : Older(f, g)}) < SliceEnd(n, n - retain)}
Excess(entries, retain) ==
  LET n == Cardinality(entries)
  IN  {f \in entries : Cardinality({g \in entries : Older(g, f)}) < SliceEnd(n, n - retain)}

ListBackups ==
  /\ backup.st = "list"
  /\ backup' = [backup EXCEPT !.st = "prune", !.before = dumps,
                              !.todo = Excess(dumps, backup.retain)]
  /\ Calm
  /\ UNCHANGED <<dumps, restore, database, stamps, completed>>

\* One unlink after the other.
PruneNext ==
  /\ backup.st = "prune"
  /\ \E f \in backup.todo :
       /\ \A g \in backup.todo \ {f} : Older(f, g)
       /\ dumps' = dumps \ {f}
       /\ backup' = [backup EXCEPT !.todo = @ \ {f}]
  /\ Calm
  /\ UNCHANGED <<restore, database, stamps, completed>>

BackupComplete ==
  /\ backup.st = "prune" /\ backup.todo = {}
  /\ completed' = [stamp |-> backup.stamp, retain |-> backup.retain, before |-> backup.before]
  /\ backup' = NoBackup
  /\ Calm
  /\ UNCHANGED <<dumps, restore, database, stamps>>

\* A child fails or the script is killed: what it was writing stays behind.
BackupDies ==
  /\ backup # NoBackup
  /\ \E state \in Broken :
       dumps' = IF backup.st = "dump" THEN FileWritten(FALSE, state, 0)
                ELSE IF backup.st = "encrypt" THEN FileWritten(TRUE, state, 0)
                ELSE dumps
  /\ backup' = NoBackup
  /\ Upset
  /\ UNCHANGED <<restore, database, stamps, completed>>
-----------------------------------------------------------------------------
(* db-restore: main.                                                       *)

\* --yes; an encrypted file is decrypted beside itself.
StartRestore(f) ==
  /\ restore = NoRestore
  /\ restore' = [st |-> IF f.enc THEN "decrypt" ELSE "list", file |-> f, dec |-> FALSE]
  /\ Calm
  /\ UNCHANGED <<dumps, backup, database, stamps, completed>>

\* openssl fails on a file that was cut off.
Decrypt ==
  /\ restore.st = "decrypt"
  /\ restore' = IF restore.file.state = "whole"
                THEN [restore EXCEPT !.st = "list", !.dec = TRUE] ELSE NoRestore
  /\ Calm
  /\ UNCHANGED <<dumps, backup, database, stamps, completed>>

\* pg_restore --list reads the table of contents and no further.
\* (AnyFile trusts the file.)
AnyFile(f) == TRUE
Lists(f) == f.state # "unreadable"

ListContents ==
  /\ restore.st = "list"
  /\ restore' = IF Lists(restore.file) THEN [restore EXCEPT !.st = "restore"]
                ELSE [restore EXCEPT !.st = "cleanup"]
  /\ Calm
  /\ UNCHANGED <<dumps, backup, database, stamps, completed>>

\* --clean drops the tables, and the rows are loaded table by table; a file
\* that ends too early, or a failure, leaves some of them.
RestoreRuns ==
  /\ restore.st = "restore"
  /\ database' = IF restore.file.state = "whole"
                 THEN [ver |-> restore.file.of, torn |-> "no"]
                 ELSE [database EXCEPT !.torn = restore.file.state]
  /\ restore' = [restore EXCEPT !.st = "cleanup"]
  /\ Calm
  /\ UNCHANGED <<dumps, backup, stamps, completed>>

RestoreFails ==
  /\ restore.st = "restore"
  /\ database' = [database EXCEPT !.torn = "failed"]
  /\ restore' = [restore EXCEPT !.st = "cleanup"]
  /\ Upset
  /\ UNCHANGED <<dumps, backup, stamps, completed>>

\* finally: the decrypted copy is removed.
Cleanup ==
  /\ restore.st = "cleanup"
  /\ restore' = NoRestore
  /\ Calm
  /\ UNCHANGED <<dumps, backup, database, stamps, completed>>

BackupNext ==
  \/ DatabaseChanges
  \/ \E encrypt \in BOOLEAN, retain \in Retains : StartBackup(encrypt, retain)
  \/ DumpDone \/ Encrypt \/ NoPassphrase \/ UnlinkPlain
  \/ ListBackups \/ PruneNext \/ BackupComplete \/ BackupDies
  \/ \E f \in dumps : StartRestore(f)
  \/ Decrypt \/ ListContents \/ RestoreRuns \/ RestoreFails \/ Cleanup
-----------------------------------------------------------------------------
\* However backups failed or were killed before and after it, and whatever
\* their remains do to the count: a whole dump at least as new as the last
\* complete backup is there, no plain one beside its ciphertext, and a file
\* that lists nothing never touched the database.
BackupsHold ==
  /\ completed # NeverDone => \E f \in dumps : f.state = "whole" /\ f.stamp >= completed.stamp
  /\ \A f \in dumps : f.stamp = completed.stamp => \A g \in dumps : g.stamp = f.stamp => g = f
  /\ database.torn # "unreadable"

\* "keep the newest n timestamped backups": those that were there when the
\* last backup came to prune are still there.  The code breaks it: with fewer
\* than n files the excess is negative and slice counts it from the end.
RetainedAsAsked ==
  completed.stamp = stamps =>
    \A f \in completed.before :
      Cardinality({g \in completed.before : Older(f, g)}) < completed.retain => f \in dumps
=============================================================================
