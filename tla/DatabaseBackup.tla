--------------------------- MODULE DatabaseBackup ---------------------------
(***************************************************************************)
(* BackupManager of core/backup.py: dumps that are compressed, verified    *)
(* and recorded in a history, which is kept in memory and written to disk  *)
(* as a whole.  A file is what the program that wrote it left: the code    *)
(* names compressed files after the setting ("gzip", "zstd"), the tools    *)
(* name them ".gz" and ".zst", and only gzip removes what it compressed.   *)
(***************************************************************************)
EXTENDS Naturals, Sequences, FiniteSets

CONSTANTS
  BackupJobs,      \* coroutines that make backups: schedulers, requests
  BackupKinds,     \* BackupType
  MaxBackupTime,   \* seconds; backup ids are made from them
  MaxBackups,      \* entries of the history, for the checks
  MaxBackupRun,    \* how long a backup may take
  BackupRetention  \* retention_days, longer than a backup takes

ASSUME BackupAssumption ==
  /\ MaxBackupTime \in Nat /\ MaxBackupRun \in Nat /\ BackupRetention \in Nat
  /\ MaxBackupRun < BackupRetention

VARIABLES
  backupClock,
  compression,     \* the setting
  dumps,           \* files in the backup directory
  jobAt,
  job,             \* the BackupInfo of a job
  currentBackup,   \* _current_backup
  history,         \* _backup_history
  snapshot,        \* the text a job is about to write
  historyFile,     \* the file: its text, and whether it can be read
  restored         \* ids that reached pg_restore

backupVars == <<backupClock, compression, dumps, jobAt, job, currentBackup,
                history, snapshot, historyFile, restored>>

CompressionTypes == {"none", "gzip", "lz4", "zstd"}
BackupIds == [kind : BackupKinds, at : 0..MaxBackupTime]
DumpFiles == [id : BackupIds, ext : {"", "gz", "lz4", "zst"}, by : BackupJobs]
NoBackup == [id |-> "none"]
NoSum == [ext |-> "none", by |-> "none"]
Unread == [text |-> <<>>, torn |-> FALSE]
Infos == [id : BackupIds, status : {"running", "completed", "failed"},
          checksum : [ext : {"", "gz", "lz4", "zst"}, by : BackupJobs] \cup {NoSum}]

FilesOf(id, ext) == {f \in dumps : f.id = id /\ f.ext = ext}
SumOf(f) == [ext |-> f.ext, by |-> f.by]
Overwrite(files, f) ==
  {g \in files : ~ (g.id = f.id /\ g.ext = f.ext)} \cup {f}

Running(j) == jobAt[j] \notin {"idle", "open", "write"}
JobGoes(j, label) == jobAt' = [jobAt EXCEPT ![j] = label]
NoHistoryChange == UNCHANGED <<currentBackup, history, snapshot, historyFile, restored>>

-----------------------------------------------------------------------------
(* create_backup *)

\* Ids are in whole seconds: two backups of a kind may share one.
CreateBackup(j, kind) ==
  LET info == [id |-> [kind |-> kind, at |-> backupClock], status |-> "running",
               checksum |-> NoSum]
  IN
  /\ jobAt[j] = "idle"
  /\ Len(history) + Cardinality({i \in BackupJobs : Running(i)}) < MaxBackups
  /\ JobGoes(j, CASE kind = "full" -> "dump" [] kind \in {"incremental", "wal"} -> "copy"
                  [] OTHER -> "verify")
  /\ job' = [job EXCEPT ![j] = info]
  /\ currentBackup' = info.id
  /\ UNCHANGED <<backupClock, compression, dumps, history, snapshot, historyFile, restored>>

\* The backup is recorded and the history is turned into text at once.
Ends(j, status) ==
  /\ history' = Append(history, [job[j] EXCEPT !.status = status])
  /\ snapshot' = [snapshot EXCEPT ![j] = history']
  /\ JobGoes(j, "open")
  /\ UNCHANGED <<job, currentBackup, historyFile, restored>>

\* pg_dump or a tool fails, or a file cannot be written.
BackupFails(j) ==
  /\ Running(j)
  /\ Ends(j, "failed")
  /\ UNCHANGED <<backupClock, compression, dumps>>

\* Without compression the name of the compressed file is never assigned.
DumpsDatabase(j) ==
  /\ jobAt[j] = "dump"
  /\ dumps' = Overwrite(dumps, [id |-> job[j].id, ext |-> "", by |-> j])
  /\ \/ compression = "none" /\ Ends(j, "failed")
     \/ compression # "none" /\ JobGoes(j, "compress") /\ NoHistoryChange /\ UNCHANGED job
  /\ UNCHANGED <<backupClock, compression>>

\* What the tool leaves in place of the dump.
ToolExt == CASE compression = "gzip" -> "gz" [] compression = "lz4" -> "lz4"
             [] OTHER -> "zst"

\* mutant: the code looks for the file gzip writes
GivenExtOfTool == ToolExt

\* The extension the code expects: compression_type.value
GivenExt == compression

Compressed(f) ==
  Overwrite(IF compression = "gzip" THEN dumps \ {f} ELSE dumps, [f EXCEPT !.ext = ToolExt])

\* Two jobs with one id work on one file: the second gzip finds none.
CompressesBackup(j) ==
  /\ jobAt[j] = "compress"
  /\ \/ /\ FilesOf(job[j].id, "") = {}
        /\ Ends(j, "failed") /\ UNCHANGED dumps
     \/ \E f \in FilesOf(job[j].id, "") :
          /\ dumps' = Compressed(f)
          /\ \/ GivenExt # ToolExt /\ Ends(j, "failed")
             \/ GivenExt = ToolExt /\ JobGoes(j, "checksum") /\ NoHistoryChange /\ UNCHANGED job
  /\ UNCHANGED <<backupClock, compression>>

CalculatesChecksum(j) ==
  /\ jobAt[j] = "checksum"
  /\ \E f \in FilesOf(job[j].id, ToolExt) :
       job' = [job EXCEPT ![j].checksum = SumOf(f)]
  /\ JobGoes(j, "verify")
  /\ NoHistoryChange /\ UNCHANGED <<backupClock, compression, dumps>>

\* Incremental backups are copies of archived WAL, without a dump.
CopiesWal(j) ==
  /\ jobAt[j] = "copy"
  /\ JobGoes(j, "verify")
  /\ NoHistoryChange /\ UNCHANGED <<backupClock, compression, dumps, job>>

\* The extensions that are tried, in this order.
Tried == <<"", "gz", "lz4", "zstd">>

\* The file with the first of them that there is.
Found(id) ==
  {f \in dumps : /\ f.id = id
                 /\ \E i \in 1..4 : /\ Tried[i] = f.ext
                                   /\ \A k \in 1..(i - 1) : FilesOf(id, Tried[k]) = {}}

\* mutant: the file that was written is verified
SumsMatchAny(info) == \E f \in dumps : f.id = info.id /\ SumOf(f) = info.checksum

SumsMatch(info) == \E f \in Found(info.id) : SumOf(f) = info.checksum

VerifiesBackup(j) ==
  /\ jobAt[j] = "verify"
  /\ Ends(j, IF SumsMatch(job[j]) THEN "completed" ELSE "failed")
  /\ UNCHANGED <<backupClock, compression, dumps>>

-----------------------------------------------------------------------------
(* The history on disk: opening truncates it *)

OpensHistory(j) ==
  /\ jobAt[j] = "open"
  /\ historyFile' = Unread
  /\ JobGoes(j, "write")
  /\ UNCHANGED <<backupClock, compression, dumps, job, currentBackup, history, snapshot, restored>>

\* Two that have opened it write from its beginning: the end of a longer text
\* stays behind a shorter one.
WritesHistory(j) ==
  /\ jobAt[j] = "write"
  /\ historyFile' = [text |-> snapshot[j],
                     torn |-> Len(historyFile.text) > Len(snapshot[j])]
  /\ currentBackup' = NoBackup
  /\ job' = [job EXCEPT ![j] = NoBackup]
  /\ snapshot' = [snapshot EXCEPT ![j] = <<>>]
  /\ JobGoes(j, "idle")
  /\ UNCHANGED <<backupClock, compression, dumps, history, restored>>

\* The process starts again and loads the history, if it can be read; files
\* keep what they hold.
InitializesBackups ==
  /\ jobAt' = [j \in BackupJobs |-> "idle"]
  /\ job' = [j \in BackupJobs |-> NoBackup]
  /\ snapshot' = [j \in BackupJobs |-> <<>>]
  /\ currentBackup' = NoBackup
  /\ history' = IF historyFile.torn THEN <<>> ELSE historyFile.text
  /\ UNCHANGED <<backupClock, compression, dumps, historyFile, restored>>

-----------------------------------------------------------------------------
(* Operations on the history *)

\* The first record of an id.
RecordOf(id) ==
  {history[i] : i \in {i \in 1..Len(history) :
     history[i].id = id /\ \A k \in 1..(i - 1) : history[k].id # id}}

\* Only a completed backup gets as far as its file.
RestoreBackup(id) ==
  /\ restored' = IF /\ \E info \in RecordOf(id) : info.status = "completed"
                    /\ Found(id) # {}
                 THEN restored \cup {id} ELSE restored
  /\ UNCHANGED <<backupClock, compression, dumps, jobAt, job, currentBackup,
                 history, snapshot, historyFile>>

\* Reports; the recovery test and the status read files and the history.
ReadsBackups == UNCHANGED backupVars
TestBackupRecovery == ReadsBackups
GetBackupStatus == ReadsBackups

Expired(info) == info.id.at + BackupRetention <= backupClock

\* Files of what has expired are removed one by one; then the code puts the
\* records in a set, which they cannot be in, and raises: history is kept.
CleansUpBackups ==
  /\ \E i \in 1..Len(history) :
       /\ Expired(history[i])
       /\ \E f \in Found(history[i].id) : dumps' = dumps \ {f}
  /\ UNCHANGED <<backupClock, compression, jobAt, job, currentBackup,
                 history, snapshot, historyFile, restored>>

BackupTick ==
  /\ backupClock < MaxBackupTime
  /\ \A j \in BackupJobs : Running(j) => backupClock < job[j].id.at + MaxBackupRun
  /\ backupClock' = backupClock + 1
  /\ UNCHANGED <<compression, dumps, jobAt, job, currentBackup, history, snapshot,
                 historyFile, restored>>

-----------------------------------------------------------------------------
BackupInit ==
  /\ backupClock = 0
  /\ compression \in CompressionTypes
  /\ dumps = {}
  /\ jobAt = [j \in BackupJobs |-> "idle"]
  /\ job = [j \in BackupJobs |-> NoBackup]
  /\ currentBackup = NoBackup
  /\ history = <<>>
  /\ snapshot = [j \in BackupJobs |-> <<>>]
  /\ historyFile = Unread
  /\ restored = {}

BackupStep(j) ==
  \/ \E kind \in BackupKinds : CreateBackup(j, kind)
  \/ BackupFails(j) \/ DumpsDatabase(j) \/ CompressesBackup(j)
  \/ CalculatesChecksum(j) \/ CopiesWal(j) \/ VerifiesBackup(j)
  \/ OpensHistory(j) \/ WritesHistory(j)

BackupNext ==
  \/ \E j \in BackupJobs : BackupStep(j)
  \/ \E id \in BackupIds : RestoreBackup(id)
  \/ InitializesBackups \/ TestBackupRecovery \/ GetBackupStatus
  \/ CleansUpBackups \/ BackupTick

BackupSpec == BackupInit /\ [][BackupNext]_backupVars
-----------------------------------------------------------------------------
\* Every variable keeps its type.
BackupTypeOK ==
  /\ backupClock \in 0..MaxBackupTime
  /\ compression \in CompressionTypes
  /\ dumps \subseteq DumpFiles
  /\ jobAt \in [BackupJobs -> {"idle", "dump", "copy", "compress", "checksum", "verify", "open", "write"}]
  /\ job \in [BackupJobs -> Infos \cup {NoBackup}]
  /\ currentBackup \in BackupIds \cup {NoBackup}
  /\ history \in Seq(Infos) /\ snapshot \in [BackupJobs -> Seq(Infos)]
  /\ historyFile \in [text : Seq(Infos), torn : BOOLEAN]
  /\ restored \subseteq BackupIds

\* As the code stands no backup can be restored, whatever the compression, the
\* kind and the order of jobs, clean-ups and restarts: the name of the file,
\* the file that is verified or the dump that is missing makes each one fail.
NoBackupIsUsable ==
  /\ \A i \in 1..Len(history) : history[i].status = "failed"
  /\ restored = {}
=============================================================================
