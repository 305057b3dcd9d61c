--------------------------- MODULE DatabaseStorage ---------------------------
(***************************************************************************)
(* GitHubDatabaseStorage: the SQLite file of a container without a volume, *)
(* and its one encrypted snapshot on the branch gateway-data.              *)
(*                                                                         *)
(* Containers that overlap in a deployment have a file each and share the  *)
(* branch. A snapshot is a copy of the file, published several requests    *)
(* later by forcing the branch to it: whoever publishes last wins.         *)
(* backup_now is called by the retry worker, an administrator's button and *)
(* the shutdown, in one container one at a time under an asyncio lock.     *)
(* Under PostgreSQL storage.disabled is set and nothing of this happens.   *)
(*                                                                         *)
(* The contents of a database are the set of records ever committed to it. *)
(* GitHub is assumed to move the branch before the request is given up     *)
(* (12 seconds, or the end of the process) or not at all.                  *)
(***************************************************************************)
EXTENDS Integers

CONSTANTS
    Containers,
    Callers,    \* of backup_now: "retry_worker", "button", "shutdown"
    Records,    \* what transactions commit
    Missing     \* marks a database that is not there

ASSUME StorageAssumption ==
    /\ "shutdown" \in Callers
    /\ Missing \notin Records

\* Neither a valid file nor a snapshot.
NoFile == {Missing}

VARIABLES
    local,      \* [Containers -> a set of records, or NoFile]
    remote,     \* the published snapshot, or NoFile
    dirty,      \* [Containers -> storage.dirty]
    backup,     \* [Containers -> [Callers -> BackupCall]]
    confirmed,  \* history: records in a snapshot that was answered with success
    known       \* history: [Containers -> the confirmed records that a container
                \* found in the snapshot it started from or has published]

storageVars == <<local, remote, dirty, backup, confirmed, known>>

NoCall == [at |-> "idle", copy |-> {}]
NoCalls == [c \in Callers |-> NoCall]
\* A shutdown asks once; the others may ask again.
Answered(c) == [NoCall EXCEPT !.at = IF c = "shutdown" THEN "over" ELSE "idle"]
BackupCall == [at : {"idle", "waiting", "publishing", "over"}, copy : SUBSET Records]

StorageInit ==
    /\ local = [k \in Containers |-> NoFile] /\ remote = NoFile
    /\ dirty = [k \in Containers |-> FALSE]
    /\ backup = [k \in Containers |-> NoCalls]
    /\ confirmed = {}
    /\ known = [k \in Containers |-> {}]

Quiet(k, c) == backup[k][c].at = "idle"
LockFree(k) == \A c \in Callers : backup[k][c].at # "publishing"
Stored(file) == IF file = NoFile THEN {} ELSE file

-----------------------------------------------------------------------------
\* A new process: the container is started again, or is a fresh one.
NewContainer(k) ==
    /\ \/ UNCHANGED <<local, known>>
       \/ local' = [local EXCEPT ![k] = NoFile] /\ known' = [known EXCEPT ![k] = {}]
    /\ dirty' = [dirty EXCEPT ![k] = FALSE]
    /\ backup' = [backup EXCEPT ![k] = NoCalls]
    /\ UNCHANGED <<remote, confirmed>>

\* restore_if_available finds a valid file, which is never replaced, or no
\* snapshot.
NothingToRestore(k) ==
    /\ local[k] # NoFile \/ remote = NoFile
    /\ UNCHANGED storageVars

RestoreSnapshot(k) ==
    /\ local[k] = NoFile /\ remote # NoFile
    /\ local' = [local EXCEPT ![k] = remote]
    /\ known' = [known EXCEPT ![k] = confirmed \cap remote]
    /\ UNCHANGED <<remote, dirty, backup, confirmed>>

\* GitHub does not answer within 15 seconds, or the snapshot does not open:
\* the start goes on without it.
RestoreFails(k) ==
    /\ local[k] = NoFile /\ remote # NoFile
    /\ UNCHANGED storageVars

\* alembic upgrade creates a file that is not there.
OpenDatabase(k) ==
    /\ local' = [local EXCEPT ![k] = Stored(@)]
    /\ UNCHANGED <<remote, dirty, backup, confirmed, known>>

\* Runtime migrations that changed the schema mark it dirty.
MarkMigrated(k) ==
    /\ \E changed \in BOOLEAN : dirty' = [dirty EXCEPT ![k] = @ \/ changed]
    /\ UNCHANGED <<local, remote, backup, confirmed, known>>

\* Some transaction; few of them mark the file dirty.
Commit(k, record, marks) ==
    /\ local[k] # NoFile /\ record \notin local[k]
    /\ local' = [local EXCEPT ![k] = @ \cup {record}]
    /\ dirty' = [dirty EXCEPT ![k] = @ \/ marks]
    /\ UNCHANGED <<remote, backup, confirmed, known>>

-----------------------------------------------------------------------------
\* backup_now is called, and waits for the lock.
AskBackup(k, c) ==
    /\ Quiet(k, c)
    /\ c # "button" => dirty[k]
    /\ backup' = [backup EXCEPT ![k][c].at = "waiting"]
    /\ UNCHANGED <<local, remote, dirty, confirmed, known>>

CopyFile(k, c) ==
    /\ backup[k][c].at = "waiting"
    /\ dirty' = [dirty EXCEPT ![k] = TRUE]
    /\ backup' = [backup EXCEPT ![k][c] = [at |-> "publishing", copy |-> local[k]]]
    /\ UNCHANGED <<local, remote, confirmed, known>>

TakeSnapshot_Unlocked(k, c) == CopyFile(k, c)
\* The lock is taken and the file copied.
TakeSnapshot(k, c) == LockFree(k) /\ CopyFile(k, c)

\* The branch is forced to the copy. A mark set since the copy is cleared too.
PublishSnapshot(k, c) ==
    LET copy == backup[k][c].copy IN
    /\ backup[k][c].at = "publishing"
    /\ remote' = copy
    /\ dirty' = [dirty EXCEPT ![k] = FALSE]
    /\ confirmed' = confirmed \cup copy
    /\ known' = [known EXCEPT ![k] = @ \cup copy]
    /\ backup' = [backup EXCEPT ![k][c] = Answered(c)]
    /\ UNCHANGED local

\* A publication is cut off, before or after the branch was moved.
CutOff(k, c) ==
    /\ backup[k][c].at = "publishing"
    /\ remote' = backup[k][c].copy

\* Any exception on the way, after the last request as well: still dirty, the
\* worker tries again.
PublishFails(k, c) ==
    /\ backup[k][c].at = "publishing"
    /\ CutOff(k, c) \/ UNCHANGED remote
    /\ backup' = [backup EXCEPT ![k][c] = Answered(c)]
    /\ UNCHANGED <<local, dirty, confirmed, known>>

\* The final backup of finally is not needed, or over.
FinalBackupDone(k) == dirty[k] => backup[k]["shutdown"].at = "over"

\* The process ends: its calls are cancelled, the file stays as it is.
CancelBackups(k) ==
    /\ UNCHANGED remote \/ \E c \in Callers : CutOff(k, c)
    /\ backup' = [backup EXCEPT ![k] = NoCalls]
    /\ UNCHANGED <<local, dirty, confirmed, known>>

-----------------------------------------------------------------------------
(* Properties *)

StorageTypeOK ==
    /\ local \in [Containers -> (SUBSET Records) \cup {NoFile}]
    /\ remote \in (SUBSET Records) \cup {NoFile}
    /\ dirty \in [Containers -> BOOLEAN]
    /\ backup \in [Containers -> [Callers -> BackupCall]]
    /\ confirmed \subseteq Records
    /\ known \in [Containers -> SUBSET Records]

\* A snapshot reported as stored stays stored: a record leaves the branch only
\* when a container publishes that neither started from a snapshot with it nor
\* has published it. So also when three callers publish by force, calls fail
\* when the branch has been moved, processes end in the middle, containers are
\* started again and deployments overlap.
Overwrites(k, r) ==
    /\ r \notin known[k]
    /\ \E c \in Callers : CutOff(k, c) /\ backup'[k][c].at # "publishing"
ConfirmedIsKept ==
    [][\A r \in confirmed \cap Stored(remote) :
           r \in Stored(remote') \/ \E k \in Containers : Overwrites(k, r)]_storageVars

\* A snapshot reported as stored is not undone by a container that overlaps.
ConfirmedIsPublished == confirmed \subseteq Stored(remote)
=============================================================================
