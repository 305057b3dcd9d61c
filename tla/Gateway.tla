------------------------------- MODULE Gateway -------------------------------
(***************************************************************************)
(* The service around its handlers: Lifecycle together with what each of   *)
(* its steps does to the SQLite files and their snapshot                   *)
(* (DatabaseStorage). Startup restores, migrates and marks; a shutdown     *)
(* publishes what is dirty before the tasks are cancelled; a crash does    *)
(* not.                                                                    *)
(*                                                                         *)
(* A SQLite file belongs to one container and is never away. A deployment  *)
(* overlaps in either mode: the new container has a file of its own.       *)
(***************************************************************************)
EXTENDS Lifecycle, DatabaseStorage

\* Every process has a container of its own.
ASSUME GatewayAssumption == Containers = Processes

gatewayVars == <<lifecycleVars, storageVars>>

GatewayInit == LifecycleInit /\ StorageInit

-----------------------------------------------------------------------------
(* Lifecycle steps, with what they do to the database of the mode *)

OnSqlite(step) == ~postgres /\ step
OnPostgres == postgres /\ UNCHANGED storageVars

\* A container that lost its file has no revision until it is restored.
GatewayBoot(p) ==
    \/ /\ OnSqlite(NewContainer(p))
       /\ Boot(p, IF local'[p] = NoFile THEN 0 ELSE Revision(p))
    \/ OnPostgres /\ Boot(p, Revision(p))

GatewayRestore(p) ==
    \/ OnSqlite(RestoreSnapshot(p)) /\ \E n \in Releases : EndRestore(p, n)
    \/ /\ OnSqlite(NothingToRestore(p) \/ RestoreFails(p)) \/ OnPostgres
       /\ EndRestore(p, Revision(p))

GatewayPrepare(p) == PrepareDatabase(p) /\ (OnSqlite(OpenDatabase(p)) \/ OnPostgres)
GatewayMigrate(p) == MigrateAndVerify(p) /\ (OnSqlite(MarkMigrated(p)) \/ OnPostgres)

\* The process ends, after finally or without it.
GatewayEnd(p) ==
    /\ Crash(p) \/ (Halt(p) /\ (postgres \/ FinalBackupDone(p)))
    /\ OnSqlite(CancelBackups(p)) \/ OnPostgres

GatewayFails(p) ==
    /\ PrepareFails(p) \/ StepFails(p)
    /\ UNCHANGED storageVars

GatewayDatabaseAway == DatabaseAway /\ UNCHANGED storageVars

GatewayServes(p) == BeginServing(p) /\ UNCHANGED storageVars

GatewayStartup(p) ==
    GatewayRestore(p) \/ GatewayPrepare(p) \/ GatewayMigrate(p) \/ GatewayFails(p) \/ GatewayServes(p)

\* Lifecycle steps that concern no database.
GatewayOther(p) ==
    /\ \/ ProbeFails(p) \/ Promote(p) \/ BeginStop(p) \/ DatabaseBack
       \/ SetupFails(p) \/ PollingStops(p)
    /\ UNCHANGED storageVars

GatewayBotAdvances(p) == BotAdvances(p) /\ UNCHANGED storageVars

-----------------------------------------------------------------------------
(* Handlers and workers *)

\* The background tasks, the bot among them, live until they are cancelled.
Tasks(p) == proc[p].bot # "off"

GatewayCommit(p, record, marks) ==
    /\ Serves(p) \/ Tasks(p)
    /\ OnSqlite(Commit(p, record, marks))
    /\ UNCHANGED lifecycleVars

CallsBackup(p, c) ==
    IF c = "shutdown" THEN proc[p].phase = "stopping" ELSE Tasks(p)

GatewayAskBackup(p, c) ==
    /\ CallsBackup(p, c)
    /\ OnSqlite(AskBackup(p, c))
    /\ UNCHANGED lifecycleVars

GatewayBackup(p, c) ==
    \/ TakeSnapshot(p, c) /\ UNCHANGED lifecycleVars
    \/ PublishSnapshot(p, c) /\ UNCHANGED lifecycleVars
    \/ /\ PublishFails(p, c) /\ Fault
       /\ UNCHANGED <<proc, postgres, up, schema, webhook, route, boots, mixed>>

-----------------------------------------------------------------------------
GatewayNext ==
    \/ \E p \in Processes :
          \/ GatewayBoot(p) \/ GatewayStartup(p) \/ GatewayOther(p) \/ GatewayEnd(p)
          \/ GatewayBotAdvances(p)
          \/ \E r \in Records, marks \in BOOLEAN : GatewayCommit(p, r, marks)
          \/ \E c \in Callers : GatewayAskBackup(p, c) \/ GatewayBackup(p, c)
    \/ GatewayDatabaseAway

GatewaySpec == GatewayInit /\ [][GatewayNext]_gatewayVars

\* Startup and the Telegram tasks are coroutines that go on until they end or
\* are cancelled. Nothing is assumed of backups.
GatewayFairness ==
    \A p \in Processes :
        /\ WF_gatewayVars(GatewayStartup(p))
        /\ WF_gatewayVars(GatewayBotAdvances(p))

FairGatewaySpec == GatewaySpec /\ GatewayFairness

-----------------------------------------------------------------------------
(* Properties *)

\* Types, of processes, databases, files and snapshots.
GatewayTypeOK == LifecycleTypeOK /\ StorageTypeOK
=============================================================================
