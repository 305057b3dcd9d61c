------------------------------ MODULE Lifecycle ------------------------------
(***************************************************************************)
(* The processes of the service: the steps of lifespan before the first    *)
(* request, /ready and the maintenance gate, and how the bot gets its      *)
(* messages; with a rolling deployment, in which the platform starts a new *)
(* process beside the old one, routes to it once /ready answers 200 and    *)
(* then stops the old one.                                                 *)
(*                                                                         *)
(* uvicorn accepts requests when the startup has ended, well or badly.     *)
(* Under PostgreSQL the processes share one database, under SQLite each    *)
(* has a file of its own. Migrations only add to a schema, so older        *)
(* releases go on, but alembic does not start on a revision it does not    *)
(* know. A release is the number of its head revision.                     *)
(* Faults (outages, crashes, steps that raise) are counted by "faults".    *)
(***************************************************************************)
EXTENDS Integers

CONSTANTS
    Processes,
    None,           \* nobody
    Server,         \* names the database of PostgreSQL
    Deployments,    \* what is deployed: a release with its settings
    MaxAttempts,    \* DB_CONNECT_RETRIES + 1
    MaxFaults,      \* bound on faults
    MaxBoots        \* bound on processes started

\* The database, and the values of TELEGRAM_MODE and STARTUP_FAIL_OPEN.
Deployment ==
    [postgres : BOOLEAN, release : Nat \ {0}, delivery : {"polling", "webhook"}, failOpen : BOOLEAN]

ASSUME LifecycleAssumption ==
    /\ Processes # {} /\ None \notin Processes
    /\ Deployments \subseteq Deployment
    /\ MaxAttempts \in Nat \ {0} /\ MaxFaults \in Nat /\ MaxBoots \in Nat

VARIABLES
    proc,       \* [Processes -> Process]
    postgres,   \* settings.is_postgres
    up,         \* the database accepts connections
    schema,     \* the revision of each database, 0 for none
    webhook,    \* Telegram holds a webhook and sends updates there
    route,      \* the process the platform routes requests to, or None
    faults, boots,      \* counters
    mixed       \* history: processes of both deliveries have overlapped

lifecycleVars == <<proc, postgres, up, schema, webhook, route, faults, boots, mixed>>

Phases == {"off", "restore", "prepare", "migrate", "settings", "serving",
           "failed", "stopping"}

\* Where the Telegram tasks are: not begun; about to ask getMe and register
\* or start polling; about to delete the webhook; about to check that it is
\* gone; receiving.
BotSteps == {"off", "setup", "delete", "check", "polling", "webhook"}

Releases == {d.release : d \in Deployments}

Process ==
    [phase : Phases, release : Releases \cup {0}, attempt : 0..MaxAttempts, delivery : {"polling", "webhook"},
     failOpen : BOOLEAN, ready : BOOLEAN, maintenance : BOOLEAN,
     schemaOk : BOOLEAN, settingsOk : BOOLEAN, bot : BotSteps]

Off == [phase |-> "off", release |-> 0, attempt |-> 0, delivery |-> "polling", failOpen |-> FALSE,
        ready |-> FALSE, maintenance |-> TRUE, schemaOk |-> FALSE, settingsOk |-> FALSE,
        bot |-> "off"]

Databases == Processes \cup {Server}
Database(p) == IF postgres THEN Server ELSE p
Revision(p) == schema[Database(p)]
SetRevision(p, n) == schema' = [schema EXCEPT ![Database(p)] = n]

Live(p) == proc[p].phase # "off"
Accepting(p) == proc[p].phase \in {"serving", "failed"}
\* The gate lets requests through.
Serves(p) == Accepting(p) /\ ~proc[p].maintenance

LifecycleInit ==
    /\ proc = [p \in Processes |-> Off]
    /\ postgres \in {d.postgres : d \in Deployments}
    /\ up \in BOOLEAN /\ (up \/ postgres)
    /\ schema = [d \in Databases |-> 0]
    /\ webhook \in BOOLEAN
    /\ route = None
    /\ faults = 0 /\ boots = 0
    /\ mixed = FALSE

Fault == faults < MaxFaults /\ faults' = faults + 1
Becomes(p, q) == proc' = [proc EXCEPT ![p] = q]
Proceed(p, from, q) == proc[p].phase = from /\ Becomes(p, q)

-----------------------------------------------------------------------------
(* Startup *)

\* RuntimeStatus begins, and lifespan confirms, not ready and in maintenance.
\* Its database has the given revision.
Boot(p, revision) ==
    /\ boots < MaxBoots
    /\ boots' = boots + 1
    /\ \E d \in Deployments :
          /\ d.postgres = postgres
          /\ Proceed(p, "off", [Off EXCEPT !.phase = "restore", !.release = d.release,
                                           !.delivery = d.delivery, !.failOpen = d.failOpen])
          /\ mixed' = (mixed \/ \E o \in Processes : Live(o) /\ "webhook" \in {d.delivery, proc[o].delivery})
    /\ SetRevision(p, revision)
    /\ UNCHANGED <<postgres, up, webhook, route, faults>>

\* A file may have come back, of whatever revision.
EndRestore(p, revision) ==
    /\ Proceed(p, "restore", [proc[p] EXCEPT !.phase = "prepare", !.attempt = 1])
    /\ SetRevision(p, revision)
    /\ UNCHANGED <<postgres, up, webhook, route, faults, boots, mixed>>

KnowsRevision(p) == Revision(p) <= proc[p].release

\* One attempt of prepare_database_with_retry succeeds: upgrade and check.
PrepareDatabase(p) ==
    /\ up /\ KnowsRevision(p)
    /\ SetRevision(p, proc[p].release)
    /\ Proceed(p, "prepare", [proc[p] EXCEPT !.phase = "migrate", !.schemaOk = TRUE])
    /\ UNCHANGED <<postgres, up, webhook, route, faults, boots, mixed>>

\* A step raises because the database is away, or for a reason of its own.
Raises == IF up THEN Fault ELSE UNCHANGED faults

Failed_StaysOpen(q) == [q EXCEPT !.phase = "failed", !.maintenance = FALSE]
\* mark_error, and what remains of lifespan.
Failed(q) == [q EXCEPT !.phase = "failed", !.ready = FALSE, !.maintenance = ~q.failOpen]

AttemptsLeft_OneMore(q) == q.attempt <= MaxAttempts
AttemptsLeft(q) == q.attempt < MaxAttempts

PrepareFails(p) ==
    LET q == [proc[p] EXCEPT !.schemaOk = FALSE] IN
    /\ IF KnowsRevision(p) THEN Raises ELSE UNCHANGED faults
    /\ \/ UNCHANGED schema
       \/ up /\ KnowsRevision(p) /\ SetRevision(p, proc[p].release)
    /\ Proceed(p, "prepare", IF AttemptsLeft(q) THEN [q EXCEPT !.attempt = @ + 1] ELSE Failed(q))
    /\ UNCHANGED <<postgres, up, webhook, route, boots, mixed>>

\* run_runtime_migrations and the second verify_database_and_schema.
MigrateAndVerify(p) ==
    /\ up
    /\ Proceed(p, "migrate", [proc[p] EXCEPT !.phase = "settings"])
    /\ UNCHANGED <<postgres, up, schema, webhook, route, faults, boots, mixed>>

\* Settings and appearance are there: the workers start and requests may come.
BeginServing(p) ==
    /\ up
    /\ Proceed(p, "settings", [proc[p] EXCEPT !.phase = "serving", !.settingsOk = TRUE,
                                  !.ready = TRUE, !.maintenance = FALSE, !.bot = "setup"])
    /\ UNCHANGED <<postgres, up, schema, webhook, route, faults, boots, mixed>>

StepFails(p) ==
    /\ Raises
    /\ proc[p].phase \in {"migrate", "settings"}
    /\ Becomes(p, Failed(proc[p]))
    /\ UNCHANGED <<postgres, up, schema, webhook, route, boots, mixed>>

-----------------------------------------------------------------------------
(* Readiness, the platform and the database *)

Healthy_Alive(p) == Accepting(p)
\* /ready answers 200.
Healthy(p) ==
    /\ Accepting(p) /\ up
    /\ proc[p].ready /\ proc[p].schemaOk /\ proc[p].settingsOk

\* /ready while the database is away: mark_error; no code takes it back.
ProbeFails(p) ==
    /\ Accepting(p) /\ proc[p].ready /\ ~up
    /\ Becomes(p, [proc[p] EXCEPT !.ready = FALSE, !.maintenance = TRUE])
    /\ UNCHANGED <<postgres, up, schema, webhook, route, faults, boots, mixed>>

Promote(p) ==
    /\ Healthy(p) /\ route # p
    /\ route' = p
    /\ UNCHANGED <<proc, postgres, up, schema, webhook, faults, boots, mixed>>

\* SIGTERM: a process that was replaced, a release that was given up while
\* another serves, or the service taken down.
BeginStop(p) ==
    /\ Accepting(p)
    /\ IF route \notin {p, None} THEN UNCHANGED faults ELSE Fault
    /\ route' = IF route = p THEN None ELSE route
    /\ Becomes(p, [proc[p] EXCEPT !.phase = "stopping"])
    /\ UNCHANGED <<postgres, up, schema, webhook, boots, mixed>>

\* Tasks are cancelled, connections closed.
Halt(p) ==
    /\ Proceed(p, "stopping", Off)
    /\ UNCHANGED <<postgres, up, schema, webhook, route, faults, boots, mixed>>

Crash(p) ==
    /\ Fault /\ Live(p)
    /\ route' = IF route = p THEN None ELSE route
    /\ Becomes(p, Off)
    /\ UNCHANGED <<postgres, up, schema, webhook, boots, mixed>>

DatabaseAway == postgres /\ up /\ Fault /\ up' = FALSE /\ UNCHANGED <<proc, postgres, schema, webhook, route, boots, mixed>>
DatabaseBack == ~up /\ up' = TRUE /\ UNCHANGED <<proc, postgres, schema, webhook, route, faults, boots, mixed>>

-----------------------------------------------------------------------------
(* telegram_delivery_supervisor and telegram_polling_worker *)

BotStep(p, from, to) == proc[p].bot = from /\ Becomes(p, [proc[p] EXCEPT !.bot = to])

RegisterWebhook(p) ==
    /\ proc[p].delivery = "webhook"
    /\ BotStep(p, "setup", "webhook")
    /\ webhook' = TRUE
    /\ UNCHANGED <<postgres, up, schema, route, faults, boots, mixed>>

StartPollingWorker(p) ==
    /\ proc[p].delivery = "polling"
    /\ BotStep(p, "setup", "delete")
    /\ UNCHANGED <<postgres, up, schema, webhook, route, faults, boots, mixed>>

\* A webhook that cannot be set up is given up for polling at once.
AfterSetupError(q) == IF q.delivery = "webhook" THEN "delete" ELSE "setup"

\* getMe or setWebhook fails, or the answer to a webhook that was set is lost.
SetupFails(p) ==
    /\ Fault
    /\ BotStep(p, "setup", AfterSetupError(proc[p]))
    /\ webhook' \in {webhook, webhook \/ proc[p].delivery = "webhook"}
    /\ UNCHANGED <<postgres, up, schema, route, boots, mixed>>

DeleteWebhook_Kept == webhook
DeleteWebhook == FALSE

DropWebhook(p) ==
    /\ BotStep(p, "delete", "check")
    /\ webhook' = DeleteWebhook
    /\ UNCHANGED <<postgres, up, schema, route, faults, boots, mixed>>

\* Another process may have registered a webhook since.
CheckWebhook(p) ==
    /\ BotStep(p, "check", IF webhook THEN "delete" ELSE "polling")
    /\ UNCHANGED <<postgres, up, schema, webhook, route, faults, boots, mixed>>

\* A call fails, or start_polling returns: around again.
PollingStops(p) ==
    /\ Fault
    /\ proc[p].bot \in {"delete", "check", "polling"}
    /\ Becomes(p, [proc[p] EXCEPT !.bot = "delete"])
    /\ UNCHANGED <<postgres, up, schema, webhook, route, boots, mixed>>

BotAdvances(p) ==
    RegisterWebhook(p) \/ StartPollingWorker(p) \/ DropWebhook(p) \/ CheckWebhook(p)

-----------------------------------------------------------------------------
(* Properties *)

LifecycleTypeOK ==
    /\ proc \in [Processes -> Process]
    /\ {postgres, up, webhook, mixed} \subseteq BOOLEAN
    /\ schema \in [Databases -> Releases \cup {0}]
    /\ route \in Processes \cup {None}
    /\ faults \in 0..MaxFaults /\ boots \in 0..MaxBoots

\* No request reaches a handler of a process whose migrations, checks or
\* settings did not all succeed, however its startup failed and was retried,
\* unless STARTUP_FAIL_OPEN asks for it.
ServesOnlyVerified ==
    \A p \in Processes :
        Serves(p) => \/ proc[p].failOpen
                     \/ Revision(p) >= proc[p].release /\ proc[p].schemaOk /\ proc[p].settingsOk

\* The platform routes to a process that serves, or has served and met an
\* outage of the database: a release whose startup fails never takes over
\* from one that works.
RoutesToServing ==
    route # None => \/ Serves(route)
                    \/ proc[route].settingsOk /\ ~proc[route].ready

\* A process that starts, and stays alone and up, fails or ends up receiving
\* the bot's messages: by polling with no webhook in the way, or by a webhook
\* that is still registered. So also after a rolling deployment, unless one of
\* the two processes used a webhook.
Receives(p) ==
    \/ proc[p].bot = "polling" /\ ~webhook
    \/ proc[p].bot = "webhook" /\ webhook
Alone(p) == \A o \in Processes \ {p} : ~Live(o)
Working(p) == proc[p].phase \notin {"off", "failed", "stopping"}
BotReachable ==
    \A p \in Processes :
        (Working(p) /\ Alone(p) /\ ~mixed) ~> (Receives(p) \/ ~Working(p) \/ ~Alone(p))

\* A process in maintenance because of an outage serves again when the
\* database is back.
ReopensAfterOutage ==
    \A p \in Processes :
        (proc[p].phase = "serving" /\ proc[p].maintenance) ~> (Serves(p) \/ ~up \/ ~Accepting(p))
=============================================================================
