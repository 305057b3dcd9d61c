----------------------------- MODULE GatewayProofs -----------------------------
(***************************************************************************)
(* What a deployment keeps for any number of processes, records, releases, *)
(* attempts and faults, in either mode: requests are served by verified    *)
(* processes only, they are routed to one that serves, and a backup        *)
(* answered with success leaves the branch only when a container publishes *)
(* that never had it.                                                      *)
(***************************************************************************)
EXTENDS Gateway, TLAPS

\* What the phase of a process says of its flags and of its database.
ProcOK(q, revision) ==
    /\ q.phase = "restore" => ~q.schemaOk
    /\ q.phase \in {"migrate", "settings", "serving"} => q.schemaOk
    /\ q.phase = "serving" => q.settingsOk
    /\ q.phase = "failed" /\ ~q.maintenance => q.failOpen
    /\ q.ready => ~q.maintenance
    /\ q.schemaOk => revision >= q.release
    /\ q.bot # "off" => q.phase \in {"serving", "stopping"}

Routable(q) == q.phase \in {"serving", "failed"} /\ q.settingsOk

LifeOK ==
    /\ proc \in [Processes -> Process]
    /\ schema \in [Databases -> Releases \cup {0}]
    /\ route \in Processes \cup {None}
    /\ \A p \in Processes : ProcOK(proc[p], Revision(p))
    /\ route # None => Routable(proc[route])

CountsOK ==
    /\ {postgres, up, webhook, mixed} \subseteq BOOLEAN
    /\ faults \in 0..MaxFaults /\ boots \in 0..MaxBoots

\* A container's file holds what its snapshots have published, and so does a
\* copy that is being published, of which there is one at a time.
FileOK(k) ==
    /\ dirty[k] => local[k] # NoFile
    /\ known[k] \subseteq Stored(local[k])

CallOK(k, call) ==
    /\ call.at \in {"waiting", "publishing"} => local[k] # NoFile
    /\ call.at = "publishing" => known[k] \subseteq call.copy /\ call.copy \subseteq local[k]

CallsOK(k) ==
    /\ \A c \in Callers : CallOK(k, backup[k][c])
    /\ \A c, d \in Callers :
          backup[k][c].at = "publishing" /\ backup[k][d].at = "publishing" => c = d

StoreOK == StorageTypeOK /\ \A k \in Containers : FileOK(k) /\ CallsOK(k)

\* A container that is migrated has a file.
HasFile(q) == q.phase \in {"migrate", "settings", "serving"} \/ q.bot # "off"
FilesThere == ~postgres => \A p \in Processes : HasFile(proc[p]) => local[p] # NoFile

GatewayInv == LifeOK /\ CountsOK /\ StoreOK /\ FilesThere

-----------------------------------------------------------------------------
(* The processes. *)

\* One process changes, and no other loses what it has verified.
Steps(p, row) ==
    /\ row \in Process /\ ProcOK(row, Revision(p)')
    /\ proc' = [proc EXCEPT ![p] = row]
    /\ schema' \in [Databases -> Releases \cup {0}]
    /\ \A o \in Processes \ {p} : Revision(o)' >= Revision(o)
    /\ route' \in {route, None} /\ (route' = p => Routable(row))

\* It needs no file that it did not need before.
Tame(p, row) == HasFile(row) => HasFile(proc[p])

LEMMA ReleasesNat == Releases \cup {0} \subseteq Nat
<1>1. \A d \in Deployments : d.release \in Nat
  BY LifecycleAssumption DEF LifecycleAssumption, Deployment
<1> QED BY <1>1 DEF Releases

LEMMA OffType == Off \in Process /\ (\A n \in Nat : ProcOK(Off, n)) /\ ~HasFile(Off)
<1>1. 0 \in 0..MaxAttempts
  BY LifecycleAssumption DEF LifecycleAssumption
<1> QED BY <1>1 DEF Off, Process, Phases, BotSteps, ProcOK, HasFile

LEMMA ProcType ==
    ASSUME LifeOK, NEW p \in Processes
    PROVE  /\ proc[p] \in Process /\ ProcOK(proc[p], Revision(p))
           /\ proc[p].release \in Nat /\ proc[p].release \in Releases \cup {0}
           /\ Revision(p) \in Nat /\ Revision(p) \in Releases \cup {0}
           /\ Database(p) \in Databases
           /\ p # None
           /\ route = p => Routable(proc[p])
<1>1. proc[p] \in Process /\ ProcOK(proc[p], Revision(p))
  BY DEF LifeOK
<1>2. proc[p].release \in Releases \cup {0}
  BY <1>1 DEF Process
<1>3. Database(p) \in Databases
  BY DEF Database, Databases
<1>4. Revision(p) \in Releases \cup {0}
  BY <1>3 DEF LifeOK, Revision
<1>5. p # None
  BY LifecycleAssumption DEF LifecycleAssumption
<1> QED BY <1>1, <1>2, <1>3, <1>4, <1>5, ReleasesNat DEF LifeOK

\* The databases stay.
LEMMA SameSchema ==
    ASSUME LifeOK, UNCHANGED <<schema, postgres>>
    PROVE  /\ schema' \in [Databases -> Releases \cup {0}]
           /\ \A o \in Processes : Revision(o)' = Revision(o) /\ Revision(o)' >= Revision(o)
<1>1. \A o \in Processes : Revision(o)' = Revision(o)
  BY DEF Revision, Database
<1>2. \A o \in Processes : Revision(o) \in Nat
  BY ProcType
<1> QED BY <1>1, <1>2 DEF LifeOK

\* One database gets a revision, which is no step back for those who share it.
LEMMA NewRevision ==
    ASSUME LifeOK, UNCHANGED postgres, NEW p \in Processes, NEW n \in Releases \cup {0},
           SetRevision(p, n), postgres => n >= Revision(p)
    PROVE  /\ schema' \in [Databases -> Releases \cup {0}]
           /\ Revision(p)' = n
           /\ \A o \in Processes \ {p} : Revision(o)' >= Revision(o)
<1>1. Database(p) \in Databases /\ schema' = [schema EXCEPT ![Database(p)] = n]
  BY ProcType DEF SetRevision
<1>2. schema' \in [Databases -> Releases \cup {0}] /\ schema'[Database(p)] = n
  BY <1>1 DEF LifeOK
<1>3. Revision(p)' = n
  BY <1>2 DEF Revision, Database
<1>4. ASSUME NEW o \in Processes \ {p}
      PROVE  Revision(o)' >= Revision(o)
  <2>1. Revision(o) \in Nat /\ Database(o) \in Databases
    BY ProcType
  <2>2. CASE postgres
    <3>1. Revision(o)' = n /\ Revision(o) = Revision(p)
      BY <1>2, <2>2 DEF Revision, Database
    <3> QED BY <2>2, <3>1
  <2>3. CASE ~postgres
    <3>1. Revision(o)' = Revision(o)
      BY <1>1, <2>1, <2>3 DEF Revision, Database, LifeOK
    <3> QED BY <2>1, <3>1
  <2> QED BY <2>2, <2>3
<1> QED BY <1>2, <1>3, <1>4

LEMMA StepsKeep ==
    ASSUME LifeOK, NEW p \in Processes, NEW row, Steps(p, row)
    PROVE  LifeOK'
<1>1. /\ row \in Process /\ ProcOK(row, Revision(p)') /\ proc' = [proc EXCEPT ![p] = row]
      /\ proc \in [Processes -> Process]
      /\ schema' \in [Databases -> Releases \cup {0}]
  BY DEF Steps, LifeOK
<1>2. proc' \in [Processes -> Process]
  BY <1>1
<1>3. ASSUME NEW o \in Processes
      PROVE  ProcOK(proc[o], Revision(o))'
  <2>1. CASE o = p
    <3>1. proc'[o] = row
      BY <1>1, <2>1
    <3> QED BY <1>1, <2>1, <3>1 DEF ProcOK
  <2>2. CASE o # p
    <3>1. proc'[o] = proc[o] /\ Revision(o)' >= Revision(o)
      BY <1>1, <2>2 DEF Steps
    <3>2. ProcOK(proc[o], Revision(o)) /\ proc[o].release \in Nat /\ Revision(o) \in Nat
      BY ProcType
    <3>3. Revision(o)' \in Nat
      <4>1. Database(o)' \in Databases
        BY DEF Database, Databases
      <4> QED BY <1>1, <4>1, ReleasesNat DEF Revision
    <3>4. Revision(o) >= proc[o].release => Revision(o)' >= proc[o].release
      BY <3>1, <3>2, <3>3
    <3> QED BY <3>1, <3>2, <3>4 DEF ProcOK
  <2> QED BY <2>1, <2>2
<1>4. route' \in Processes \cup {None}
  BY DEF Steps, LifeOK
<1>5. route' # None => Routable(proc'[route'])
  <2>1. CASE route' = p
    BY <1>1, <2>1 DEF Steps
  <2>2. CASE route' # p
    <3>1. route' # None => route' = route /\ route \in Processes /\ proc'[route] = proc[route]
      BY <1>1, <2>2 DEF Steps, LifeOK
    <3> QED BY <3>1 DEF LifeOK
  <2> QED BY <2>1, <2>2
<1> QED BY <1>1, <1>2, <1>3, <1>4, <1>5 DEF LifeOK

\* The steps that leave the files alone.
LEMMA TameKeepsFiles ==
    ASSUME LifeOK, FilesThere, NEW p \in Processes, NEW row, Steps(p, row), Tame(p, row),
           UNCHANGED postgres, \A k \in Processes : local[k] # NoFile => local'[k] # NoFile
    PROVE  FilesThere'
<1>1. proc' = [proc EXCEPT ![p] = row] /\ proc \in [Processes -> Process]
  BY DEF Steps, LifeOK
<1>2. \A o \in Processes : HasFile(proc'[o]) => HasFile(proc[o])
  BY <1>1 DEF Tame
<1> QED BY <1>2 DEF FilesThere

LEMMA StartupFails ==
    ASSUME LifeOK, NEW p \in Processes, PrepareFails(p) \/ StepFails(p)
    PROVE  \E row : Steps(p, row) /\ Tame(p, row)
<1>1. /\ proc[p] \in Process /\ ProcOK(proc[p], Revision(p))
      /\ proc[p].release \in Releases \cup {0} /\ proc[p].release \in Nat
      /\ Revision(p) \in Nat /\ (route = p => Routable(proc[p]))
  BY ProcType
<1>2. MaxAttempts \in Nat /\ UNCHANGED <<postgres, route>>
  BY LifecycleAssumption DEF LifecycleAssumption, PrepareFails, StepFails
<1>3. CASE PrepareFails(p)
  <2> DEFINE q == [proc[p] EXCEPT !.schemaOk = FALSE]
             row == IF AttemptsLeft(q) THEN [q EXCEPT !.attempt = @ + 1] ELSE Failed(q)
  <2>1. proc[p].phase = "prepare" /\ proc' = [proc EXCEPT ![p] = row]
    BY <1>3 DEF PrepareFails, Proceed, Becomes
  <2>2. /\ q \in Process /\ q.schemaOk = FALSE /\ q.phase = "prepare" /\ q.bot = "off"
        /\ q.attempt \in Nat /\ q.attempt <= MaxAttempts /\ (q.ready => ~q.maintenance)
    <3>1. /\ q \in Process /\ q.schemaOk = FALSE /\ q.phase = "prepare"
          /\ q.bot = proc[p].bot /\ q.ready = proc[p].ready /\ q.maintenance = proc[p].maintenance
      BY <1>1, <2>1 DEF Process
    <3>2. proc[p].bot = "off" /\ (proc[p].ready => ~proc[p].maintenance)
      BY <1>1, <2>1 DEF ProcOK
    <3>3. q.attempt \in Nat /\ q.attempt <= MaxAttempts
      BY <1>2, <3>1 DEF Process
    <3>4. q.ready => ~q.maintenance
      BY <3>1, <3>2, Zenon
    <3> HIDE DEF q
    <3> QED BY <3>1, <3>2, <3>3, <3>4
  <2>3. /\ schema' \in [Databases -> Releases \cup {0}]
        /\ \A o \in Processes \ {p} : Revision(o)' >= Revision(o)
    <3>1. CASE UNCHANGED schema
      BY <1>2, <3>1, SameSchema
    <3>2. CASE KnowsRevision(p) /\ SetRevision(p, proc[p].release)
      BY <1>1, <1>2, <3>2, NewRevision DEF KnowsRevision
    <3> QED BY <1>3, <3>1, <3>2 DEF PrepareFails
  <2> HIDE DEF q
  <2>4. CASE AttemptsLeft(q)
    <3>1. row \in Process /\ row.phase = "prepare" /\ row.bot = "off" /\ row.schemaOk = FALSE
          /\ (row.ready => ~row.maintenance)
      BY <1>2, <2>2, <2>4 DEF Process, AttemptsLeft
    <3> HIDE DEF row
    <3>2. Steps(p, row) /\ Tame(p, row)
      BY <1>1, <1>2, <2>1, <2>3, <3>1 DEF Steps, Tame, ProcOK, HasFile, Routable
    <3> QED BY <3>2
  <2>5. CASE ~AttemptsLeft(q)
    <3>1. /\ row \in Process /\ row.phase = "failed" /\ row.bot = "off"
          /\ row.schemaOk = FALSE /\ row.ready = FALSE /\ (~row.maintenance => row.failOpen)
      BY <2>2, <2>5 DEF Process, Failed, Phases
    <3> HIDE DEF row
    <3>2. Steps(p, row) /\ Tame(p, row)
      BY <1>1, <1>2, <2>1, <2>3, <3>1 DEF Steps, Tame, ProcOK, HasFile, Routable
    <3> QED BY <3>2
  <2> QED BY <2>4, <2>5
<1>4. CASE StepFails(p)
  <2> DEFINE row == Failed(proc[p])
  <2>1. /\ proc[p].phase \in {"migrate", "settings"} /\ proc' = [proc EXCEPT ![p] = row]
        /\ UNCHANGED schema
    BY <1>4 DEF StepFails, Becomes
  <2>2. /\ row \in Process /\ row.phase = "failed" /\ row.bot = proc[p].bot
        /\ row.schemaOk = proc[p].schemaOk /\ row.release = proc[p].release
        /\ row.ready = FALSE /\ (~row.maintenance => row.failOpen)
    BY <1>1 DEF Process, Failed, Phases
  <2>3. row.bot = "off"
    BY <1>1, <2>1, <2>2 DEF ProcOK
  <2>4. /\ schema' \in [Databases -> Releases \cup {0}] /\ Revision(p)' = Revision(p)
        /\ \A o \in Processes \ {p} : Revision(o)' >= Revision(o)
    BY <1>2, <2>1, SameSchema
  <2> HIDE DEF row
  <2>5. Steps(p, row) /\ Tame(p, row)
    BY <1>1, <1>2, <2>1, <2>2, <2>3, <2>4 DEF Steps, Tame, ProcOK, HasFile, Routable
  <2> QED BY <2>5
<1> QED BY <1>3, <1>4

LEMMA BotGoesOn ==
    ASSUME LifeOK, NEW p \in Processes, NEW to \in BotSteps, proc[p].bot # "off",
           proc' = [proc EXCEPT ![p].bot = to], UNCHANGED <<postgres, schema, route>>
    PROVE  \E row : Steps(p, row) /\ Tame(p, row)
<1> DEFINE row == [proc[p] EXCEPT !.bot = to]
<1>1. /\ proc[p] \in Process /\ ProcOK(proc[p], Revision(p))
      /\ (route = p => Routable(proc[p]))
  BY ProcType
<1>2. /\ row \in Process /\ row.phase = proc[p].phase /\ row.schemaOk = proc[p].schemaOk
      /\ row.settingsOk = proc[p].settingsOk /\ row.maintenance = proc[p].maintenance
      /\ row.failOpen = proc[p].failOpen /\ row.ready = proc[p].ready
      /\ row.release = proc[p].release /\ row.bot = to
  BY <1>1 DEF Process
<1>3. proc' = [proc EXCEPT ![p] = row]
  BY <1>1 DEF LifeOK
<1> HIDE DEF row
<1>4. /\ schema' \in [Databases -> Releases \cup {0}] /\ Revision(p)' = Revision(p)
      /\ \A o \in Processes \ {p} : Revision(o)' >= Revision(o)
  BY SameSchema
<1>5. ProcOK(row, Revision(p)')
  <2>1. row.ready => ~row.maintenance
    BY <1>1, <1>2, Zenon DEF ProcOK
  <2>2. row.phase = "failed" /\ ~row.maintenance => row.failOpen
    BY <1>1, <1>2, Zenon DEF ProcOK
  <2>3. row.phase \in {"migrate", "settings", "serving"} => row.schemaOk
    BY <1>1, <1>2, Zenon DEF ProcOK
  <2>4. row.phase = "serving" => row.settingsOk
    BY <1>1, <1>2, Zenon DEF ProcOK
  <2>5. row.schemaOk => Revision(p)' >= row.release
    BY <1>1, <1>2, <1>4, Zenon DEF ProcOK
  <2>6. row.phase \in {"serving", "stopping"}
    BY <1>1, <1>2 DEF ProcOK
  <2> QED BY <2>1, <2>2, <2>3, <2>4, <2>5, <2>6 DEF ProcOK
<1>6. Routable(proc[p]) => Routable(row)
  BY <1>2, Zenon DEF Routable
<1>7. Tame(p, row)
  BY DEF Tame, HasFile
<1>8. Steps(p, row)
  BY <1>1, <1>2, <1>3, <1>4, <1>5, <1>6, Zenon DEF Steps
<1> QED BY <1>7, <1>8

LEMMA BotTasksGoOn ==
    ASSUME LifeOK, NEW p \in Processes,
           BotAdvances(p) \/ SetupFails(p) \/ PollingStops(p)
    PROVE  \E row : Steps(p, row) /\ Tame(p, row)
<1>1. UNCHANGED <<postgres, schema, route>>
  BY DEF BotAdvances, RegisterWebhook, StartPollingWorker, DropWebhook, CheckWebhook,
         SetupFails, PollingStops
<1>2. PICK to \in BotSteps : proc[p].bot # "off" /\ proc' = [proc EXCEPT ![p].bot = to]
  <2>1. CASE RegisterWebhook(p)
    BY <2>1 DEF RegisterWebhook, BotStep, Becomes, BotSteps
  <2>2. CASE StartPollingWorker(p)
    BY <2>2 DEF StartPollingWorker, BotStep, Becomes, BotSteps
  <2>3. CASE DropWebhook(p)
    BY <2>3 DEF DropWebhook, BotStep, Becomes, BotSteps
  <2>4. CASE CheckWebhook(p)
    BY <2>4 DEF CheckWebhook, BotStep, Becomes, BotSteps
  <2>5. CASE SetupFails(p)
    BY <2>5 DEF SetupFails, AfterSetupError, BotStep, Becomes, BotSteps
  <2>6. CASE PollingStops(p)
    BY <2>6 DEF PollingStops, Becomes, BotSteps
  <2> QED BY <2>1, <2>2, <2>3, <2>4, <2>5, <2>6 DEF BotAdvances
<1> QED BY <1>1, <1>2, BotGoesOn

LEMMA ServingSteps ==
    ASSUME LifeOK, NEW p \in Processes, BeginServing(p) \/ ProbeFails(p) \/ BeginStop(p)
    PROVE  \E row : Steps(p, row) /\ Tame(p, row)
<1>1. /\ proc[p] \in Process /\ ProcOK(proc[p], Revision(p)) /\ p # None
      /\ (route = p => Routable(proc[p]))
  BY ProcType
<1>2. UNCHANGED <<postgres, schema>>
  BY DEF BeginServing, ProbeFails, BeginStop
<1>3. /\ schema' \in [Databases -> Releases \cup {0}] /\ Revision(p)' = Revision(p)
      /\ \A o \in Processes \ {p} : Revision(o)' >= Revision(o)
  BY <1>2, SameSchema
<1>4. CASE BeginServing(p)
  <2> DEFINE row == [proc[p] EXCEPT !.phase = "serving", !.settingsOk = TRUE,
                                    !.ready = TRUE, !.maintenance = FALSE, !.bot = "setup"]
  <2>1. /\ proc[p].phase = "settings" /\ proc' = [proc EXCEPT ![p] = row] /\ route' = route
    BY <1>4 DEF BeginServing, Proceed, Becomes
  <2>2. /\ row \in Process /\ row.phase = "serving" /\ row.settingsOk = TRUE
        /\ row.maintenance = FALSE /\ row.schemaOk = proc[p].schemaOk
        /\ row.release = proc[p].release
    BY <1>1 DEF Process, Phases, BotSteps
  <2> HIDE DEF row
  <2>3. proc[p].schemaOk /\ Revision(p) >= proc[p].release
    BY <1>1, <2>1 DEF ProcOK
  <2>4. row.schemaOk /\ Revision(p)' >= row.release
    BY <1>3, <2>2, <2>3
  <2>5. ProcOK(row, Revision(p)')
    BY <2>2, <2>4 DEF ProcOK
  <2>6. Steps(p, row) /\ Tame(p, row)
    BY <1>1, <1>3, <2>1, <2>2, <2>5 DEF Steps, Tame, HasFile, Routable
  <2> QED BY <2>6
<1>5. CASE ProbeFails(p)
  <2> DEFINE row == [proc[p] EXCEPT !.ready = FALSE, !.maintenance = TRUE]
  <2>1. /\ proc[p].phase \in {"serving", "failed"} /\ proc' = [proc EXCEPT ![p] = row]
        /\ route' = route
    BY <1>5 DEF ProbeFails, Accepting, Becomes
  <2>2. /\ row \in Process /\ row.phase = proc[p].phase /\ row.settingsOk = proc[p].settingsOk
        /\ row.ready = FALSE /\ row.maintenance = TRUE /\ row.schemaOk = proc[p].schemaOk
        /\ row.release = proc[p].release /\ row.bot = proc[p].bot
    BY <1>1 DEF Process
  <2> HIDE DEF row
  <2>3. ProcOK(row, Revision(p)')
    <3>1. row.phase \in {"migrate", "settings", "serving"} => row.schemaOk
      BY <1>1, <2>2, Zenon DEF ProcOK
    <3>2. row.phase = "serving" => row.settingsOk
      BY <1>1, <2>2, Zenon DEF ProcOK
    <3>3. row.schemaOk => Revision(p)' >= row.release
      BY <1>1, <1>3, <2>2, Zenon DEF ProcOK
    <3>4. row.bot # "off" => row.phase \in {"serving", "stopping"}
      BY <1>1, <2>2 DEF ProcOK
    <3>5. row.phase # "restore"
      BY <2>1, <2>2
    <3> QED BY <2>2, <3>1, <3>2, <3>3, <3>4, <3>5 DEF ProcOK
  <2>4. Routable(proc[p]) => Routable(row)
    BY <2>2, Zenon DEF Routable
  <2>5. Tame(p, row)
    BY <2>2 DEF Tame, HasFile
  <2>6. Steps(p, row)
    BY <1>1, <1>3, <2>1, <2>2, <2>3, <2>4 DEF Steps
  <2> QED BY <2>5, <2>6
<1>6. CASE BeginStop(p)
  <2> DEFINE row == [proc[p] EXCEPT !.phase = "stopping"]
  <2>1. /\ proc[p].phase \in {"serving", "failed"} /\ proc' = [proc EXCEPT ![p] = row]
        /\ route' = IF route = p THEN None ELSE route
    BY <1>6 DEF BeginStop, Accepting, Becomes
  <2>2. /\ row \in Process /\ row.phase = "stopping"
        /\ row.ready = proc[p].ready /\ row.maintenance = proc[p].maintenance
        /\ row.schemaOk = proc[p].schemaOk
        /\ row.release = proc[p].release /\ row.bot = proc[p].bot
    BY <1>1 DEF Process, Phases
  <2> HIDE DEF row
  <2>3. ProcOK(row, Revision(p)')
    <3>1. row.ready => ~row.maintenance
      BY <1>1, <2>2, Zenon DEF ProcOK
    <3>2. row.schemaOk => Revision(p)' >= row.release
      BY <1>1, <1>3, <2>2, Zenon DEF ProcOK
    <3> QED BY <2>2, <3>1, <3>2 DEF ProcOK
  <2>4. Tame(p, row)
    BY <2>1, <2>2 DEF Tame, HasFile
  <2>5. Steps(p, row)
    BY <1>1, <1>3, <2>1, <2>2, <2>3 DEF Steps
  <2> QED BY <2>4, <2>5
<1> QED BY <1>4, <1>5, <1>6

\* The end of a process, after finally or without it.
LEMMA EndSteps ==
    ASSUME LifeOK, NEW p \in Processes, Crash(p) \/ Halt(p)
    PROVE  Steps(p, Off) /\ Tame(p, Off) /\ UNCHANGED postgres
<1>1. /\ proc' = [proc EXCEPT ![p] = Off] /\ UNCHANGED <<schema, postgres>>
      /\ route' \in {route, None} /\ (route = p => route' = None \/ Halt(p))
  BY DEF Crash, Halt, Live, Proceed, Becomes
<1>2. p # None /\ (route = p => Routable(proc[p])) /\ Revision(p) \in Nat
  BY ProcType
<1>3. route' # p
  BY <1>1, <1>2 DEF Halt, Proceed, Routable
<1> QED BY <1>1, <1>2, <1>3, OffType, SameSchema DEF Steps, Tame

\* Startup, with the revision that the files determine.
LEMMA BootingSteps ==
    ASSUME LifeOK, NEW p \in Processes, NEW n \in Releases \cup {0}, Boot(p, n),
           postgres => n = Revision(p)
    PROVE  \E row : Steps(p, row) /\ ~HasFile(row)
<1>1. PICK d \in Deployments :
          /\ proc[p].phase = "off"
          /\ proc' = [proc EXCEPT ![p] = [Off EXCEPT !.phase = "restore", !.release = d.release,
                                             !.delivery = d.delivery, !.failOpen = d.failOpen]]
  BY DEF Boot, Proceed, Becomes
<1> DEFINE row == [Off EXCEPT !.phase = "restore", !.release = d.release,
                              !.delivery = d.delivery, !.failOpen = d.failOpen]
<1>2. d.release \in Releases \cup {0} /\ d.delivery \in {"polling", "webhook"} /\ d.failOpen \in BOOLEAN
  BY LifecycleAssumption DEF LifecycleAssumption, Deployment, Releases
<1>3. /\ row \in Process /\ row.phase = "restore" /\ row.bot = "off"
      /\ row.ready = FALSE /\ row.schemaOk = FALSE
  BY <1>2, OffType DEF Off, Process, Phases
<1>4. proc' = [proc EXCEPT ![p] = row] /\ route' = route /\ UNCHANGED postgres /\ SetRevision(p, n)
  BY <1>1 DEF Boot
<1> HIDE DEF row
<1>5. /\ schema' \in [Databases -> Releases \cup {0}]
      /\ \A o \in Processes \ {p} : Revision(o)' >= Revision(o)
  <2>1. n = Revision(p) => n >= Revision(p)
    BY ProcType
  <2> QED BY <1>4, <2>1, NewRevision
<1>6. route' # p
  BY <1>1, <1>4, ProcType DEF Routable
<1>7. Steps(p, row)
  BY <1>3, <1>4, <1>5, <1>6 DEF Steps, ProcOK
<1> QED BY <1>3, <1>7 DEF HasFile

LEMMA RestoreSteps ==
    ASSUME LifeOK, NEW p \in Processes, NEW n \in Releases \cup {0}, EndRestore(p, n),
           postgres => n = Revision(p)
    PROVE  \E row : Steps(p, row) /\ Tame(p, row)
<1> DEFINE row == [proc[p] EXCEPT !.phase = "prepare", !.attempt = 1]
<1>1. /\ proc[p] \in Process /\ ProcOK(proc[p], Revision(p))
      /\ (route = p => Routable(proc[p])) /\ Revision(p) \in Nat
  BY ProcType
<1>2. /\ proc[p].phase = "restore" /\ proc' = [proc EXCEPT ![p] = row]
      /\ route' = route /\ UNCHANGED postgres /\ SetRevision(p, n)
  BY DEF EndRestore, Proceed, Becomes
<1>3. 1 \in 0..MaxAttempts
  BY LifecycleAssumption DEF LifecycleAssumption
<1>4. /\ row \in Process /\ row.phase = "prepare"
      /\ row.ready = proc[p].ready /\ row.maintenance = proc[p].maintenance
      /\ row.schemaOk = proc[p].schemaOk /\ row.bot = proc[p].bot
  BY <1>1, <1>3 DEF Process, Phases
<1> HIDE DEF row
<1>5. ProcOK(row, Revision(p)')
  <2>1. row.ready => ~row.maintenance
    BY <1>1, <1>4, Zenon DEF ProcOK
  <2>2. ~proc[p].schemaOk /\ proc[p].bot = "off"
    BY <1>1, <1>2 DEF ProcOK
  <2> QED BY <1>4, <2>1, <2>2 DEF ProcOK
<1>6. /\ schema' \in [Databases -> Releases \cup {0}]
      /\ \A o \in Processes \ {p} : Revision(o)' >= Revision(o)
  BY <1>1, <1>2, NewRevision
<1>7. Steps(p, row)
  BY <1>1, <1>2, <1>4, <1>5, <1>6 DEF Steps, Routable
<1>8. Tame(p, row)
  BY <1>1, <1>2, <1>4 DEF Tame, HasFile, ProcOK
<1> QED BY <1>7, <1>8

LEMMA PrepareSteps ==
    ASSUME LifeOK, NEW p \in Processes, PrepareDatabase(p)
    PROVE  \E row : Steps(p, row)
<1> DEFINE row == [proc[p] EXCEPT !.phase = "migrate", !.schemaOk = TRUE]
<1>1. /\ proc[p] \in Process /\ ProcOK(proc[p], Revision(p))
      /\ proc[p].release \in Nat /\ proc[p].release \in Releases \cup {0}
      /\ Revision(p) \in Nat /\ (route = p => Routable(proc[p]))
  BY ProcType
<1>2. /\ proc[p].phase = "prepare" /\ proc' = [proc EXCEPT ![p] = row]
      /\ SetRevision(p, proc[p].release) /\ Revision(p) <= proc[p].release
      /\ route' = route /\ UNCHANGED postgres
  BY DEF PrepareDatabase, KnowsRevision, Proceed, Becomes
<1>3. /\ row \in Process /\ row.phase = "migrate" /\ row.schemaOk = TRUE
      /\ row.ready = proc[p].ready /\ row.maintenance = proc[p].maintenance
      /\ row.release = proc[p].release /\ row.bot = proc[p].bot
  BY <1>1 DEF Process, Phases
<1> HIDE DEF row
<1>4. /\ schema' \in [Databases -> Releases \cup {0}] /\ Revision(p)' = proc[p].release
      /\ \A o \in Processes \ {p} : Revision(o)' >= Revision(o)
  BY <1>1, <1>2, NewRevision
<1>5. ProcOK(row, Revision(p)')
  <2>1. row.ready => ~row.maintenance
    BY <1>1, <1>3, Zenon DEF ProcOK
  <2>2. row.bot = "off"
    BY <1>1, <1>2, <1>3 DEF ProcOK
  <2> QED BY <1>1, <1>3, <1>4, <2>1, <2>2 DEF ProcOK
<1> QED BY <1>1, <1>2, <1>3, <1>4, <1>5 DEF Steps, Routable

LEMMA MigrateSteps ==
    ASSUME LifeOK, NEW p \in Processes, MigrateAndVerify(p)
    PROVE  HasFile(proc[p]) /\ \E row : Steps(p, row) /\ Tame(p, row)
<1> DEFINE row == [proc[p] EXCEPT !.phase = "settings"]
<1>1. /\ proc[p] \in Process /\ ProcOK(proc[p], Revision(p))
      /\ (route = p => Routable(proc[p]))
  BY ProcType
<1>2. /\ proc[p].phase = "migrate" /\ proc' = [proc EXCEPT ![p] = row]
      /\ route' = route /\ UNCHANGED <<schema, postgres>>
  BY DEF MigrateAndVerify, Proceed, Becomes
<1>3. /\ row \in Process /\ row.phase = "settings" /\ row.schemaOk = proc[p].schemaOk
      /\ row.ready = proc[p].ready /\ row.maintenance = proc[p].maintenance
      /\ row.release = proc[p].release /\ row.bot = proc[p].bot
  BY <1>1 DEF Process, Phases
<1> HIDE DEF row
<1>4. /\ schema' \in [Databases -> Releases \cup {0}] /\ Revision(p)' = Revision(p)
      /\ \A o \in Processes \ {p} : Revision(o)' >= Revision(o)
  BY <1>2, SameSchema
<1>5. ProcOK(row, Revision(p)')
  <2>1. row.ready => ~row.maintenance
    BY <1>1, <1>3, Zenon DEF ProcOK
  <2>2. row.bot = "off"
    BY <1>1, <1>2, <1>3 DEF ProcOK
  <2>3. proc[p].schemaOk /\ Revision(p) >= proc[p].release
    BY <1>1, <1>2 DEF ProcOK
  <2>4. row.schemaOk /\ Revision(p)' >= row.release
    BY <1>3, <1>4, <2>3
  <2> QED BY <1>3, <2>1, <2>2, <2>4 DEF ProcOK
<1>6. HasFile(proc[p])
  BY <1>2 DEF HasFile
<1>7. Steps(p, row)
  BY <1>1, <1>2, <1>3, <1>4, <1>5 DEF Steps, Routable
<1> QED BY <1>6, <1>7 DEF Tame

-----------------------------------------------------------------------------
(* The containers. *)

LEMMA FileTypes ==
    /\ NoFile \notin SUBSET Records
    /\ \A file \in (SUBSET Records) \cup {NoFile} :
          /\ Stored(file) \in SUBSET Records
          /\ file # NoFile => file \in SUBSET Records /\ Stored(file) = file
BY StorageAssumption DEF StorageAssumption, NoFile, Stored

LEMMA CallTypes ==
    /\ NoCall \in BackupCall /\ NoCall.at = "idle"
    /\ NoCalls \in [Callers -> BackupCall] /\ \A c \in Callers : NoCalls[c] = NoCall
    /\ \A c \in Callers : Answered(c) \in BackupCall /\ Answered(c).at \in {"idle", "over"}
BY DEF NoCall, NoCalls, Answered, BackupCall

\* A step that concerns one container.
LEMMA OneContainer ==
    ASSUME StoreOK, NEW k \in Containers,
           \A j \in Containers \ {k} :
               /\ local'[j] = local[j] /\ dirty'[j] = dirty[j]
               /\ backup'[j] = backup[j] /\ known'[j] = known[j],
           StorageTypeOK', FileOK(k)', CallsOK(k)'
    PROVE  StoreOK'
<1>1. ASSUME NEW j \in Containers, j # k
      PROVE  FileOK(j)' /\ CallsOK(j)'
  <2>1. FileOK(j) /\ CallsOK(j)
    BY DEF StoreOK
  <2>2. local'[j] = local[j] /\ dirty'[j] = dirty[j] /\ backup'[j] = backup[j] /\ known'[j] = known[j]
    BY <1>1
  <2>3. FileOK(j)'
    BY <2>1, <2>2 DEF FileOK
  <2>4. \A c \in Callers : CallOK(j, backup[j][c])'
    BY <2>1, <2>2 DEF CallsOK, CallOK
  <2> QED BY <2>1, <2>2, <2>3, <2>4 DEF CallsOK
<1> QED BY <1>1 DEF StoreOK

LEMMA StoreFrame ==
    ASSUME StoreOK, UNCHANGED storageVars
    PROVE  StoreOK'
<1>1. UNCHANGED <<local, remote, dirty, backup, confirmed, known>>
  BY DEF storageVars
<1> QED BY <1>1 DEF StoreOK, StorageTypeOK, FileOK, CallsOK, CallOK, Stored

\* The calls of a container after one of them has changed.
LEMMA CallChanges ==
    ASSUME StoreOK, NEW k \in Containers, NEW c \in Callers, NEW call \in BackupCall,
           backup' = [backup EXCEPT ![k][c] = call], UNCHANGED <<local, known>>,
           CallOK(k, call),
           call.at = "publishing" => LockFree(k)
    PROVE  backup' \in [Containers -> [Callers -> BackupCall]] /\ CallsOK(k)'
<1>1. backup \in [Containers -> [Callers -> BackupCall]] /\ CallsOK(k)
  BY DEF StoreOK, StorageTypeOK
<1>2. backup' \in [Containers -> [Callers -> BackupCall]]
  BY <1>1
<1>3. backup'[k][c] = call /\ \A d \in Callers : d # c => backup'[k][d] = backup[k][d]
  BY <1>1
<1>4. ASSUME NEW d \in Callers
      PROVE  CallOK(k, backup[k][d])'
  <2>1. CASE d = c
    BY <1>3, <2>1 DEF CallOK
  <2>2. CASE d # c
    BY <1>1, <1>3, <2>2 DEF CallsOK, CallOK
  <2> QED BY <2>1, <2>2
<1>5. \A d, e \in Callers :
          backup'[k][d].at = "publishing" /\ backup'[k][e].at = "publishing" => d = e
  BY <1>1, <1>3 DEF CallsOK, LockFree
<1> QED BY <1>2, <1>4, <1>5 DEF CallsOK

LEMMA NoCallsOK ==
    ASSUME NEW k \in Containers, backup'[k] = NoCalls
    PROVE  CallsOK(k)'
BY CallTypes DEF CallsOK, CallOK

LEMMA NewContainerKeeps ==
    ASSUME StoreOK, NEW k \in Containers, NewContainer(k)
    PROVE  StoreOK'
<1>1. /\ \/ local' = local /\ known' = known
         \/ local' = [local EXCEPT ![k] = NoFile] /\ known' = [known EXCEPT ![k] = {}]
      /\ dirty' = [dirty EXCEPT ![k] = FALSE]
      /\ backup' = [backup EXCEPT ![k] = NoCalls]
      /\ remote' = remote /\ confirmed' = confirmed
  BY DEF NewContainer
<1>2. StorageTypeOK /\ FileOK(k)
  BY DEF StoreOK
<1>3. StorageTypeOK'
  BY <1>1, <1>2, CallTypes DEF StorageTypeOK
<1>4. dirty'[k] = FALSE /\ backup'[k] = NoCalls
  BY <1>1, <1>2 DEF StorageTypeOK
<1>5. FileOK(k)'
  <2>1. CASE local' = local /\ known' = known
    BY <1>2, <1>4, <2>1 DEF FileOK
  <2>2. CASE known' = [known EXCEPT ![k] = {}]
    BY <1>2, <1>4, <2>2 DEF FileOK, StorageTypeOK
  <2> QED BY <1>1, <2>1, <2>2
<1>6. CallsOK(k)'
  BY <1>4, NoCallsOK
<1>7. \A j \in Containers \ {k} :
          /\ local'[j] = local[j] /\ dirty'[j] = dirty[j]
          /\ backup'[j] = backup[j] /\ known'[j] = known[j]
  BY <1>1, <1>2 DEF StorageTypeOK
<1> QED BY <1>3, <1>5, <1>6, <1>7, OneContainer

\* Without a file nobody has asked for a backup.
LEMMA NoFileNoCall ==
    ASSUME StoreOK, NEW k \in Containers, local[k] = NoFile
    PROVE  \A c \in Callers : backup[k][c].at \in {"idle", "over"}
BY DEF StoreOK, StorageTypeOK, BackupCall, CallsOK, CallOK

\* The file of a container that has none is there: restored, or created.
LEMMA FileAppears ==
    ASSUME StoreOK, NEW k \in Containers, local[k] = NoFile,
           NEW file \in SUBSET Records, local' = [local EXCEPT ![k] = file],
           known' \in [Containers -> SUBSET Records], known'[k] \subseteq file,
           \A j \in Containers \ {k} : known'[j] = known[j],
           UNCHANGED <<remote, dirty, backup, confirmed>>
    PROVE  StoreOK'
<1>1. StorageTypeOK /\ FileOK(k) /\ CallsOK(k)
  BY DEF StoreOK
<1>2. local' \in [Containers -> (SUBSET Records) \cup {NoFile}] /\ local'[k] = file
  BY <1>1 DEF StorageTypeOK
<1>3. StorageTypeOK'
  BY <1>1, <1>2 DEF StorageTypeOK
<1>4. FileOK(k)'
  BY <1>1, <1>2, FileTypes DEF FileOK
<1>5. \A c \in Callers : backup'[k][c].at \in {"idle", "over"}
  BY NoFileNoCall
<1>6. CallsOK(k)'
  BY <1>5 DEF CallsOK, CallOK
<1>7. \A j \in Containers \ {k} : local'[j] = local[j]
  BY <1>1 DEF StorageTypeOK
<1> QED BY <1>3, <1>4, <1>6, <1>7, OneContainer

LEMMA RestoreKeeps ==
    ASSUME StoreOK, NEW k \in Containers, RestoreSnapshot(k)
    PROVE  StoreOK'
<1>1. StorageTypeOK
  BY DEF StoreOK
<1>2. /\ local[k] = NoFile /\ remote # NoFile /\ local' = [local EXCEPT ![k] = remote]
      /\ known' = [known EXCEPT ![k] = confirmed \cap remote]
      /\ UNCHANGED <<remote, dirty, backup, confirmed>>
  BY DEF RestoreSnapshot
<1>3. remote \in SUBSET Records
  BY <1>1, <1>2, FileTypes DEF StorageTypeOK
<1>4. known' \in [Containers -> SUBSET Records] /\ known'[k] \subseteq remote
  BY <1>1, <1>2, <1>3 DEF StorageTypeOK
<1>5. \A j \in Containers \ {k} : known'[j] = known[j]
  BY <1>1, <1>2 DEF StorageTypeOK
<1> QED BY <1>2, <1>3, <1>4, <1>5, FileAppears

LEMMA OpenKeeps ==
    ASSUME StoreOK, NEW k \in Containers, OpenDatabase(k)
    PROVE  StoreOK' /\ local'[k] # NoFile
<1>1. StorageTypeOK /\ FileOK(k)
  BY DEF StoreOK
<1>2. local' = [local EXCEPT ![k] = Stored(local[k])] /\ UNCHANGED <<remote, dirty, backup, confirmed, known>>
  BY DEF OpenDatabase
<1>3. Stored(local[k]) \in SUBSET Records /\ local[k] \in (SUBSET Records) \cup {NoFile}
  BY <1>1, FileTypes DEF StorageTypeOK
<1>4. local'[k] # NoFile
  BY <1>1, <1>2, <1>3, FileTypes DEF StorageTypeOK
<1>5. CASE local[k] = NoFile
  <2>1. known' \in [Containers -> SUBSET Records] /\ known'[k] \subseteq Stored(local[k])
    BY <1>1, <1>2 DEF StorageTypeOK, FileOK
  <2>2. \A j \in Containers \ {k} : known'[j] = known[j]
    BY <1>2
  <2>3. StoreOK'
    BY <1>2, <1>3, <1>5, <2>1, <2>2, FileAppears
  <2> QED BY <1>4, <2>3
<1>6. CASE local[k] # NoFile
  <2>1. local' = local
    BY <1>1, <1>2, <1>3, <1>6, FileTypes DEF StorageTypeOK
  <2>2. StoreOK'
    BY <1>2, <2>1, StoreFrame DEF storageVars
  <2> QED BY <1>4, <2>2
<1> QED BY <1>5, <1>6

LEMMA MarkKeeps ==
    ASSUME StoreOK, NEW k \in Containers, MarkMigrated(k), local[k] # NoFile
    PROVE  StoreOK'
<1>1. StorageTypeOK /\ FileOK(k) /\ CallsOK(k)
  BY DEF StoreOK
<1>2. PICK changed \in BOOLEAN : dirty' = [dirty EXCEPT ![k] = @ \/ changed]
  BY DEF MarkMigrated
<1>3. UNCHANGED <<local, remote, backup, confirmed, known>>
  BY DEF MarkMigrated
<1>4. StorageTypeOK'
  BY <1>1, <1>2, <1>3 DEF StorageTypeOK
<1>5. FileOK(k)' /\ CallsOK(k)'
  BY <1>1, <1>3 DEF FileOK, CallsOK, CallOK
<1>6. \A j \in Containers \ {k} : dirty'[j] = dirty[j]
  BY <1>1, <1>2 DEF StorageTypeOK
<1> QED BY <1>3, <1>4, <1>5, <1>6, OneContainer

LEMMA CommitKeeps ==
    ASSUME StoreOK, NEW k \in Containers, NEW r \in Records, NEW marks \in BOOLEAN,
           Commit(k, r, marks)
    PROVE  StoreOK' /\ local'[k] # NoFile
<1>1. StorageTypeOK /\ FileOK(k) /\ CallsOK(k)
  BY DEF StoreOK
<1>2. /\ local[k] # NoFile /\ local' = [local EXCEPT ![k] = @ \cup {r}]
      /\ dirty' = [dirty EXCEPT ![k] = @ \/ marks]
      /\ UNCHANGED <<remote, backup, confirmed, known>>
  BY DEF Commit
<1>3. local[k] \in SUBSET Records /\ Stored(local[k]) = local[k]
  BY <1>1, <1>2, FileTypes DEF StorageTypeOK
<1>4. /\ local'[k] = local[k] \cup {r} /\ local'[k] \in SUBSET Records
      /\ local' \in [Containers -> (SUBSET Records) \cup {NoFile}]
  BY <1>1, <1>2, <1>3 DEF StorageTypeOK
<1>5. local'[k] # NoFile /\ Stored(local'[k]) = local'[k]
  BY <1>4, FileTypes
<1>6. StorageTypeOK'
  BY <1>1, <1>2, <1>4 DEF StorageTypeOK
<1>7. FileOK(k)'
  BY <1>1, <1>2, <1>3, <1>4, <1>5 DEF FileOK, Stored
<1>8. \A c \in Callers : CallOK(k, backup[k][c])'
  BY <1>1, <1>2, <1>4, <1>5 DEF CallsOK, CallOK
<1>9. CallsOK(k)'
  BY <1>1, <1>2, <1>8 DEF CallsOK
<1>10. \A j \in Containers \ {k} : local'[j] = local[j] /\ dirty'[j] = dirty[j]
  BY <1>1, <1>2 DEF StorageTypeOK
<1> QED BY <1>2, <1>5, <1>6, <1>7, <1>9, <1>10, OneContainer

LEMMA AskKeeps ==
    ASSUME StoreOK, NEW k \in Containers, NEW c \in Callers, AskBackup(k, c), local[k] # NoFile
    PROVE  StoreOK'
<1> DEFINE call == [backup[k][c] EXCEPT !.at = "waiting"]
<1>1. StorageTypeOK /\ FileOK(k) /\ backup[k][c] \in BackupCall
  BY DEF StoreOK, StorageTypeOK
<1>2. /\ UNCHANGED <<local, remote, dirty, confirmed, known>>
      /\ backup' = [backup EXCEPT ![k][c] = call]
  BY <1>1 DEF AskBackup, StorageTypeOK
<1>3. call \in BackupCall /\ call.at = "waiting"
  BY <1>1 DEF BackupCall
<1> HIDE DEF call
<1>4. backup' \in [Containers -> [Callers -> BackupCall]] /\ CallsOK(k)'
  BY <1>2, <1>3, CallChanges DEF CallOK
<1>5. StorageTypeOK' /\ FileOK(k)'
  BY <1>1, <1>2, <1>4 DEF StorageTypeOK, FileOK
<1>6. \A j \in Containers \ {k} : backup'[j] = backup[j]
  BY <1>1, <1>2 DEF StorageTypeOK
<1> QED BY <1>2, <1>4, <1>5, <1>6, OneContainer

LEMMA TakeKeeps ==
    ASSUME StoreOK, NEW k \in Containers, NEW c \in Callers, TakeSnapshot(k, c)
    PROVE  StoreOK'
<1> DEFINE call == [at |-> "publishing", copy |-> local[k]]
<1>1. StorageTypeOK /\ FileOK(k) /\ CallOK(k, backup[k][c])
  BY DEF StoreOK, CallsOK
<1>2. /\ backup[k][c].at = "waiting" /\ LockFree(k)
      /\ dirty' = [dirty EXCEPT ![k] = TRUE]
      /\ backup' = [backup EXCEPT ![k][c] = call]
      /\ UNCHANGED <<local, remote, confirmed, known>>
  BY DEF TakeSnapshot, CopyFile
<1>3. local[k] # NoFile /\ local[k] \in SUBSET Records /\ Stored(local[k]) = local[k]
  BY <1>1, <1>2, FileTypes DEF CallOK, StorageTypeOK
<1>4. call \in BackupCall /\ call.at = "publishing" /\ call.copy = local[k]
  BY <1>3 DEF BackupCall
<1> HIDE DEF call
<1>5. CallOK(k, call)
  BY <1>1, <1>3, <1>4 DEF CallOK, FileOK
<1>6. backup' \in [Containers -> [Callers -> BackupCall]] /\ CallsOK(k)'
  BY <1>2, <1>4, <1>5, CallChanges
<1>7. StorageTypeOK' /\ FileOK(k)'
  BY <1>1, <1>2, <1>3, <1>6 DEF StorageTypeOK, FileOK
<1>8. \A j \in Containers \ {k} : backup'[j] = backup[j] /\ dirty'[j] = dirty[j]
  BY <1>1, <1>2 DEF StorageTypeOK
<1> QED BY <1>2, <1>6, <1>7, <1>8, OneContainer

\* The copy was taken under the lock, so it holds whatever its container has
\* published before, and its file holds the copy.
LEMMA PublishKeeps ==
    ASSUME StoreOK, NEW k \in Containers, NEW c \in Callers, PublishSnapshot(k, c)
    PROVE  StoreOK'
<1> DEFINE copy == backup[k][c].copy
<1>1. StorageTypeOK /\ FileOK(k) /\ CallsOK(k) /\ CallOK(k, backup[k][c]) /\ backup[k][c] \in BackupCall
  BY DEF StoreOK, CallsOK, StorageTypeOK
<1>2. /\ backup[k][c].at = "publishing" /\ remote' = copy /\ UNCHANGED local
      /\ dirty' = [dirty EXCEPT ![k] = FALSE] /\ confirmed' = confirmed \cup copy
      /\ known' = [known EXCEPT ![k] = @ \cup copy]
      /\ backup' = [backup EXCEPT ![k][c] = Answered(c)]
  BY DEF PublishSnapshot
<1>3. /\ local[k] # NoFile /\ local[k] \in SUBSET Records /\ Stored(local[k]) = local[k]
      /\ copy \subseteq local[k] /\ copy \in SUBSET Records
  BY <1>1, <1>2, FileTypes DEF CallOK, StorageTypeOK, BackupCall
<1> HIDE DEF copy
<1>4. backup' \in [Containers -> [Callers -> BackupCall]]
  BY <1>1, <1>2, CallTypes DEF StorageTypeOK
<1>5. StorageTypeOK'
  BY <1>1, <1>2, <1>3, <1>4 DEF StorageTypeOK
<1>6. FileOK(k)'
  BY <1>1, <1>2, <1>3 DEF FileOK, StorageTypeOK
<1>7. \A d \in Callers : backup'[k][d].at # "publishing"
  BY <1>1, <1>2, CallTypes DEF CallsOK, StorageTypeOK
<1>8. CallsOK(k)'
  BY <1>2, <1>3, <1>7 DEF CallsOK, CallOK
<1>9. \A j \in Containers \ {k} :
          dirty'[j] = dirty[j] /\ backup'[j] = backup[j] /\ known'[j] = known[j]
  BY <1>1, <1>2 DEF StorageTypeOK
<1> QED BY <1>2, <1>5, <1>6, <1>8, <1>9, OneContainer

LEMMA FailsKeeps ==
    ASSUME StoreOK, NEW k \in Containers, NEW c \in Callers, PublishFails(k, c)
    PROVE  StoreOK'
<1>1. StorageTypeOK /\ FileOK(k) /\ backup[k][c] \in BackupCall
  BY DEF StoreOK, StorageTypeOK
<1>2. /\ remote' \in {remote, backup[k][c].copy}
      /\ backup' = [backup EXCEPT ![k][c] = Answered(c)]
      /\ UNCHANGED <<local, dirty, confirmed, known>>
  BY DEF PublishFails, CutOff
<1>3. backup' \in [Containers -> [Callers -> BackupCall]] /\ CallsOK(k)'
  BY <1>2, CallTypes, CallChanges DEF CallOK
<1>4. StorageTypeOK' /\ FileOK(k)'
  BY <1>1, <1>2, <1>3 DEF StorageTypeOK, FileOK, BackupCall
<1>5. \A j \in Containers \ {k} : backup'[j] = backup[j]
  BY <1>1, <1>2 DEF StorageTypeOK
<1> QED BY <1>2, <1>3, <1>4, <1>5, OneContainer

LEMMA CancelKeeps ==
    ASSUME StoreOK, NEW k \in Containers, CancelBackups(k)
    PROVE  StoreOK'
<1>1. StorageTypeOK /\ FileOK(k)
  BY DEF StoreOK
<1>2. /\ remote' = remote \/ \E c \in Callers : remote' = backup[k][c].copy
      /\ backup' = [backup EXCEPT ![k] = NoCalls]
      /\ UNCHANGED <<local, dirty, confirmed, known>>
  BY DEF CancelBackups, CutOff
<1>3. \A c \in Callers : backup[k][c].copy \in SUBSET Records
  BY <1>1 DEF StorageTypeOK, BackupCall
<1>4. remote' \in (SUBSET Records) \cup {NoFile}
  BY <1>1, <1>2, <1>3 DEF StorageTypeOK
<1>5. StorageTypeOK' /\ FileOK(k)'
  BY <1>1, <1>2, <1>4, CallTypes DEF StorageTypeOK, FileOK
<1>6. CallsOK(k)'
  BY <1>1, <1>2, NoCallsOK DEF StorageTypeOK
<1>7. \A j \in Containers \ {k} : backup'[j] = backup[j]
  BY <1>1, <1>2 DEF StorageTypeOK
<1> QED BY <1>2, <1>5, <1>6, <1>7, OneContainer

-----------------------------------------------------------------------------
(* The induction. Every process is the container of its file. *)

\* Counters and flags.
LEMMA FaultCounts ==
    ASSUME CountsOK, Fault \/ UNCHANGED faults
    PROVE  faults' \in 0..MaxFaults
BY LifecycleAssumption DEF LifecycleAssumption, CountsOK, Fault

LEMMA StillCounts ==
    ASSUME CountsOK, Fault \/ UNCHANGED faults,
           UNCHANGED <<postgres, webhook, mixed, boots>>, up' \in BOOLEAN
    PROVE  CountsOK'
<1>1. faults' \in 0..MaxFaults
  BY FaultCounts
<1>2. postgres \in BOOLEAN /\ webhook \in BOOLEAN /\ mixed \in BOOLEAN /\ boots \in 0..MaxBoots
  BY DEF CountsOK
<1> QED BY <1>1, <1>2 DEF CountsOK

LEMMA StartupCounts ==
    ASSUME CountsOK, NEW p \in Processes, GatewayStartup(p) \/ GatewayEnd(p)
    PROVE  CountsOK' /\ UNCHANGED postgres
<1>1. UNCHANGED <<postgres, webhook, mixed, boots, up>>
  BY Zenon DEF GatewayStartup, GatewayEnd, GatewayRestore, GatewayPrepare, GatewayMigrate, GatewayFails,
         GatewayServes, EndRestore, PrepareDatabase, MigrateAndVerify, PrepareFails, StepFails,
         BeginServing, Crash, Halt
<1>2. Fault \/ UNCHANGED faults
  <2>1. CASE GatewayFails(p)
    BY <2>1 DEF GatewayFails, PrepareFails, StepFails, Raises
  <2>2. CASE GatewayRestore(p) \/ GatewayPrepare(p) \/ GatewayMigrate(p)
    BY <2>2 DEF GatewayRestore, GatewayPrepare, GatewayMigrate, EndRestore, PrepareDatabase,
                MigrateAndVerify
  <2>3. CASE GatewayServes(p) \/ GatewayEnd(p)
    BY <2>3 DEF GatewayServes, GatewayEnd, BeginServing, Crash, Halt
  <2> QED BY <2>1, <2>2, <2>3 DEF GatewayStartup
<1>3. up' \in BOOLEAN
  BY <1>1 DEF CountsOK
<1> QED BY <1>1, <1>2, <1>3, StillCounts

LEMMA BotCounts ==
    ASSUME CountsOK, NEW p \in Processes,
           BotAdvances(p) \/ SetupFails(p) \/ PollingStops(p)
    PROVE  CountsOK' /\ UNCHANGED postgres
<1>1. UNCHANGED <<postgres, up, mixed, boots>>
  BY Zenon DEF BotAdvances, RegisterWebhook, StartPollingWorker, DropWebhook, CheckWebhook,
         SetupFails, PollingStops
<1>2. Fault \/ UNCHANGED faults
  BY Zenon DEF BotAdvances, RegisterWebhook, StartPollingWorker, DropWebhook, CheckWebhook,
         SetupFails, PollingStops
<1>3. webhook' \in BOOLEAN
  <2>1. webhook \in BOOLEAN
    BY DEF CountsOK
  <2>2. CASE SetupFails(p)
    <3>1. webhook' = webhook \/ webhook' = (webhook \/ proc[p].delivery = "webhook")
      BY <2>2, Zenon DEF SetupFails
    <3> QED BY <2>1, <3>1
  <2>3. CASE RegisterWebhook(p) \/ StartPollingWorker(p) \/ DropWebhook(p) \/ CheckWebhook(p)
             \/ PollingStops(p)
    BY <2>1, <2>3 DEF RegisterWebhook, StartPollingWorker, DropWebhook, DeleteWebhook,
              CheckWebhook, PollingStops
  <2> QED BY <2>2, <2>3 DEF BotAdvances
<1>4. faults' \in 0..MaxFaults
  BY <1>2, FaultCounts
<1>5. postgres \in BOOLEAN /\ up \in BOOLEAN /\ mixed \in BOOLEAN /\ boots \in 0..MaxBoots
  BY DEF CountsOK
<1> QED BY <1>1, <1>3, <1>4, <1>5 DEF CountsOK

LEMMA BootCounts ==
    ASSUME CountsOK, NEW p \in Processes, NEW n, Boot(p, n)
    PROVE  CountsOK'
<1>1. boots < MaxBoots /\ boots' = boots + 1 /\ UNCHANGED <<postgres, up, webhook, faults>>
  BY DEF Boot
<1>2. mixed' \in BOOLEAN
  <2>1. PICK d \in Deployments :
            mixed' = (mixed \/ \E o \in Processes : Live(o) /\ "webhook" \in {d.delivery, proc[o].delivery})
    BY Zenon DEF Boot
  <2> QED BY <2>1
<1>3. boots' \in 0..MaxBoots
  BY <1>1, LifecycleAssumption DEF LifecycleAssumption, CountsOK
<1>4. postgres \in BOOLEAN /\ up \in BOOLEAN /\ webhook \in BOOLEAN /\ faults \in 0..MaxFaults
  BY DEF CountsOK
<1> QED BY <1>1, <1>2, <1>3, <1>4 DEF CountsOK

\* The processes and the files stay; only the route may change.
LEMMA RouteKeeps ==
    ASSUME GatewayInv, UNCHANGED <<proc, postgres, schema, storageVars>>, CountsOK',
           route' # route => route' \in Processes /\ Routable(proc[route'])
    PROVE  GatewayInv'
<1>1. StoreOK' /\ local' = local
  BY StoreFrame DEF GatewayInv, storageVars
<1>2. route' \in Processes \cup {None} /\ (route' # None => Routable(proc[route']))
  BY DEF GatewayInv, LifeOK
<1>3. \A p \in Processes : Revision(p)' = Revision(p)
  BY SameSchema DEF GatewayInv
<1>4. LifeOK'
  BY <1>2, <1>3 DEF GatewayInv, LifeOK
<1>5. FilesThere'
  BY <1>1 DEF GatewayInv, FilesThere
<1> QED BY <1>1, <1>4, <1>5 DEF GatewayInv

\* The processes stay, and so do the files that are there.
LEMMA StoreKeeps ==
    ASSUME GatewayInv, UNCHANGED <<proc, postgres, schema, route>>, CountsOK', StoreOK',
           \A k \in Processes : local[k] # NoFile => local'[k] # NoFile
    PROVE  GatewayInv'
<1>1. \A p \in Processes : Revision(p)' = Revision(p)
  BY SameSchema DEF GatewayInv
<1>2. LifeOK'
  BY <1>1 DEF GatewayInv, LifeOK
<1>3. FilesThere'
  BY DEF GatewayInv, FilesThere
<1> QED BY <1>2, <1>3 DEF GatewayInv

\* A process changes, and needs no more of its file.
LEMMA TameKeeps ==
    ASSUME GatewayInv, NEW p \in Processes, NEW row, Steps(p, row), Tame(p, row),
           UNCHANGED postgres, CountsOK', StoreOK',
           \A k \in Processes : local[k] # NoFile => local'[k] # NoFile
    PROVE  GatewayInv'
BY StepsKeep, TameKeepsFiles DEF GatewayInv

LEMMA StartupKeeps ==
    ASSUME GatewayInv, NEW p \in Processes, GatewayStartup(p)
    PROVE  GatewayInv'
<1>1. /\ LifeOK /\ CountsOK /\ StoreOK /\ FilesThere
      /\ CountsOK' /\ UNCHANGED postgres /\ p \in Containers
  BY StartupCounts, GatewayAssumption DEF GatewayInv, GatewayAssumption
<1>2. CASE GatewayFails(p) \/ GatewayServes(p)
  <2>1. PICK row : Steps(p, row) /\ Tame(p, row)
    BY <1>1, <1>2, StartupFails, ServingSteps DEF GatewayFails, GatewayServes
  <2>2. StoreOK' /\ local' = local
    BY <1>1, <1>2, StoreFrame DEF GatewayFails, GatewayServes, storageVars
  <2> QED BY <1>1, <2>1, <2>2, TameKeeps
<1>3. CASE GatewayRestore(p)
  <2>1. PICK n \in Releases \cup {0} : EndRestore(p, n) /\ (postgres => n = Revision(p))
    BY <1>1, <1>3, ProcType DEF GatewayRestore, OnSqlite, OnPostgres
  <2>2. PICK row : Steps(p, row) /\ Tame(p, row)
    BY <1>1, <2>1, RestoreSteps
  <2>3. StoreOK'
    BY <1>1, <1>3, RestoreKeeps, StoreFrame
       DEF GatewayRestore, OnSqlite, OnPostgres, NothingToRestore, RestoreFails
  <2>4. \A k \in Processes : local[k] # NoFile => local'[k] # NoFile
    <3>1. CASE RestoreSnapshot(p)
      BY <1>1, <3>1 DEF RestoreSnapshot, StoreOK, StorageTypeOK, GatewayAssumption
    <3>2. CASE UNCHANGED storageVars
      BY <3>2 DEF storageVars
    <3> QED BY <1>3, <3>1, <3>2 DEF GatewayRestore, OnSqlite, OnPostgres, NothingToRestore, RestoreFails
  <2> QED BY <1>1, <2>2, <2>3, <2>4, TameKeeps
<1>4. CASE GatewayPrepare(p)
  <2>1. PICK row : Steps(p, row)
    BY <1>1, <1>4, PrepareSteps DEF GatewayPrepare
  <2>2. /\ StoreOK'
        /\ ~postgres => local'[p] # NoFile /\ \A k \in Processes : k # p => local'[k] = local[k]
    <3>1. CASE OnSqlite(OpenDatabase(p))
      <4>1. StoreOK' /\ local'[p] # NoFile /\ local' = [local EXCEPT ![p] = Stored(local[p])]
        BY <1>1, <3>1, OpenKeeps DEF OnSqlite, OpenDatabase
      <4>2. \A k \in Processes : k # p => local'[k] = local[k]
        BY <1>1, <4>1, GatewayAssumption DEF StoreOK, StorageTypeOK, GatewayAssumption
      <4> QED BY <4>1, <4>2
    <3>2. CASE OnPostgres
      BY <1>1, <3>2, StoreFrame DEF OnPostgres
    <3> QED BY <1>4, <3>1, <3>2 DEF GatewayPrepare
  <2>3. LifeOK'
    BY <1>1, <2>1, StepsKeep
  <2>4. \A o \in Processes : o # p => proc'[o] = proc[o]
    BY <1>1, <2>1 DEF Steps, LifeOK
  <2>5. FilesThere'
    BY <1>1, <2>2, <2>4 DEF FilesThere
  <2> QED BY <1>1, <2>2, <2>3, <2>5 DEF GatewayInv
<1>5. CASE GatewayMigrate(p)
  <2>1. HasFile(proc[p]) /\ \E row : Steps(p, row) /\ Tame(p, row)
    BY <1>1, <1>5, MigrateSteps DEF GatewayMigrate
  <2>2. StoreOK' /\ local' = local
    <3>1. CASE OnSqlite(MarkMigrated(p))
      BY <1>1, <2>1, <3>1, MarkKeeps DEF OnSqlite, FilesThere, MarkMigrated
    <3>2. CASE OnPostgres
      BY <1>1, <3>2, StoreFrame DEF OnPostgres, storageVars
    <3> QED BY <1>5, <3>1, <3>2 DEF GatewayMigrate
  <2> QED BY <1>1, <2>1, <2>2, TameKeeps
<1> QED BY <1>2, <1>3, <1>4, <1>5 DEF GatewayStartup

LEMMA BootKeeps ==
    ASSUME GatewayInv, NEW p \in Processes, GatewayBoot(p)
    PROVE  GatewayInv'
<1>1. LifeOK /\ CountsOK /\ StoreOK /\ FilesThere /\ p \in Containers
  BY GatewayAssumption DEF GatewayInv, GatewayAssumption
<1>2. PICK n \in Releases \cup {0} : Boot(p, n) /\ (postgres => n = Revision(p))
  BY <1>1, ProcType DEF GatewayBoot, OnSqlite, OnPostgres
<1>3. PICK row : Steps(p, row) /\ ~HasFile(row)
  BY <1>1, <1>2, BootingSteps
<1>4. CountsOK' /\ UNCHANGED postgres
  BY <1>1, <1>2, BootCounts DEF Boot
<1>5. StoreOK' /\ \A k \in Processes : k # p => local'[k] = local[k]
  <2>1. CASE OnSqlite(NewContainer(p))
    <3>1. StoreOK' /\ (local' = local \/ local' = [local EXCEPT ![p] = NoFile])
      BY <1>1, <2>1, NewContainerKeeps DEF OnSqlite, NewContainer
    <3>2. \A k \in Processes : k # p => local'[k] = local[k]
      BY <1>1, <3>1, GatewayAssumption DEF StoreOK, StorageTypeOK, GatewayAssumption
    <3> QED BY <3>1, <3>2
  <2>2. CASE OnPostgres
    BY <1>1, <2>2, StoreFrame DEF OnPostgres, storageVars
  <2> QED BY <2>1, <2>2 DEF GatewayBoot
<1>6. LifeOK'
  BY <1>1, <1>3, StepsKeep
<1>7. proc'[p] = row /\ \A o \in Processes : o # p => proc'[o] = proc[o]
  BY <1>1, <1>3 DEF Steps, LifeOK
<1>8. FilesThere'
  BY <1>1, <1>3, <1>4, <1>5, <1>7 DEF FilesThere
<1> QED BY <1>4, <1>5, <1>6, <1>8 DEF GatewayInv

LEMMA EndKeeps ==
    ASSUME GatewayInv, NEW p \in Processes, GatewayEnd(p)
    PROVE  GatewayInv'
<1>1. LifeOK /\ CountsOK /\ StoreOK /\ FilesThere /\ p \in Containers /\ CountsOK'
  BY StartupCounts, GatewayAssumption DEF GatewayInv, GatewayAssumption
<1>2. Steps(p, Off) /\ Tame(p, Off) /\ UNCHANGED postgres
  BY <1>1, EndSteps DEF GatewayEnd
<1>3. StoreOK' /\ local' = local
  BY <1>1, CancelKeeps, StoreFrame DEF GatewayEnd, OnSqlite, OnPostgres, CancelBackups, storageVars
<1> QED BY <1>1, <1>2, <1>3, TameKeeps

LEMMA OtherKeeps ==
    ASSUME GatewayInv, NEW p \in Processes, GatewayOther(p) \/ GatewayBotAdvances(p)
    PROVE  GatewayInv'
<1>1. LifeOK /\ CountsOK /\ StoreOK
  BY DEF GatewayInv
<1>2. UNCHANGED storageVars /\ StoreOK' /\ local' = local
  <2>1. UNCHANGED storageVars
    BY DEF GatewayOther, GatewayBotAdvances
  <2> QED BY <1>1, <2>1, StoreFrame DEF storageVars
<1>3. CASE BotAdvances(p) \/ SetupFails(p) \/ PollingStops(p)
  <2>1. \E row : Steps(p, row) /\ Tame(p, row)
    BY <1>1, <1>3, BotTasksGoOn
  <2> QED BY <1>1, <1>2, <1>3, <2>1, BotCounts, TameKeeps
<1>4. CASE ProbeFails(p) \/ BeginStop(p)
  <2>1. \E row : Steps(p, row) /\ Tame(p, row)
    BY <1>1, <1>4, ServingSteps
  <2>2. CountsOK' /\ UNCHANGED postgres
    <3>1. UNCHANGED <<postgres, up, webhook, mixed, boots>> /\ (Fault \/ UNCHANGED faults)
      BY <1>4 DEF ProbeFails, BeginStop
    <3> QED BY <1>1, <3>1, StillCounts DEF CountsOK
  <2> QED BY <1>2, <2>1, <2>2, TameKeeps
<1>5. CASE Promote(p) \/ DatabaseBack
  <2>1. UNCHANGED <<proc, postgres, schema>>
    BY <1>5 DEF Promote, DatabaseBack
  <2>2. CountsOK'
    <3>1. UNCHANGED <<postgres, webhook, mixed, boots, faults>> /\ up' \in BOOLEAN
      BY <1>1, <1>5 DEF Promote, DatabaseBack, CountsOK
    <3> QED BY <1>1, <3>1, StillCounts
  <2>3. route' # route => route' \in Processes /\ Routable(proc[route'])
    BY <1>5 DEF Promote, DatabaseBack, Healthy, Accepting, Routable
  <2> QED BY <1>2, <2>1, <2>2, <2>3, RouteKeeps
<1> QED BY <1>3, <1>4, <1>5 DEF GatewayOther, GatewayBotAdvances

\* Handlers and workers. Whoever asks for a backup has a file.
LEMMA WorkKeeps ==
    ASSUME GatewayInv, NEW p \in Processes,
           \/ \E r \in Records, marks \in BOOLEAN : GatewayCommit(p, r, marks)
           \/ \E c \in Callers : GatewayAskBackup(p, c) \/ GatewayBackup(p, c)
    PROVE  GatewayInv'
<1>1. LifeOK /\ CountsOK /\ StoreOK /\ FilesThere /\ p \in Containers
  BY GatewayAssumption DEF GatewayInv, GatewayAssumption
<1>2. UNCHANGED <<proc, postgres, schema, route>> /\ CountsOK'
  <2>1. UNCHANGED <<proc, postgres, schema, route, up, webhook, boots, mixed>>
        /\ (Fault \/ UNCHANGED faults)
    BY DEF GatewayCommit, GatewayAskBackup, GatewayBackup, lifecycleVars
  <2> QED BY <1>1, <2>1, StillCounts DEF CountsOK
<1>3. ASSUME NEW r \in Records, NEW marks \in BOOLEAN, GatewayCommit(p, r, marks)
      PROVE  GatewayInv'
  <2>1. Commit(p, r, marks)
    BY <1>3 DEF GatewayCommit, OnSqlite
  <2>2. StoreOK' /\ local'[p] # NoFile
    BY <1>1, <2>1, CommitKeeps
  <2>3. \A k \in Processes : k # p => local'[k] = local[k]
    BY <1>1, <2>1 DEF Commit, StoreOK, StorageTypeOK, GatewayAssumption
  <2> QED BY <1>2, <2>2, <2>3, StoreKeeps
<1>4. ASSUME NEW c \in Callers, GatewayAskBackup(p, c)
      PROVE  GatewayInv'
  <2>1. CallsBackup(p, c) /\ ~postgres /\ AskBackup(p, c)
    BY <1>4 DEF GatewayAskBackup, OnSqlite
  <2>2. local[p] # NoFile
    <3>1. CASE dirty[p]
      BY <1>1, <3>1 DEF StoreOK, FileOK
    <3>2. CASE c = "button"
      BY <1>1, <2>1, <3>2 DEF CallsBackup, Tasks, FilesThere, HasFile
    <3> QED BY <2>1, <3>1, <3>2 DEF AskBackup
  <2>3. StoreOK' /\ local' = local
    BY <1>1, <2>1, <2>2, AskKeeps DEF AskBackup
  <2> QED BY <1>2, <2>3, StoreKeeps
<1>5. ASSUME NEW c \in Callers, GatewayBackup(p, c)
      PROVE  GatewayInv'
  <2>1. TakeSnapshot(p, c) \/ PublishSnapshot(p, c) \/ PublishFails(p, c)
    BY <1>5 DEF GatewayBackup
  <2>2. StoreOK' /\ local' = local
    BY <1>1, <2>1, TakeKeeps, PublishKeeps, FailsKeeps
       DEF TakeSnapshot, CopyFile, PublishSnapshot, PublishFails
  <2> QED BY <1>2, <2>2, StoreKeeps
<1> QED BY <1>3, <1>4, <1>5

LEMMA GatewayStep ==
    ASSUME GatewayInv, [GatewayNext]_gatewayVars
    PROVE  GatewayInv'
<1>1. CASE UNCHANGED gatewayVars
  <2>1. UNCHANGED <<proc, postgres, schema, route, storageVars>> /\ CountsOK'
    BY <1>1 DEF gatewayVars, lifecycleVars, GatewayInv, CountsOK
  <2> QED BY <2>1, RouteKeeps
<1>2. CASE GatewayDatabaseAway
  <2>1. /\ UNCHANGED <<proc, postgres, schema, route, storageVars, webhook, mixed, boots>>
        /\ Fault /\ up' = FALSE
    BY <1>2 DEF GatewayDatabaseAway, DatabaseAway
  <2>2. CountsOK'
    BY <2>1, StillCounts DEF GatewayInv
  <2> QED BY <2>1, <2>2, RouteKeeps
<1>3. ASSUME NEW p \in Processes,
             \/ GatewayBoot(p) \/ GatewayStartup(p) \/ GatewayOther(p) \/ GatewayEnd(p)
             \/ GatewayBotAdvances(p)
             \/ \E r \in Records, marks \in BOOLEAN : GatewayCommit(p, r, marks)
             \/ \E c \in Callers : GatewayAskBackup(p, c) \/ GatewayBackup(p, c)
      PROVE  GatewayInv'
  BY <1>3, BootKeeps, StartupKeeps, OtherKeeps, EndKeeps, WorkKeeps
<1> QED BY <1>1, <1>2, <1>3 DEF GatewayNext

LEMMA GatewayStart == GatewayInit => GatewayInv
<1> SUFFICES ASSUME GatewayInit
             PROVE  GatewayInv
  OBVIOUS
<1>1. /\ proc = [p \in Processes |-> Off] /\ schema = [d \in Databases |-> 0] /\ route = None
      /\ local = [k \in Containers |-> NoFile] /\ remote = NoFile
      /\ dirty = [k \in Containers |-> FALSE] /\ confirmed = {}
      /\ backup = [k \in Containers |-> NoCalls] /\ known = [k \in Containers |-> {}]
  BY DEF GatewayInit, LifecycleInit, StorageInit
<1>2. LifeOK
  <2>1. \A p \in Processes : Revision(p) = 0
    BY <1>1 DEF Revision, Database, Databases
  <2> QED BY <1>1, <2>1, OffType DEF LifeOK
<1>3. CountsOK
  <2>1. postgres \in {d.postgres : d \in Deployments} /\ up \in BOOLEAN /\ webhook \in BOOLEAN
        /\ faults = 0 /\ boots = 0 /\ mixed = FALSE
    BY Zenon DEF GatewayInit, LifecycleInit
  <2>2. 0 \in 0..MaxFaults /\ 0 \in 0..MaxBoots /\ \A d \in Deployments : d.postgres \in BOOLEAN
    BY LifecycleAssumption DEF LifecycleAssumption, Deployment
  <2> QED BY <2>1, <2>2 DEF CountsOK
<1>4. StorageTypeOK
  BY <1>1, CallTypes DEF StorageTypeOK
<1>5. StoreOK
  BY <1>1, <1>4, CallTypes DEF StoreOK, FileOK, CallsOK, CallOK
<1>6. FilesThere
  BY <1>1, OffType DEF FilesThere
<1> QED BY <1>2, <1>3, <1>5, <1>6 DEF GatewayInv

-----------------------------------------------------------------------------
(* The theorems. *)

\* Types of processes, databases, files and snapshots, in either mode.
THEOREM GatewayTypeCorrect == GatewaySpec => []GatewayTypeOK
<1>1. GatewayInv => GatewayTypeOK
  BY DEF GatewayInv, LifeOK, CountsOK, StoreOK, GatewayTypeOK, LifecycleTypeOK
<1>2. GatewayInv /\ [GatewayNext]_gatewayVars => GatewayInv'
  BY GatewayStep
<1> QED BY <1>1, <1>2, GatewayStart, PTL DEF GatewaySpec

\* Requests reach only processes whose startup was verified, for any number
\* of releases and attempts and whatever fails.
THEOREM OnlyVerifiedServe == GatewaySpec => []ServesOnlyVerified
<1>1. GatewayInv => ServesOnlyVerified
  BY DEF GatewayInv, LifeOK, ProcOK, ServesOnlyVerified, Serves, Accepting
<1>2. GatewayInv /\ [GatewayNext]_gatewayVars => GatewayInv'
  BY GatewayStep
<1> QED BY <1>1, <1>2, GatewayStart, PTL DEF GatewaySpec

\* Traffic goes to a process that serves, or did so before the outage.
THEOREM RoutedToServing == GatewaySpec => []RoutesToServing
<1>1. ASSUME GatewayInv, route # None
      PROVE  Serves(route) \/ (proc[route].settingsOk /\ ~proc[route].ready)
  <2>1. Routable(proc[route]) /\ ProcOK(proc[route], Revision(route))
    BY <1>1 DEF GatewayInv, LifeOK
  <2>2. proc[route].ready => ~proc[route].maintenance
    BY <2>1 DEF ProcOK
  <2> QED BY <2>1, <2>2 DEF Routable, Serves, Accepting
<1>2. GatewayInv => RoutesToServing
  BY <1>1 DEF RoutesToServing
<1>3. GatewayInv /\ [GatewayNext]_gatewayVars => GatewayInv'
  BY GatewayStep
<1> QED BY <1>2, <1>3, GatewayStart, PTL DEF GatewaySpec

\* Who moves the branch away from a record publishes a copy of a file that
\* never had it.
LEMMA MovedByStranger ==
    ASSUME GatewayInv, NEW k \in Containers, NEW c \in Callers, CutOff(k, c),
           backup'[k][c].at # "publishing",
           NEW r \in confirmed, r \notin Stored(remote')
    PROVE  Overwrites(k, r)
<1>1. /\ backup[k][c].at = "publishing" /\ remote' = backup[k][c].copy
      /\ CallOK(k, backup[k][c]) /\ backup[k][c].copy \in SUBSET Records
  BY DEF CutOff, GatewayInv, StoreOK, CallsOK, StorageTypeOK, BackupCall
<1>2. known[k] \subseteq remote' /\ Stored(remote') = remote'
  BY <1>1, FileTypes DEF CallOK
<1>3. r \notin known[k]
  BY <1>2
<1> QED BY <1>3 DEF Overwrites

\* A backup answered with success stays on the branch, for any number of
\* containers, callers and failures, until one publishes that never had it.
THEOREM ConfirmedStaysOnBranch == GatewaySpec => ConfirmedIsKept
<1>1. ASSUME GatewayInv, [GatewayNext]_gatewayVars
      PROVE  [\A r \in confirmed \cap Stored(remote) :
                  r \in Stored(remote') \/ \E k \in Containers : Overwrites(k, r)]_storageVars
  <2>1. CASE remote' = remote
    BY <2>1
  <2>2. CASE remote' # remote
    <3>1. PICK k \in Processes :
              GatewayEnd(k) \/ \E c \in Callers : GatewayBackup(k, c)
      <4>1. ASSUME NEW p \in Processes,
                   \/ GatewayBoot(p) \/ GatewayStartup(p) \/ GatewayOther(p)
                   \/ GatewayBotAdvances(p)
                   \/ \E r \in Records, marks \in BOOLEAN : GatewayCommit(p, r, marks)
                   \/ \E c \in Callers : GatewayAskBackup(p, c)
            PROVE  remote' = remote
        <5>1. CASE GatewayBoot(p)
          BY <5>1 DEF GatewayBoot, OnSqlite, OnPostgres, NewContainer, storageVars
        <5>2. CASE GatewayStartup(p)
          <6>1. CASE GatewayRestore(p)
            BY <6>1 DEF GatewayRestore, OnSqlite, OnPostgres, NothingToRestore, RestoreSnapshot,
                        RestoreFails, storageVars
          <6>2. CASE GatewayPrepare(p) \/ GatewayMigrate(p)
            BY <6>2 DEF GatewayPrepare, GatewayMigrate, OnSqlite, OnPostgres, OpenDatabase,
                        MarkMigrated, storageVars
          <6>3. CASE GatewayFails(p) \/ GatewayServes(p)
            BY <6>3 DEF GatewayFails, GatewayServes, storageVars
          <6> QED BY <5>2, <6>1, <6>2, <6>3 DEF GatewayStartup
        <5>3. CASE GatewayOther(p) \/ GatewayBotAdvances(p)
          BY <5>3 DEF GatewayOther, GatewayBotAdvances, storageVars
        <5>4. CASE \E r \in Records, marks \in BOOLEAN : GatewayCommit(p, r, marks)
          BY <5>4 DEF GatewayCommit, OnSqlite, Commit
        <5>5. CASE \E c \in Callers : GatewayAskBackup(p, c)
          BY <5>5 DEF GatewayAskBackup, OnSqlite, AskBackup
        <5> QED BY <4>1, <5>1, <5>2, <5>3, <5>4, <5>5
      <4>2. UNCHANGED gatewayVars \/ GatewayDatabaseAway => remote' = remote
        BY DEF gatewayVars, GatewayDatabaseAway, storageVars
      <4> QED BY <1>1, <2>2, <4>1, <4>2 DEF GatewayNext
    <3>2. k \in Containers /\ StorageTypeOK
      BY <1>1, GatewayAssumption DEF GatewayInv, StoreOK, GatewayAssumption
    <3>3. PICK c \in Callers : CutOff(k, c) /\ backup'[k][c].at # "publishing"
      <4>1. CASE GatewayEnd(k)
        <5>1. CancelBackups(k)
          BY <2>2, <4>1 DEF GatewayEnd, OnSqlite, OnPostgres, storageVars
        <5>2. backup'[k] = NoCalls
          BY <3>2, <5>1 DEF CancelBackups, StorageTypeOK
        <5> QED BY <2>2, <5>1, <5>2, CallTypes DEF CancelBackups
      <4>2. ASSUME NEW c \in Callers, GatewayBackup(k, c)
            PROVE  CutOff(k, c) /\ backup'[k][c].at # "publishing"
        <5>1. PublishSnapshot(k, c) \/ PublishFails(k, c)
          BY <2>2, <4>2 DEF GatewayBackup, TakeSnapshot, CopyFile
        <5>2. CutOff(k, c) /\ backup' = [backup EXCEPT ![k][c] = Answered(c)]
          BY <2>2, <5>1 DEF PublishSnapshot, PublishFails, CutOff
        <5> QED BY <3>2, <5>2, CallTypes DEF StorageTypeOK
      <4> QED BY <3>1, <4>1, <4>2
    <3> QED BY <1>1, <3>2, <3>3, MovedByStranger
  <2> QED BY <2>1, <2>2
<1>2. GatewayInv /\ [GatewayNext]_gatewayVars => GatewayInv'
  BY GatewayStep
<1> QED BY <1>1, <1>2, GatewayStart, PTL DEF GatewaySpec, ConfirmedIsKept
=============================================================================
