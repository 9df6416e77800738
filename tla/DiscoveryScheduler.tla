--------------------------- MODULE DiscoveryScheduler ---------------------------
(***************************************************************************)
(* The server's discovery scheduler: the persisted discovery definitions,  *)
(* the in-memory cron jobs of the JobScheduler, and every code path that   *)
(* touches either of them:                                                 *)
(*   - create_discovery, called when a daemon registers;                   *)
(*   - the start_session HTTP handler, which ends in update_discovery;     *)
(*   - the generic CRUD routes POST/PUT/DELETE /discovery, which go to     *)
(*     storage only;                                                       *)
(*   - start_scheduler, run by bin/server.rs after the listener is up;     *)
(*   - the cron job closure built by schedule_discovery.                   *)
(* A definition keeps what the scheduler tells apart: whether it is        *)
(* Scheduled, whether its cron parses, enabled, last_run (as the value of  *)
(* a logical clock) and a revision counting user edits.                    *)
(***************************************************************************)
EXTENDS Naturals, FiniteSets

CONSTANTS
    Discoveries,  \* discovery ids
    UserOps,      \* which user routes are exercised: subset of
                  \* {"create", "update", "delete", "start"}
    MaxEdits,     \* bound on user PUTs per discovery
    MaxClock,     \* bound on the clock that stamps last_run
    MaxFires,     \* bound on cron firings
    MaxRestarts,  \* bound on server restarts
    NoDef         \* model value: no row for this id

ASSUME UserOps \subseteq {"create", "update", "delete", "start"}

Crons == {"valid", "invalid"}

\* A stored Discovery, reduced to what the scheduler reads.
Def == [scheduled : BOOLEAN, cron : Crons, enabled : BOOLEAN,
        lastRun : 0..MaxClock, rev : 0..MaxEdits]

Boot == {"listening", "scheduling", "started"}

\* Jobs ever added: one per daemon registration, one per start handler and
\* one per row at each start_scheduler. No action is cut off by it.
MaxJobs == Cardinality(Discoveries) * (2 + MaxRestarts) + MaxClock

VARIABLES
    db,        \* discovery table: id -> Def, or NoDef when no row
    jobs,      \* jobs in the JobScheduler: [id, disc, snap]
    nextJob,   \* job ids handed out so far (the uuids add() returns)
    boot,      \* how far start_scheduler has got since the last restart
    toLoad,    \* the rows start_scheduler fetched and has not yet scheduled
    loaded,    \* all rows fetched by the current start_scheduler
    starting,  \* start_session handler in progress: id -> its local copy
    clock,     \* the value Utc::now() returns next
    fires,     \* cron firings so far
    restarts,  \* restarts so far
    used       \* ids that have had a row (uuids are never reused)

vars == <<db, jobs, nextJob, boot, toLoad, loaded, starting, clock, fires,
          restarts, used>>

Job == [id : 1..MaxJobs, disc : Discoveries, snap : Def]

TypeOK ==
    /\ db \in [Discoveries -> Def \cup {NoDef}]
    /\ jobs \subseteq Job
    /\ nextJob \in 0..MaxJobs
    /\ boot \in Boot
    /\ toLoad \subseteq [d : Discoveries, def : Def]
    /\ loaded \subseteq [d : Discoveries, def : Def]
    /\ starting \in [Discoveries -> Def \cup {NoDef}]
    /\ clock \in 0..MaxClock
    /\ fires \in 0..MaxFires
    /\ restarts \in 0..MaxRestarts
    /\ used \subseteq Discoveries
    /\ \A j \in jobs : j.id <= nextJob

\* The server has just started: an empty table, no jobs, and the listener
\* accepting requests before start_scheduler runs.
Init ==
    /\ db = [d \in Discoveries |-> NoDef]
    /\ jobs = {}
    /\ nextJob = 0
    /\ boot = "listening"
    /\ toLoad = {}
    /\ loaded = {}
    /\ starting = [d \in Discoveries |-> NoDef]
    /\ clock = 0
    /\ fires = 0
    /\ restarts = 0
    /\ used = {}

(***************************************************************************)
(* Helpers                                                                  *)
(***************************************************************************)

\* Discovery::disable pattern-matches run_type by value and sets a copy of
\* `enabled`; the definition it is called on is left as it was.
disable(def) == def

\* GenericPostgresStorage::update: UPDATE ... WHERE id; a missing row
\* matches nothing and the call still succeeds.
StorageUpdate(table, d, def) ==
    IF table[d] = NoDef THEN table ELSE [table EXCEPT ![d] = def]

\* The guards of schedule_discovery before Job::new_async: the
\* definition is Scheduled, enabled, and its cron expression parses.
Schedulable(def) ==
    /\ def # NoDef
    /\ def.scheduled
    /\ def.enabled
    /\ def.cron = "valid"

\* A slip: the job gets a fresh id but the id generator does not advance.
ScheduleOrDisableSameId(d, def, table, js) ==
    IF Schedulable(def)
    THEN /\ jobs' = js \cup {[id |-> nextJob + 1, disc |-> d, snap |-> def]}
         /\ nextJob' = nextJob
         /\ db' = table
    ELSE /\ jobs' = js
         /\ nextJob' = nextJob
         /\ db' = StorageUpdate(table, d, disable(def))

\* schedule_discovery(d, def) followed by the caller's failure path: on
\* success a job holding a clone of def is added; on failure the caller
\* calls disable() and writes def again.  Gives jobs' and db'.
ScheduleOrDisable(d, def, table, js) ==
    IF Schedulable(def)
    THEN /\ jobs' = js \cup {[id |-> nextJob + 1, disc |-> d, snap |-> def]}
         /\ nextJob' = nextJob + 1
         /\ db' = table
    ELSE /\ jobs' = js
         /\ nextJob' = nextJob
         /\ db' = StorageUpdate(table, d, disable(def))

\* JobScheduler::remove(id): drops the job whose job id is `id`.
remove(js, id) == {j \in js : j.id # id}

(***************************************************************************)
(* Actions                                                                  *)
(***************************************************************************)

\* Daemon registration: create_discovery of a Scheduled, enabled
\* definition with DAILY_MIDNIGHT_CRON (daemons/handlers.rs), i.e.
\* storage.create, then schedule_discovery, disabling on failure.
CreateDiscovery(d) ==
    LET def == [scheduled |-> TRUE, cron |-> "valid", enabled |-> TRUE,
                lastRun |-> 0, rev |-> 0]
    IN /\ d \notin used
       /\ used' = used \cup {d}
       /\ ScheduleOrDisable(d, def, [db EXCEPT ![d] = def], jobs)
       /\ UNCHANGED <<boot, toLoad, loaded, starting, clock, fires, restarts>>

\* POST /discovery: create_handler -> CrudService::create -> storage only.
CrudCreate(d) ==
    /\ "create" \in UserOps
    /\ d \notin used
    /\ \E s \in BOOLEAN, c \in Crons, e \in BOOLEAN :
          db' = [db EXCEPT ![d] = [scheduled |-> s, cron |-> c, enabled |-> e,
                                   lastRun |-> 0, rev |-> 0]]
    /\ used' = used \cup {d}
    /\ UNCHANGED <<jobs, nextJob, boot, toLoad, loaded, starting, clock,
                   fires, restarts>>

\* PUT /discovery/{id}: update_handler checks the row exists, then
\* CrudService::update writes the body; the scheduler is not told. The
\* body is the definition the UI fetched with the user's edits applied.
CrudUpdate(d) ==
    /\ "update" \in UserOps
    /\ db[d] # NoDef
    /\ db[d].rev < MaxEdits
    /\ \E s \in BOOLEAN, c \in Crons, e \in BOOLEAN :
          db' = [db EXCEPT ![d] = [@ EXCEPT !.scheduled = s, !.cron = c,
                                            !.enabled = e, !.rev = @ + 1]]
    /\ UNCHANGED <<jobs, nextJob, boot, toLoad, loaded, starting, clock,
                   fires, restarts, used>>

\* DELETE /discovery/{id}: delete_handler -> CrudService::delete; the
\* job stays in the scheduler.
CrudDelete(d) ==
    /\ "delete" \in UserOps
    /\ db[d] # NoDef
    /\ db' = [db EXCEPT ![d] = NoDef]
    /\ UNCHANGED <<jobs, nextJob, boot, toLoad, loaded, starting, clock,
                   fires, restarts, used>>

\* POST /discovery/start-session, up to the await on start_session:
\* get_by_id, then last_run := now on the local copy.
StartRead(d) ==
    /\ "start" \in UserOps
    /\ db[d] # NoDef
    /\ starting[d] = NoDef
    /\ clock < MaxClock
    /\ clock' = clock + 1
    /\ starting' = [starting EXCEPT ![d] = [db[d] EXCEPT !.lastRun = clock + 1]]
    /\ UNCHANGED <<db, jobs, nextJob, boot, toLoad, loaded, fires, restarts,
                   used>>

\* start_session failed: the handler returns the error before
\* update_discovery.
StartFailed(d) ==
    /\ starting[d] # NoDef
    /\ starting' = [starting EXCEPT ![d] = NoDef]
    /\ UNCHANGED <<db, jobs, nextJob, boot, toLoad, loaded, clock, fires,
                   restarts, used>>

\* start_session succeeded: update_discovery(copy). For a Scheduled copy
\* remove(&discovery.id), storage.update, schedule_discovery and the
\* disable path; otherwise storage.update alone.
StartUpdate(d) ==
    LET copy == starting[d]
    IN /\ copy # NoDef
       /\ starting' = [starting EXCEPT ![d] = NoDef]
       /\ IF copy.scheduled
          THEN ScheduleOrDisable(d, copy, StorageUpdate(db, d, copy),
                                 remove(jobs, d))
          ELSE /\ db' = StorageUpdate(db, d, copy)
               /\ UNCHANGED <<jobs, nextJob>>
       /\ UNCHANGED <<boot, toLoad, loaded, clock, fires, restarts, used>>

\* A server restart: the JobScheduler lives in memory and every handler
\* in flight dies; the table survives.
Restart ==
    /\ restarts < MaxRestarts
    /\ restarts' = restarts + 1
    /\ jobs' = {}
    /\ boot' = "listening"
    /\ toLoad' = {}
    /\ loaded' = {}
    /\ starting' = [d \in Discoveries |-> NoDef]
    /\ UNCHANGED <<db, nextJob, clock, fires, used>>

\* start_scheduler: get_all with the scheduled_discovery filter
\* (run_type Scheduled and enabled = true).
SchedulerLoad ==
    /\ boot = "listening"
    /\ LET rows == {[d |-> d, def |-> db[d]] :
                      d \in {x \in Discoveries :
                               db[x] # NoDef /\ db[x].scheduled /\ db[x].enabled}}
       IN /\ toLoad' = rows
          /\ loaded' = rows
    /\ boot' = "scheduling"
    /\ UNCHANGED <<db, jobs, nextJob, starting, clock, fires, restarts, used>>

\* A slip: the loop stops at the first row that fails to schedule.
SchedulerAddStopOnFailure(e) ==
    /\ boot = "scheduling"
    /\ e \in toLoad
    /\ ScheduleOrDisable(e.d, e.def, db, jobs)
    /\ toLoad' = IF Schedulable(e.def) THEN toLoad \ {e} ELSE {}
    /\ UNCHANGED <<boot, loaded, starting, clock, fires, restarts, used>>

\* One turn of start_scheduler's loop: schedule_discovery on the fetched
\* row; on failure disable() and write the fetched row back.
SchedulerAdd(e) ==
    /\ boot = "scheduling"
    /\ e \in toLoad
    /\ ScheduleOrDisable(e.d, e.def, db, jobs)
    /\ toLoad' = toLoad \ {e}
    /\ UNCHANGED <<boot, loaded, starting, clock, fires, restarts, used>>

\* scheduler.start() after the loop.
SchedulerStart ==
    /\ boot = "scheduling"
    /\ toLoad = {}
    /\ boot' = "started"
    /\ UNCHANGED <<db, jobs, nextJob, toLoad, loaded, starting, clock, fires,
                   restarts, used>>

\* A cron firing of job j: start_session(the captured clone); on success
\* last_run is set on a shadow and the clone is written with
\* storage.update.
JobFire(j, ok) ==
    /\ boot = "started"
    /\ j \in jobs
    /\ fires < MaxFires
    /\ fires' = fires + 1
    /\ db' = IF ok THEN StorageUpdate(db, j.disc, j.snap) ELSE db
    /\ UNCHANGED <<jobs, nextJob, boot, toLoad, loaded, starting, clock,
                   restarts, used>>

Next ==
    \/ \E d \in Discoveries :
          \/ CreateDiscovery(d)
          \/ CrudCreate(d)
          \/ CrudUpdate(d)
          \/ CrudDelete(d)
          \/ StartRead(d)
          \/ StartFailed(d)
          \/ StartUpdate(d)
    \/ Restart
    \/ SchedulerLoad
    \/ \E e \in toLoad : SchedulerAdd(e)
    \/ SchedulerStart
    \/ \E j \in jobs, ok \in BOOLEAN : JobFire(j, ok)

\* start_scheduler is awaited by main and runs to its end; the user, the
\* daemons, the cron clock and crashes are under no obligation.
Fairness ==
    /\ WF_vars(SchedulerLoad)
    /\ WF_vars(\E e \in toLoad : SchedulerAdd(e))
    /\ WF_vars(SchedulerStart)

Spec == Init /\ [][Next]_vars /\ Fairness

(***************************************************************************)
(* Properties                                                               *)
(***************************************************************************)

\* start_scheduler, when it calls start(), has registered a job with the
\* fetched definition for every fetched row whose cron parses, even when
\* other rows failed to schedule on the way (the loop logs and goes on).
StartupSchedulesAllLoaded ==
    [][boot = "scheduling" /\ boot' = "started" =>
         \A e \in loaded :
            e.def.cron = "valid" =>
               \E j \in jobs : j.disc = e.d /\ j.snap = e.def]_vars

\* A cron job starts a session only for a discovery that is stored,
\* Scheduled and enabled (spec 4.4: "On delete, unregister then delete";
\* the PUT and DELETE routes reach storage only).
FiresOnlyEnabled ==
    [][\A j \in jobs : JobFire(j, TRUE) \/ JobFire(j, FALSE) =>
                         Schedulable(db[j.disc])]_vars

\* There is at most one job per discovery (spec 8: re-registering after an
\* update produces exactly one active job); update_discovery removes by
\* discovery id, start_scheduler runs while registrations are served.
SingleJobPerDiscovery ==
    \A d \in Discoveries : Cardinality({j \in jobs : j.disc = d}) <= 1

\* A user's edit of a stored definition is never undone: its revision
\* only grows while the row exists (the cron job writes the clone it took
\* when it was scheduled).
EditsSurvive ==
    [][\A d \in Discoveries :
          db[d] # NoDef /\ db'[d] # NoDef => db'[d].rev >= db[d].rev]_db

\* A row that start_scheduler fails to schedule is left disabled
\* (spec 4.4: "each that fails to register is persisted as enabled=false").
FailedScheduleDisabled ==
    [][\A e \in toLoad :
          SchedulerAdd(e) /\ ~Schedulable(e.def) /\ db[e.d] # NoDef =>
             ~db'[e.d].enabled]_vars

================================================================================
