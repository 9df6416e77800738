-------------------------- MODULE DiscoverySessions --------------------------
(***************************************************************************)
(* Discovery sessions end to end.                                          *)
(*                                                                         *)
(* Server side (src/server/discovery/service.rs): the live registry        *)
(* `sessions`, the per-daemon FIFO `daemon_sessions`, and the handlers     *)
(* start_session, update_session and cancel_session, each split into one  *)
(* action per stretch of code between two awaits.                          *)
(*                                                                         *)
(* Daemon side: the /initiate and /cancel handlers                         *)
(* (src/daemon/discovery/handlers.rs), the session manager's token and    *)
(* task slot, the network-scan runner (discover, start_discovery,          *)
(* scan_and_process_hosts, finish_discovery) and the self-report runner    *)
(* (self_report.rs discover).  A runner reports through                    *)
(* the daemon's single `current_session` slot, never through the id it    *)
(* was started with.                                                       *)
(*                                                                         *)
(* HTTP calls are atomic with the handler they reach; each may be lost or *)
(* lose its reply, at most MaxRpcFailures times in a behaviour.            *)
(***************************************************************************)
EXTENDS Naturals, Sequences, SequencesExt, FiniteSets

CONSTANTS
    Daemons,            \* daemon ids
    Sessions,           \* session ids start_session may mint (Uuid::new_v4)
    None,               \* Option::None for a session or daemon slot
    Hosts,              \* IPs a network scan walks through
    MaxRpcFailures,     \* bound on failed HTTP calls in one behaviour
    OverlappingStarts,  \* may two start_session handlers interleave?
    CancelFrom,         \* start_session stages (startPc) at which the user
                        \*   may already cancel the session
    DiscoveryTypes      \* discovery types the started discoveries have

ASSUME /\ None \notin Sessions \cup Daemons
       /\ Hosts \in Nat \ {0}
       /\ MaxRpcFailures \in Nat
       /\ OverlappingStarts \in BOOLEAN
       /\ CancelFrom \subseteq {"inserted", "checked", "done"}
       /\ DiscoveryTypes \subseteq {"Network", "SelfReport"} /\ DiscoveryTypes # {}

Absent   == "absent"        \* no entry in the `sessions` map
Phases   == {"Pending", "Started", "Scanning", "Complete", "Failed", "Cancelled"}
Terminal == {"Complete", "Failed", "Cancelled"}

\* Each start or promotion dispatches at most once, so runners are bounded.
MaxRunners == 2 * Cardinality(Sessions)
RunnerIds  == 1..MaxRunners

\* Runner program counter: one value per await of the network runner and
\* of the self-report runner (sr*).
RunnerPcs == {"subnets", "init", "started", "scan0", "loop", "progress",
              "finish", "final", "awaitReply", "clear", "exit", "done",
              "srInit", "srWork", "srCaps", "srHost", "srReport"}

VARIABLES
    sessions,         \* [Sessions -> Phases \cup {Absent}]: phase in the live registry
    owner,            \* [Sessions -> Daemons \cup {None}]: daemon_id of the session
    dtype,            \* [Sessions -> DiscoveryTypes \cup {None}]: its discovery_type
    daemon_sessions,  \* [Daemons -> Seq(Sessions)]: per-daemon queue
    startPc,          \* [Sessions -> ...]: where start_session for that id is
    wasRunning,       \* [Sessions -> BOOLEAN]: its local daemon_is_running_discovery
    dispatching,      \* set of [sid, by]: send_discovery_request calls under way;
                      \*   by = the runner whose update awaits it, 0 = start_session
    archived,         \* set of <<session, phase>>: historical discovery records
    cancelNet,        \* sessions whose cancellation request is on its way to the daemon
    current,          \* [Daemons -> Sessions \cup {None}]: daemon's current_session
    token,            \* [Daemons -> 0..MaxRunners]: runner owning the current token
    task,             \* [Daemons -> 0..MaxRunners]: manager's current task handle
    cancelled,        \* set of runner ids whose token has been cancelled
    runners,          \* Seq of runner records, in spawn order
    failures          \* failed HTTP calls so far

coord  == <<sessions, daemon_sessions, dispatching, archived>>
daemon == <<current, token, task, cancelled>>
vars   == <<sessions, owner, dtype, daemon_sessions, startPc, wasRunning, dispatching,
            archived, cancelNet, current, token, task, cancelled, runners, failures>>

RunnerRec == [d : Daemons, sid : Sessions, kind : DiscoveryTypes, pc : RunnerPcs, ok : BOOLEAN,
              scanned : 0..Hosts, verdict : Terminal \cup {"none"}]

TypeOK ==
    /\ sessions \in [Sessions -> Phases \cup {Absent}]
    /\ owner \in [Sessions -> Daemons \cup {None}]
    /\ dtype \in [Sessions -> DiscoveryTypes \cup {None}]
    /\ daemon_sessions \in [Daemons -> Seq(Sessions)]
    /\ startPc \in [Sessions -> {"idle", "inserted", "checked", "done"}]
    /\ wasRunning \in [Sessions -> BOOLEAN]
    /\ dispatching \subseteq [sid : Sessions, by : 0..MaxRunners]
    /\ archived \subseteq Sessions \X Terminal
    /\ cancelNet \subseteq Sessions
    /\ current \in [Daemons -> Sessions \cup {None}]
    /\ token \in [Daemons -> 0..MaxRunners]
    /\ task \in [Daemons -> 0..MaxRunners]
    /\ cancelled \subseteq RunnerIds
    /\ runners \in Seq(RunnerRec) /\ Len(runners) <= MaxRunners
    /\ failures \in 0..MaxRpcFailures

Init ==
    /\ sessions = [s \in Sessions |-> Absent]
    /\ owner = [s \in Sessions |-> None]
    /\ dtype = [s \in Sessions |-> None]
    /\ daemon_sessions = [d \in Daemons |-> <<>>]
    /\ startPc = [s \in Sessions |-> "idle"]
    /\ wasRunning = [s \in Sessions |-> FALSE]
    /\ dispatching = {}
    /\ archived = {}
    /\ cancelNet = {}
    /\ current = [d \in Daemons |-> None]
    /\ token = [d \in Daemons |-> 0]
    /\ task = [d \in Daemons |-> 0]
    /\ cancelled = {}
    /\ runners = <<>>
    /\ failures = 0

-----------------------------------------------------------------------------
(* Daemon session manager (daemon/discovery/manager.rs).                   *)

\* is_discovery_running: the current task handle exists and is not finished.
is_discovery_running(d) == task[d] # 0 /\ runners[task[d]].pc # "done"

\* A freshly spawned runner for session sid on daemon d: the request's
\* discovery_type picks the runner (SelfReport or Network).
NewRunner(d, sid) == [d |-> d, sid |-> sid, kind |-> dtype[sid],
                      pc |-> IF dtype[sid] = "SelfReport" THEN "srInit" ELSE "subnets",
                      ok |-> TRUE, scanned |-> 0, verdict |-> "none"]

\* handle_discovery_request: start_new_session rotates the token to the new
\* runner, which set_current_task makes the current task.  Nothing checks
\* whether a session is already running.
RotateToken(d) ==
    /\ token' = [token EXCEPT ![d] = Len(runners) + 1]
    /\ task' = [task EXCEPT ![d] = Len(runners) + 1]

-----------------------------------------------------------------------------
(* Coordinator: update_session under the `sessions` write lock.            *)

\* Mutant: the next session is taken from the back of the queue.
PromotedAfterLast(sid, ph) ==
    LET q == Remove(daemon_sessions[owner[sid]], sid)
    IN IF ph \in Terminal /\ q # <<>> /\ sessions[Last(q)] # Absent
       THEN Last(q) ELSE None

\* The session the terminal update of sid promotes to the head, or None.
PromotedAfter(sid, ph) ==
    LET q == Remove(daemon_sessions[owner[sid]], sid)
    IN IF ph \in Terminal /\ q # <<>> /\ sessions[Head(q)] # Absent
       THEN Head(q) ELSE None

\* Mutant: the promoted session is marked Starting, as spec 4.3 draws it.
UpdateSessionPromoteStarting(sid, ph, by) ==
    LET next == PromotedAfter(sid, ph)
    IN IF ph \in Terminal
       THEN /\ archived' = archived \cup {<<sid, ph>>}
            /\ daemon_sessions' = [daemon_sessions EXCEPT ![owner[sid]] = Remove(@, sid)]
            /\ sessions' = IF next = None THEN [sessions EXCEPT ![sid] = Absent]
                           ELSE [sessions EXCEPT ![sid] = Absent, ![next] = "Starting"]
            /\ dispatching' = IF next = None THEN dispatching
                              ELSE dispatching \cup {[sid |-> next, by |-> by]}
       ELSE /\ sessions' = [sessions EXCEPT ![sid] = ph]
            /\ UNCHANGED <<archived, daemon_sessions, dispatching>>

\* Overwrite the phase; a terminal phase archives the session, removes it
\* from its queue and the registry, resets the new head to Pending and
\* hands it to send_discovery_request (awaited on behalf of runner `by`).
UpdateSession(sid, ph, by) ==
    LET d    == owner[sid]
        next == PromotedAfter(sid, ph)
    IN IF ph \in Terminal
       THEN /\ archived' = archived \cup {<<sid, ph>>}
            /\ daemon_sessions' = [daemon_sessions EXCEPT ![d] = Remove(@, sid)]
            /\ sessions' = IF next = None THEN [sessions EXCEPT ![sid] = Absent]
                           ELSE [sessions EXCEPT ![sid] = Absent, ![next] = "Pending"]
            /\ dispatching' = IF next = None THEN dispatching
                              ELSE dispatching \cup {[sid |-> next, by |-> by]}
       ELSE /\ sessions' = [sessions EXCEPT ![sid] = ph]
            /\ UNCHANGED <<archived, daemon_sessions, dispatching>>

\* Move runner i to pc; reaching "finish" this way means an error, so the
\* discovery result becomes Err.
SetPc(i, pc) == runners' = [runners EXCEPT ![i].pc = pc, ![i].ok = @ /\ pc # "finish"]

\* DaemonDiscoveryService::get_session: the slot's session, or an error.
get_session(d) == current[d]

\* report_discovery_update from runner i: the id comes from current_session.
\* Outcomes: no session (get_session fails), request lost, "Session not
\* found", accepted, or accepted with the reply lost.  A terminal update
\* that promotes a next session replies only after that dispatch.
Report(i, ph, okPc, errPc) ==
    LET sid == get_session(runners[i].d)
    IN \/ /\ sid = None
          /\ SetPc(i, errPc) /\ UNCHANGED <<coord, failures>>
       \/ /\ sid # None /\ failures < MaxRpcFailures
          /\ failures' = failures + 1
          /\ SetPc(i, errPc) /\ UNCHANGED coord
       \/ /\ sid # None /\ sessions[sid] = Absent
          /\ SetPc(i, errPc) /\ UNCHANGED <<coord, failures>>
       \/ /\ sid # None /\ sessions[sid] # Absent
          /\ UpdateSession(sid, ph, i)
          /\ SetPc(i, IF PromotedAfter(sid, ph) = None THEN okPc ELSE "awaitReply")
          /\ UNCHANGED failures
       \/ /\ sid # None /\ sessions[sid] # Absent /\ failures < MaxRpcFailures
          /\ UpdateSession(sid, ph, 0)
          /\ failures' = failures + 1
          /\ SetPc(i, errPc)

-----------------------------------------------------------------------------
(* Coordinator handlers.                                                   *)

\* start_session, first lock scope: mint an id and insert it as Pending.
StartSession(s, d, ty) ==
    /\ startPc[s] = "idle"
    /\ OverlappingStarts \/ \A t \in Sessions : startPc[t] \notin {"inserted", "checked"}
    /\ sessions' = [sessions EXCEPT ![s] = "Pending"]
    /\ owner' = [owner EXCEPT ![s] = d]
    /\ dtype' = [dtype EXCEPT ![s] = ty]
    /\ startPc' = [startPc EXCEPT ![s] = "inserted"]
    /\ UNCHANGED <<daemon_sessions, wasRunning, dispatching, archived, cancelNet,
                   daemon, runners, failures>>

\* Second lock scope (read lock): is the daemon's queue non-empty?
StartCheck(s) ==
    /\ startPc[s] = "inserted"
    /\ wasRunning' = [wasRunning EXCEPT ![s] = daemon_sessions[owner[s]] # <<>>]
    /\ startPc' = [startPc EXCEPT ![s] = "checked"]
    /\ UNCHANGED <<sessions, owner, dtype, daemon_sessions, dispatching, archived,
                   cancelNet, daemon, runners, failures>>

\* Mutant: the session is pushed to the front of the queue.
StartPushFront(s) ==
    /\ startPc[s] = "checked"
    /\ daemon_sessions' = [daemon_sessions EXCEPT ![owner[s]] = <<s>> \o @]
    /\ dispatching' = IF wasRunning[s] THEN dispatching
                      ELSE dispatching \cup {[sid |-> s, by |-> 0]}
    /\ startPc' = [startPc EXCEPT ![s] = "done"]
    /\ UNCHANGED <<sessions, owner, dtype, wasRunning, archived, cancelNet, daemon,
                   runners, failures>>

\* Third lock scope (write lock): push, then dispatch if the check saw an
\* empty queue.  The dispatch result is not written anywhere.
StartPush(s) ==
    /\ startPc[s] = "checked"
    /\ daemon_sessions' = [daemon_sessions EXCEPT ![owner[s]] = Append(@, s)]
    /\ dispatching' = IF wasRunning[s] THEN dispatching
                      ELSE dispatching \cup {[sid |-> s, by |-> 0]}
    /\ startPc' = [startPc EXCEPT ![s] = "done"]
    /\ UNCHANGED <<sessions, owner, dtype, wasRunning, archived, cancelNet, daemon,
                   runners, failures>>

\* Mutant: the accepted dispatch stays pending and is sent again.
SendInitiateResent(m) ==
    /\ m \in dispatching
    /\ RotateToken(owner[m.sid])
    /\ runners' = Append(runners, NewRunner(owner[m.sid], m.sid))
    /\ UNCHANGED <<sessions, owner, dtype, daemon_sessions, startPc, wasRunning, dispatching,
                   archived, cancelNet, current, cancelled, failures>>

\* send_discovery_request reaching handle_discovery_request.  Outcomes:
\* accepted, lost before the daemon, or handled with the reply lost.  The
\* runner `by` waiting in update_session resumes with the outcome; after a
\* successful Failed report it cancels its own token.
SendInitiate(m) ==
    LET d == owner[m.sid]
        Resume(rs, ok) ==
            IF m.by = 0 THEN rs
            ELSE [rs EXCEPT ![m.by].pc = IF ok /\ rs[m.by].kind = "Network"
                                         THEN "clear" ELSE "exit"]
        SelfCancel(ok) ==
            IF m.by # 0 /\ ok /\ runners[m.by].verdict = "Failed"
            THEN {m.by} ELSE {}
    IN /\ m \in dispatching
       /\ dispatching' = dispatching \ {m}
       /\ \/ /\ RotateToken(d)
             /\ runners' = Resume(Append(runners, NewRunner(d, m.sid)), TRUE)
             /\ cancelled' = cancelled \cup SelfCancel(TRUE)
             /\ UNCHANGED failures
          \/ /\ failures < MaxRpcFailures
             /\ failures' = failures + 1
             /\ runners' = Resume(runners, FALSE)
             /\ UNCHANGED <<token, task, cancelled>>
          \/ /\ failures < MaxRpcFailures
             /\ failures' = failures + 1
             /\ RotateToken(d)
             /\ runners' = Resume(Append(runners, NewRunner(d, m.sid)), FALSE)
             /\ UNCHANGED cancelled
       /\ UNCHANGED <<sessions, owner, dtype, daemon_sessions, startPc, wasRunning,
                      archived, cancelNet, current>>

\* Mutant: the Pending branch forgets the queue's retain().
CancelSessionKeepQueued(s) ==
    /\ startPc[s] \in CancelFrom
    /\ \/ /\ sessions[s] = "Pending"
          /\ sessions' = [sessions EXCEPT ![s] = Absent]
          /\ UNCHANGED cancelNet
       \/ /\ sessions[s] \in {"Started", "Scanning"}
          /\ cancelNet' = cancelNet \cup {s}
          /\ UNCHANGED sessions
    /\ UNCHANGED <<owner, dtype, daemon_sessions, startPc, wasRunning, dispatching,
                   archived, daemon, runners, failures>>

\* cancel_session: the phase read by get_session decides.  Pending: drop the
\* session from the registry and the queue (the next one is not dispatched).
\* Started/Scanning: send the cancellation to the daemon.  Starting is never
\* set in src and terminal sessions are never in the registry.
CancelSession(s) ==
    /\ startPc[s] \in CancelFrom
    /\ \/ /\ sessions[s] = "Pending"
          /\ sessions' = [sessions EXCEPT ![s] = Absent]
          /\ daemon_sessions' = [daemon_sessions EXCEPT ![owner[s]] = Remove(@, s)]
          /\ UNCHANGED cancelNet
       \/ /\ sessions[s] \in {"Started", "Scanning"}
          /\ cancelNet' = cancelNet \cup {s}
          /\ UNCHANGED <<sessions, daemon_sessions>>
    /\ UNCHANGED <<owner, dtype, startPc, wasRunning, dispatching, archived, daemon,
                   runners, failures>>

\* handle_cancel_request: ignores the session id and cancels whatever token
\* is current, or answers 409 if no task is running.
HandleCancel(s) ==
    LET d == owner[s]
    IN /\ s \in cancelNet
       /\ cancelNet' = cancelNet \ {s}
       /\ cancelled' = IF is_discovery_running(d) THEN cancelled \cup {token[d]}
                       ELSE cancelled
       /\ UNCHANGED <<sessions, owner, dtype, daemon_sessions, startPc, wasRunning,
                      dispatching, archived, current, token, task, runners, failures>>

-----------------------------------------------------------------------------
(* Network runner (daemon/discovery/service/network.rs discover).  Runner   *)
(* steps leave the coordinator's handlers' locals alone.                    *)

others == <<owner, dtype, startPc, wasRunning, cancelNet>>

\* create_subnet: a POST to the server; a missing key, a lost request, an
\* error status or an unsuccessful body is an Err the caller propagates.
create_subnet(i, okPc, errPc) ==
    \/ SetPc(i, okPc) /\ UNCHANGED failures
    \/ failures < MaxRpcFailures /\ failures' = failures + 1 /\ SetPc(i, errPc)

\* create_host: a POST with the same error paths as create_subnet.
create_host(i, okPc, errPc) == create_subnet(i, okPc, errPc)

\* discover_create_subnets: HTTP creates; an error returns before anything
\* is reported, so the coordinator never hears of this session again.
CreateSubnets(i) ==
    /\ runners[i].pc = "subnets"
    /\ create_subnet(i, "init", "exit")
    /\ UNCHANGED <<coord, daemon, others>>

\* initialize_discovery_session: the request's id goes into current_session.
InitSession(i) ==
    /\ runners[i].pc = "init"
    /\ current' = [current EXCEPT ![runners[i].d] = runners[i].sid]
    /\ SetPc(i, "started")
    /\ UNCHANGED <<coord, token, task, cancelled, others, failures>>

\* start_discovery: report Started; an error ends discover() at once.
ReportStarted(i) ==
    /\ runners[i].pc = "started"
    /\ Report(i, "Started", "scan0", "exit")
    /\ UNCHANGED <<daemon, others>>

\* scan_and_process_hosts: report Scanning(0) before the stream starts.
ReportScanning(i) ==
    /\ runners[i].pc = "scan0"
    /\ Report(i, "Scanning", "loop", "finish")
    /\ UNCHANGED <<daemon, others>>

\* One result of the buffer_unordered stream: the loop ends when every IP
\* is scanned; otherwise a cancelled token or a critical error ends it with
\* Err, and any other result may or may not cross the report threshold
\* (periodic_scan_update; its get_session fails on an empty slot).
ScanStep(i) ==
    LET r == runners[i]
    IN /\ r.pc = "loop"
       /\ \/ /\ r.scanned = Hosts
             /\ runners' = [runners EXCEPT ![i].pc = "finish"]
          \/ /\ r.scanned < Hosts /\ i \in cancelled
             /\ runners' = [runners EXCEPT ![i].pc = "finish", ![i].ok = FALSE]
          \/ /\ r.scanned < Hosts /\ i \notin cancelled
             /\ \/ runners' = [runners EXCEPT ![i].pc = "finish", ![i].ok = FALSE]
                \/ runners' = [runners EXCEPT ![i].scanned = @ + 1, ![i].pc = "progress"]
                \/ /\ get_session(r.d) # None   \* get_session succeeds, threshold not met
                   /\ runners' = [runners EXCEPT ![i].scanned = @ + 1]
       /\ UNCHANGED <<coord, daemon, others, failures>>

\* periodic_scan_update: a progress report; its error aborts the scan.
ProgressUpdate(i) ==
    /\ runners[i].pc = "progress"
    /\ Report(i, "Scanning", "loop", "finish")
    /\ UNCHANGED <<daemon, others>>

\* finish_discovery, get_session and the choice of the terminal phase.
FinishDiscovery(i) ==
    LET r == runners[i]
        verdict == IF r.ok THEN "Complete"
                   ELSE IF i \in cancelled THEN "Cancelled" ELSE "Failed"
    IN /\ r.pc = "finish"
       /\ runners' = IF get_session(r.d) = None THEN [runners EXCEPT ![i].pc = "exit"]
                     ELSE [runners EXCEPT ![i].pc = "final", ![i].verdict = verdict]
       /\ UNCHANGED <<coord, daemon, others, failures>>

\* The terminal report; after it succeeds a Failed runner cancels its token.
FinalReport(i) ==
    /\ runners[i].pc = "final"
    /\ Report(i, runners[i].verdict, "clear", "exit")
    /\ cancelled' = IF runners[i].verdict = "Failed" /\ runners'[i].pc = "clear"
                    THEN cancelled \cup {i} ELSE cancelled
    /\ UNCHANGED <<current, token, task, others>>

\* finish_discovery clears current_session, whoever it belongs to now.
ClearSession(i) ==
    /\ runners[i].pc = "clear"
    /\ current' = [current EXCEPT ![runners[i].d] = None]
    /\ runners' = [runners EXCEPT ![i].pc = "exit"]
    /\ UNCHANGED <<coord, token, task, cancelled, others, failures>>

\* spawn_discovery's tail: clear_completed_task unless the token is cancelled.
RunnerExit(i) ==
    /\ runners[i].pc = "exit"
    /\ task' = IF i \in cancelled THEN task ELSE [task EXCEPT ![runners[i].d] = 0]
    /\ runners' = [runners EXCEPT ![i].pc = "done"]
    /\ UNCHANGED <<coord, current, token, cancelled, others, failures>>

-----------------------------------------------------------------------------
(* Self-report runner (daemon/discovery/service/self_report.rs discover).  *)
(* It never looks at its token, never reports Started or Scanning, and     *)
(* never clears current_session.                                           *)

\* discover, up to the first HTTP call: the daemon's ids from the config
\* store, then the request's id goes into current_session.
SelfReportInit(i) ==
    /\ runners[i].pc = "srInit"
    /\ current' = [current EXCEPT ![runners[i].d] = runners[i].sid]
    /\ SetPc(i, "srWork")
    /\ UNCHANGED <<coord, token, task, cancelled, others, failures>>

\* The own interfaces and subnets, then create_subnet for each one that is
\* not a Docker bridge (try_join_all).  From here on any error returns from
\* discover (`?`) with nothing reported, so the session stays Pending.
SelfReportSubnets(i) ==
    /\ runners[i].pc = "srWork"
    /\ create_subnet(i, "srCaps", "exit")
    /\ UNCHANGED <<coord, daemon, others>>

\* update_capabilities: a POST with the same error paths as create_subnet.
update_capabilities(i, okPc, errPc) == create_subnet(i, okPc, errPc)

\* The docker socket and update_capabilities.
SelfReportCapabilities(i) ==
    /\ runners[i].pc = "srCaps"
    /\ update_capabilities(i, "srHost", "exit")
    /\ UNCHANGED <<coord, daemon, others>>

\* The host and its daemon service, bound to the created subnets the daemon
\* listens on, sent with create_host.
SelfReportHost(i) ==
    /\ runners[i].pc = "srHost"
    /\ create_host(i, "srReport", "exit")
    /\ UNCHANGED <<coord, daemon, others>>

\* The only report: Complete, with processed_count 1; whatever its outcome
\* discover then returns.
SelfReportComplete(i) ==
    /\ runners[i].pc = "srReport"
    /\ Report(i, "Complete", "exit", "exit")
    /\ UNCHANGED <<daemon, others>>

RunnerStep(i) ==
    \/ CreateSubnets(i) \/ InitSession(i) \/ ReportStarted(i) \/ ReportScanning(i)
    \/ ScanStep(i) \/ ProgressUpdate(i) \/ FinishDiscovery(i) \/ FinalReport(i)
    \/ ClearSession(i) \/ RunnerExit(i)
    \/ SelfReportInit(i) \/ SelfReportSubnets(i) \/ SelfReportCapabilities(i)
    \/ SelfReportHost(i) \/ SelfReportComplete(i)

-----------------------------------------------------------------------------
Next ==
    \/ \E s \in Sessions, d \in Daemons, ty \in DiscoveryTypes : StartSession(s, d, ty)
    \/ \E s \in Sessions : StartCheck(s) \/ StartPush(s) \/ CancelSession(s)
                          \/ HandleCancel(s)
    \/ \E m \in dispatching : SendInitiate(m)
    \/ \E i \in 1..Len(runners) : RunnerStep(i)

\* Tokio tasks and HTTP handlers keep running once started; the user's
\* starts and cancels are not obliged to happen.
Fairness ==
    /\ \A s \in Sessions : WF_vars(StartCheck(s)) /\ WF_vars(StartPush(s))
                         /\ WF_vars(HandleCancel(s))
    /\ \A m \in [sid : Sessions, by : 0..MaxRunners] : WF_vars(SendInitiate(m))
    /\ \A i \in RunnerIds : WF_vars(i \in 1..Len(runners) /\ RunnerStep(i))

Spec == Init /\ [][Next]_vars /\ Fairness

-----------------------------------------------------------------------------
(* Properties.                                                             *)

\* Registry and queues agree: every queued id is live and queued once, and
\* every live session whose start_session has pushed it is in its daemon's
\* queue (start_session, update_session and cancel_session each edit both).
QueueRegistered ==
    /\ \A d \in Daemons :
          /\ IsInjective(daemon_sessions[d])
          /\ \A s \in Range(daemon_sessions[d]) : sessions[s] # Absent
    /\ \A s \in Sessions :
          startPc[s] = "done" /\ sessions[s] # Absent
            => s \in Range(daemon_sessions[owner[s]])

\* Sessions run in the order they were queued: whatever start_session or
\* update_session dispatches is, while it is still live, the head of its
\* daemon's queue.
FifoDispatch ==
    \A m \in dispatching :
        sessions[m.sid] # Absent =>
            /\ daemon_sessions[owner[m.sid]] # <<>>
            /\ m.sid = Head(daemon_sessions[owner[m.sid]])

\* No session is handed to a daemon twice: update_session's promotion of
\* the next head never re-dispatches a session already running.
NoSessionRunTwice ==
    \A i, j \in 1..Len(runners) : i # j => runners[i].sid # runners[j].sid

\* At most one runner per daemon holds or may still write current_session
\* (spec 4.3: at most one active session per agent).
SingleActiveSession ==
    \A d \in Daemons :
        Cardinality({i \in 1..Len(runners) :
                       runners[i].d = d /\ runners[i].pc \notin {"subnets", "srInit", "exit", "done"}}) <= 1

\* Every report a runner is about to send (report_discovery_update reads
\* current_session) carries the id of the session that runner was started for.
ReportsOwnSession ==
    \A i \in 1..Len(runners) :
        runners[i].pc \in {"started", "scan0", "progress", "final", "srReport"}
            => current[runners[i].d] = runners[i].sid

\* The head of every non-empty queue is being served: a dispatch for it is
\* under way or a runner started for it has not yet given up.  Otherwise
\* nothing in update_session or start_session will ever dispatch the queue.
QueueHeadServed ==
    \A d \in Daemons :
        daemon_sessions[d] # <<>> =>
            LET h == Head(daemon_sessions[d])
            IN \/ \E m \in dispatching : m.sid = h
               \/ \E i \in 1..Len(runners) :
                     runners[i].sid = h /\ runners[i].pc \notin {"exit", "done"}

HandedOver == {m.sid : m \in dispatching} \cup {runners[i].sid : i \in 1..Len(runners)}

QueueSpec == INSTANCE SessionQueue WITH queue <- daemon_sessions, sent <- HandedOver

\* start_session, update_session and cancel_session together behave as the
\* abstract queue: sessions join at the back, leave from anywhere, and only
\* a session joining an empty queue or the new head after a leave is
\* dispatched (checked with serial starts).
ImplementsSessionQueue == QueueSpec!Spec

=============================================================================
