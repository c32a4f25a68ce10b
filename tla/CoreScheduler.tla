----------------------------- MODULE CoreScheduler -----------------------------
(***************************************************************************)
(* managers/core_scheduler.py: cron jobs of the core, one row of           *)
(* scheduled_job_runs for each run.  The nightly dump and the nightly      *)
(* restart of the core have the same default hour; every statement is a    *)
(* transaction of its own, and the coroutine of a run waits between them.  *)
(* Nothing looks at the rows of runs that were cut short.                  *)
(*                                                                         *)
(* Time passes in hours that some job's cron names; APScheduler keeps its  *)
(* jobs in memory, runs one instance of each (max_instances) and lets      *)
(* fall what was due while the core was down.                              *)
(***************************************************************************)
EXTENDS Integers, Sequences, FiniteSets

CONSTANTS
    CronJobs,        \* rows of scheduled_jobs
    Restarting,      \* those of kind core_graceful_restart
    None,
    MissAfter,       \* miss_after_sec, in hours
    MaxRuns, MaxHour, MaxLost   \* bounds of the model

VARIABLES
    enabled,    \* scheduled_jobs.enabled
    registered, \* jobs of the APScheduler since the start of the core
    up,         \* whether the core runs
    deaf,       \* its handler of SIGTERM was replaced: see CoreStatus
    hour,       \* hours since the start
    due,        \* registered jobs whose hour has come and that APScheduler has not started
    runs,       \* scheduled_job_runs: job, status, time of the end
    coroutine,  \* _run_job of each job
    warned,     \* SCHEDULER_MISS was logged at the last check for these
    cut,        \* history: runs whose coroutine was stopped, or whose last statement failed
    losses      \* stops and failures so far

tables == <<enabled, runs>>
vars == <<enabled, registered, up, deaf, hour, due, runs, coroutine, warned, cut, losses>>

Asleep == [pc |-> "none", run |-> None, status |-> None]

Init ==
    /\ enabled \in SUBSET CronJobs \ {{}} /\ registered = enabled
    /\ up = TRUE /\ deaf = FALSE /\ hour = 0 /\ due = {}
    /\ runs = <<>>
    /\ coroutine = [j \in CronJobs |-> Asleep]
    /\ warned = {} /\ cut = {} /\ losses = 0

Loss == losses < MaxLost /\ losses' = losses + 1
At(j, pc) == up /\ coroutine[j].pc = pc
Go(j, record) == coroutine' = [coroutine EXCEPT ![j] = record]

\* The hour of all crons comes; a job that still runs is skipped with a warning.
Hour ==
    /\ hour < MaxHour
    /\ hour' = hour + 1
    /\ due' = IF up THEN {j \in registered : coroutine[j].pc = "none"} ELSE {}
    /\ UNCHANGED <<tables, registered, up, deaf, coroutine, warned, cut, losses>>

\* _run_job reads its row: it may have been switched off since the start.
Start(j) ==
    /\ up /\ j \in due /\ Len(runs) < MaxRuns
    /\ due' = due \ {j}
    /\ IF j \in enabled THEN Go(j, [Asleep EXCEPT !.pc = "insert"]) ELSE UNCHANGED coroutine
    /\ UNCHANGED <<tables, registered, up, deaf, hour, warned, cut, losses>>

\* The row; a restart has its success written before it happens.
InsertRunStart(j) ==
    /\ At(j, "insert")
    /\ runs' = Append(runs, [job |-> j, status |-> "running", at |-> None])
    /\ Go(j, [pc |-> IF j \in Restarting THEN "finish" ELSE "dispatch",
              run |-> Len(runs) + 1, status |-> IF j \in Restarting THEN "success" ELSE None])
    /\ UNCHANGED <<enabled, registered, up, deaf, hour, due, warned, cut, losses>>

\* The process ends with 0 or not, cannot be started, or is of no known kind.
Dispatch(j) ==
    /\ At(j, "dispatch")
    /\ \E status \in {"success", "failed"} :
          Go(j, [coroutine[j] EXCEPT !.pc = "finish", !.status = status])
    /\ UNCHANGED <<tables, registered, up, deaf, hour, due, warned, cut, losses>>

\* Mutant: a failed run gets no end.
Finished_success(run, status) ==
    IF status = "success" THEN [run EXCEPT !.status = status, !.at = hour] ELSE run

Finished(run, status) == [run EXCEPT !.status = status, !.at = hour]

InsertRunFinish(j) ==
    /\ At(j, "finish")
    /\ runs' = [runs EXCEPT ![coroutine[j].run] = Finished(@, coroutine[j].status)]
    /\ Go(j, IF j \in Restarting THEN [coroutine[j] EXCEPT !.pc = "kill"] ELSE Asleep)
    /\ UNCHANGED <<enabled, registered, up, deaf, hour, due, warned, cut, losses>>

\* The database fails: the exception ends the coroutine.
StatementFails(j) ==
    /\ coroutine[j].pc \in {"insert", "finish"} /\ up /\ Loss
    /\ cut' = IF coroutine[j].pc = "finish" THEN cut \cup {coroutine[j].run} ELSE cut
    /\ Go(j, Asleep)
    /\ UNCHANGED <<tables, registered, up, deaf, hour, due, warned>>

\* The core stops, with all its coroutines: SIGTERM to itself, or any other end.
Stopped ==
    /\ up' = FALSE /\ deaf' = FALSE /\ due' = {} /\ registered' = {}
    /\ cut' = cut \cup {coroutine[j].run : j \in {i \in CronJobs : coroutine[i].pc \in {"dispatch", "finish"}}}
    /\ coroutine' = [j \in CronJobs |-> Asleep]

\* GET /core/status imports server.py, which runs as __main__, a second time: its
\* top level puts handle_shutdown in the place of uvicorn's handler of SIGTERM.
CoreStatus ==
    /\ up /\ ~deaf
    /\ deaf' = TRUE
    /\ UNCHANGED <<tables, registered, up, hour, due, coroutine, warned, cut, losses>>

\* handle_shutdown sets an event that nobody waits for, and the core runs on.
Kill(j) ==
    /\ At(j, "kill")
    /\ IF deaf THEN Go(j, Asleep) /\ UNCHANGED <<registered, up, deaf, due, cut>> ELSE Stopped
    /\ UNCHANGED <<tables, hour, warned, losses>>

Stop ==
    /\ up /\ Loss
    /\ Stopped
    /\ UNCHANGED <<tables, hour, warned>>

\* Docker starts it again: start, reload_from_db.
Boot ==
    /\ ~up
    /\ up' = TRUE /\ registered' = enabled
    /\ UNCHANGED <<tables, deaf, hour, due, coroutine, warned, cut, losses>>

\* Somebody switches a job on or off; the running scheduler is not told.
Switch(j) ==
    /\ Loss
    /\ enabled' = IF j \in enabled THEN enabled \ {j} ELSE enabled \cup {j}
    /\ UNCHANGED <<registered, up, deaf, hour, due, runs, coroutine, warned, cut>>

LastSuccess(j) ==
    LET ok == {runs[k].at : k \in {i \in DOMAIN runs : runs[i].job = j /\ runs[i].status = "success"}} IN
    IF ok = {} THEN 0 ELSE CHOOSE t \in ok : \A u \in ok : u <= t

\* _miss_check_sync: since the last success, or since the job was made.
MissCheck ==
    /\ up
    /\ warned' = {j \in enabled : hour - LastSuccess(j) > MissAfter}
    /\ warned' # warned
    /\ UNCHANGED <<tables, registered, up, deaf, hour, due, coroutine, cut, losses>>

Next ==
    \/ Hour \/ Stop \/ Boot \/ MissCheck \/ CoreStatus
    \/ \E j \in CronJobs :
        Start(j) \/ InsertRunStart(j) \/ Dispatch(j) \/ InsertRunFinish(j)
        \/ StatementFails(j) \/ Kill(j) \/ Switch(j)

Spec == Init /\ [][Next]_vars

(***************************************************************************)
(* Properties                                                              *)
(***************************************************************************)
\* A row says running only while its run goes on, or for good after the core
\* was stopped in the middle of it (the nightly restart stops the dump of the
\* same hour) or its last statement failed; and one run of a job goes on at a time.
RunningExplained ==
    \A k \in DOMAIN runs : runs[k].status = "running" =>
        \/ \E j \in CronJobs : coroutine[j].run = k
        \/ k \in cut
-----------------------------------------------------------------------------
(***************************************************************************)
(* The inductive invariant behind RunningExplained (CoreProofs)            *)
(***************************************************************************)
TypeOK ==
    /\ enabled \subseteq CronJobs /\ registered \subseteq CronJobs /\ due \subseteq CronJobs
    /\ up \in BOOLEAN /\ deaf \in BOOLEAN /\ hour \in Nat
    /\ runs \in Seq([job : CronJobs, status : {"running", "success", "failed"}, at : Nat \cup {None}])
    /\ coroutine \in [CronJobs -> [pc : {"none", "insert", "dispatch", "finish", "kill"},
                                   run : Nat \cup {None}, status : {None, "success", "failed"}]]

\* APScheduler starts one instance of a job.
DueAsleep == \A j \in due : coroutine[j].pc = "none"

\* A run under way has its row, and knows how it ended before it says so.
RunsHaveRows ==
    \A j \in CronJobs :
        /\ coroutine[j].pc \in {"dispatch", "finish"} => coroutine[j].run \in DOMAIN runs
        /\ coroutine[j].pc = "finish" => coroutine[j].status \in {"success", "failed"}

\* A row says running while the coroutine of its run is before its last
\* statement, or because it never got there.
RunningGoesOn ==
    \A k \in DOMAIN runs : runs[k].status = "running" =>
        \/ \E j \in CronJobs : coroutine[j].run = k /\ coroutine[j].pc \in {"dispatch", "finish"}
        \/ k \in cut

IInv == TypeOK /\ DueAsleep /\ RunsHaveRows /\ RunningGoesOn
=============================================================================
