------------------------------ MODULE MaintPool ------------------------------
(***************************************************************************)
(* The maintenance job pool: the table maint_pool_jobs                     *)
(* (agent/lib/maint_pool.py) and the worker processes that take jobs from  *)
(* it (maint_pool_worker_main in agent/scripts/core_maint_loop.py).        *)
(*                                                                         *)
(* A job row is inserted 'queued', taken by one worker ('running' with a   *)
(* lease), and ends 'done' or 'error'.  A running row whose lease is over  *)
(* is put back to 'queued' by the next claim.  The statements of the       *)
(* claim transaction run under READ COMMITTED: the rows its first UPDATE   *)
(* touched stay locked until it commits.                                   *)
(*                                                                         *)
(* lease_expires_at is kept as the time left: Tick counts it down, and -1  *)
(* means "lease_expires_at < now".                                         *)
(***************************************************************************)
EXTENDS Integers, FiniteSets, TLC

CONSTANTS
    Workers,          \* worker processes
    Projects,         \* project ids
    NoWorker,         \* SQL NULL in worker_id
    MaxJobs,          \* bound: job rows ever inserted
    LeaseLen,         \* lease length in ticks (CORE_MAINT_POOL_LEASE_SEC)
    MaxFaults,        \* bound: crashes, restarts and database errors
    TimelyHeartbeat   \* TRUE: a live worker reaches its next heartbeat, or the
                      \* end of its job, before the lease is over

ASSUME PoolAssumption ==
    /\ NoWorker \notin Workers
    /\ MaxJobs \in Nat
    /\ MaxFaults \in Nat
    /\ LeaseLen \in Nat
    /\ TimelyHeartbeat \in BOOLEAN

VARIABLES
    jobs,      \* the table: job id -> row
    inserted,  \* number of rows; ids are handed out in order
    txn,       \* the open claim transaction of each worker
    proc,      \* program state of each worker
    faults     \* faults so far

vars == <<jobs, inserted, txn, proc, faults>>

JobIds == 1..inserted
Kinds == {"reconcile_tick", "code_index"}
Statuses == {"queued", "running", "done", "error"}
NoLease == -2          \* SQL NULL in lease_expires_at
NoJob == 0

Row == [project : Projects, kind : Kinds, status : Statuses,
        worker : Workers \cup {NoWorker}, lease : NoLease..LeaseLen]

Phases == {"idle", "claiming", "claimed", "running", "failing", "dead"}

NoTxn == [expired |-> {}, pick |-> NoJob]

\* The phases in which a worker acts on behalf of the job it claimed.
Busy == {"claimed", "running", "failing"}

priority(k) == IF k = "code_index" THEN 10 ELSE 0

Status(j) == jobs[j].status
Active(j) == Status(j) \in {"queued", "running"}
\* Mutants of Expired: an off-by-one in "lease_expires_at < :now", and a claim
\* without its first UPDATE.
Expired_early(j) == Status(j) = "running" /\ jobs[j].lease \in {-1, 0}
Expired_never(j) == FALSE

Expired(j) == Status(j) = "running" /\ jobs[j].lease = -1

\* Rows updated by a claim transaction that has not committed yet.
Locked(j) == \E w \in Workers : j \in txn[w].expired

(***************************************************************************)
(* enqueue_maint_job: INSERT; the partial unique index on project_id turns *)
(* it into the answer 'duplicate', with no effect, when the project has an *)
(* active job.  enqueue_reconcile_tick_jobs is one such call per project.  *)
(***************************************************************************)
ActiveProjects == {jobs[j].project : j \in {i \in JobIds : Active(i)}}

Enqueue(p, k) ==
    /\ inserted < MaxJobs
    /\ p \notin ActiveProjects
    /\ inserted' = inserted + 1
    /\ jobs' = [j \in 1..(inserted + 1) |->
                  IF j \in JobIds THEN jobs[j]
                  ELSE [project |-> p, kind |-> k, status |-> "queued",
                        worker |-> NoWorker, lease |-> NoLease]]
    /\ UNCHANGED <<txn, proc, faults>>

(***************************************************************************)
(* claim_next_job.  Requeue(E) is the table after the first UPDATE.        *)
(***************************************************************************)
Requeue(E) == [j \in JobIds |->
                 IF j \in E
                 THEN [jobs[j] EXCEPT !.status = "queued",
                                      !.worker = NoWorker, !.lease = NoLease]
                 ELSE jobs[j]]

\* The SELECT: queued rows whose project has no running row.
Candidates(tbl) ==
    {j \in JobIds :
        /\ tbl[j].status = "queued"
        /\ \A i \in JobIds : tbl[i].status = "running" => tbl[i].project # tbl[j].project}

\* ORDER BY priority DESC, job_id ASC
Before(tbl, i, j) == \/ priority(tbl[i].kind) > priority(tbl[j].kind)
                     \/ priority(tbl[i].kind) = priority(tbl[j].kind) /\ i <= j

ClaimSelect(w) ==
    LET E == {j \in JobIds : Expired(j)}
        tbl == Requeue(E)
    IN /\ proc[w].phase = "idle"
       /\ \A j \in E : ~Locked(j)
       /\ \E j \in Candidates(tbl) :
            /\ \A i \in Candidates(tbl) : Before(tbl, j, i)
            /\ txn' = [txn EXCEPT ![w] = [expired |-> E, pick |-> j]]
       /\ proc' = [proc EXCEPT ![w].phase = "claiming"]
       /\ UNCHANGED <<jobs, inserted, faults>>

\* Mutant: the last UPDATE lacks "AND status = 'queued'".
ClaimCommit_unguarded(w) ==
    LET j == txn[w].pick IN
    /\ proc[w].phase = "claiming"
    /\ \A v \in Workers \ {w} : j \notin txn[v].expired
    /\ jobs' = [Requeue(txn[w].expired) EXCEPT ![j].status = "running",
                                    ![j].worker = w, ![j].lease = LeaseLen]
    /\ proc' = [proc EXCEPT ![w] = [phase |-> "claimed", job |-> j]]
    /\ txn' = [txn EXCEPT ![w] = NoTxn]
    /\ UNCHANGED <<inserted, faults>>

\* UPDATE ... WHERE job_id = :jid AND status = 'queued', then COMMIT.  When
\* another worker took the row first, rowcount is 0 and the claim returns None.
ClaimCommit(w) ==
    LET E == txn[w].expired
        j == txn[w].pick
        tbl == Requeue(E)
    IN /\ proc[w].phase = "claiming"
       /\ \A v \in Workers \ {w} : j \notin txn[v].expired
       /\ \/ /\ tbl[j].status = "queued"
             /\ jobs' = [tbl EXCEPT ![j].status = "running",
                                    ![j].worker = w, ![j].lease = LeaseLen]
             /\ proc' = [proc EXCEPT ![w] = [phase |-> "claimed", job |-> j]]
          \/ /\ tbl[j].status # "queued"
             /\ jobs' = tbl
             /\ proc' = [proc EXCEPT ![w].phase = "idle"]
       /\ txn' = [txn EXCEPT ![w] = NoTxn]
       /\ UNCHANGED <<inserted, faults>>

Fault == /\ faults < MaxFaults
         /\ faults' = faults + 1

\* A database error rolls the claim back; the outer handler swallows it.
ClaimAbort(w) ==
    /\ proc[w].phase = "claiming"
    /\ Fault
    /\ txn' = [txn EXCEPT ![w] = NoTxn]
    /\ proc' = [proc EXCEPT ![w].phase = "idle"]
    /\ UNCHANGED <<jobs, inserted>>

(***************************************************************************)
(* maint_pool_worker_main, from the claimed job on.                        *)
(***************************************************************************)
Goto(w, ph) == proc' = [proc EXCEPT ![w].phase = ph]

\* Forget the job and go back to the top of the loop.
ToIdle(w) == proc' = [proc EXCEPT ![w] = [phase |-> "idle", job |-> NoJob]]

\* The project row is read: there is one, or it is missing (fail_job follows).
Lookup(w) ==
    /\ proc[w].phase = "claimed"
    /\ Goto(w, "running") \/ Goto(w, "failing")
    /\ UNCHANGED <<jobs, inserted, txn, faults>>

\* _cb: touch_job_lease, WHERE job_id AND status = 'running'; no worker_id.
Heartbeat(w) ==
    LET j == proc[w].job IN
    /\ proc[w].phase = "running"
    /\ ~Locked(j)
    /\ Status(j) = "running"
    /\ jobs' = [jobs EXCEPT ![j].lease = LeaseLen]
    /\ UNCHANGED <<inserted, txn, proc, faults>>

\* The job's body returned: complete_job, WHERE job_id only.
Complete(w) ==
    LET j == proc[w].job IN
    /\ proc[w].phase = "running"
    /\ ~Locked(j)
    /\ jobs' = [jobs EXCEPT ![j].status = "done", ![j].lease = NoLease]
    /\ ToIdle(w)
    /\ UNCHANGED <<inserted, txn, faults>>

\* The body, a heartbeat or complete_job raised: the inner handler runs.
Raise(w) ==
    /\ proc[w].phase = "running"
    /\ Fault
    /\ Goto(w, "failing")
    /\ UNCHANGED <<jobs, inserted, txn>>

\* Mutant: a retry in place of 'error'.
Fail_retries(w) ==
    LET j == proc[w].job IN
    /\ proc[w].phase = "failing"
    /\ ~Locked(j)
    /\ jobs' = [jobs EXCEPT ![j].status = "queued", ![j].lease = NoLease]
    /\ ToIdle(w)
    /\ UNCHANGED <<inserted, txn, faults>>

\* fail_job, WHERE job_id only.
Fail(w) ==
    LET j == proc[w].job IN
    /\ proc[w].phase = "failing"
    /\ ~Locked(j)
    /\ jobs' = [jobs EXCEPT ![j].status = "error", ![j].lease = NoLease]
    /\ ToIdle(w)
    /\ UNCHANGED <<inserted, txn, faults>>

\* The project lookup or fail_job itself raised: the outer handler swallows
\* it and the row stays 'running' until its lease is over.
Abandon(w) ==
    /\ proc[w].phase \in {"claimed", "failing"}
    /\ Fault
    /\ ToIdle(w)
    /\ UNCHANGED <<jobs, inserted, txn>>

\* A worker process dies; _spawn_pool_workers runs once, nobody respawns it.
Crash(w) ==
    /\ proc[w].phase # "dead"
    /\ Fault
    /\ txn' = [txn EXCEPT ![w] = NoTxn]
    /\ proc' = [proc EXCEPT ![w] = [phase |-> "dead", job |-> NoJob]]
    /\ UNCHANGED <<jobs, inserted>>

\* Mutant: a new orchestrator requeues every running row and leaves the
\* workers of the old one alone.
Restart_requeues ==
    /\ Fault
    /\ jobs' = Requeue({j \in JobIds : Status(j) = "running"})
    /\ UNCHANGED <<inserted, txn, proc>>

\* The orchestrator goes down with its workers (_shutdown_pool_workers) and a
\* new one spawns a full set (_spawn_pool_workers).  The table stays.
Restart ==
    /\ Fault
    /\ txn' = [w \in Workers |-> NoTxn]
    /\ proc' = [w \in Workers |-> [phase |-> "idle", job |-> NoJob]]
    /\ UNCHANGED <<jobs, inserted>>

\* Time passes for every lease.
Timely == \A w \in Workers : proc[w].phase \in Busy => jobs[proc[w].job].lease > 0

Tick ==
    /\ TimelyHeartbeat => Timely
    /\ \E j \in JobIds : jobs[j].lease > -1
    /\ jobs' = [j \in JobIds |->
                  [jobs[j] EXCEPT !.lease = IF @ > -1 THEN @ - 1 ELSE @]]
    /\ UNCHANGED <<inserted, txn, proc, faults>>

Init ==
    /\ jobs = << >>
    /\ inserted = 0
    /\ txn = [w \in Workers |-> NoTxn]
    /\ proc = [w \in Workers |-> [phase |-> "idle", job |-> NoJob]]
    /\ faults = 0

Step(w) == \/ ClaimSelect(w) \/ ClaimCommit(w)
           \/ Lookup(w) \/ Complete(w) \/ Fail(w)

Next ==
    \/ \E p \in Projects, k \in Kinds : Enqueue(p, k)
    \/ \E w \in Workers : ClaimSelect(w)
    \/ \E w \in Workers : ClaimCommit(w)
    \/ \E w \in Workers : ClaimAbort(w)
    \/ \E w \in Workers : Lookup(w)
    \/ \E w \in Workers : Heartbeat(w)
    \/ \E w \in Workers : Complete(w)
    \/ \E w \in Workers : Raise(w)
    \/ \E w \in Workers : Fail(w)
    \/ \E w \in Workers : Abandon(w)
    \/ \E w \in Workers : Crash(w)
    \/ Restart
    \/ Tick

Spec == Init /\ [][Next]_vars

\* A live worker keeps going round its loop and time passes; nothing obliges
\* anyone to enqueue, to crash or to restart.
FairSpec == Spec /\ WF_vars(Tick) /\ \A w \in Workers : WF_vars(Step(w))
-----------------------------------------------------------------------------
TypeOK ==
    /\ inserted \in 0..MaxJobs
    /\ jobs \in [JobIds -> Row]
    /\ txn \in [Workers -> [expired : SUBSET JobIds, pick : {NoJob} \cup JobIds]]
    /\ proc \in [Workers -> [phase : Phases, job : {NoJob} \cup JobIds]]
    /\ faults \in 0..MaxFaults

\* No project ever has two active rows: no claim, requeue or late answer
\* brings a finished row back next to a newer one (maint_pool.py:1 and the
\* unique index, lines 88-97, which would make such a statement fail).
OneActivePerProject ==
    \A i, j \in JobIds :
        Active(i) /\ Active(j) /\ jobs[i].project = jobs[j].project => i = j

\* A row holds a lease exactly while it is running: a running row with a NULL
\* lease would never be requeued and would block its project for good
\* (claim_next_job skips lease_expires_at IS NULL, maint_pool.py:194).
LeaseIffRunning ==
    \A j \in JobIds : Status(j) = "running" <=> jobs[j].lease # NoLease

\* Two workers never act on the same project at the same time
\* (claim_next_job, maint_pool.py:183).
ProjectExclusion ==
    \A v, w \in Workers :
        /\ proc[v].phase \in Busy
        /\ proc[w].phase \in Busy
        /\ jobs[proc[v].job].project = jobs[proc[w].job].project
        => v = w

\* A row goes queued -> running -> done or error, with running -> queued as
\* the only way back; done and error are final, and only a running row
\* finishes (docs/CORE_BACKGROUND_WORKERS.md:37).
StatusLifecycle ==
    [][\A j \in JobIds : jobs'[j].status # Status(j) =>
          \/ Status(j) = "queued" /\ jobs'[j].status = "running"
          \/ Status(j) = "running" /\ jobs'[j].status \in {"queued", "done", "error"}
      ]_vars

\* A job is never lost: queued or running, it is done or failed in the end,
\* whoever crashed meanwhile, unless no worker process is left.
JobsEnd ==
    \A j \in 1..MaxJobs :
        (j \in JobIds) ~> \/ j \in JobIds /\ ~Active(j)
                          \/ \A w \in Workers : proc[w].phase = "dead"

(***************************************************************************)
(* The pool implements one slot per project (module ProjectSlots).         *)
(***************************************************************************)
slotOf == [p \in Projects |->
             IF \E j \in JobIds : jobs[j].project = p /\ Status(j) = "running" THEN "held"
             ELSE IF p \in ActiveProjects THEN "waiting"
             ELSE "free"]

executingOf == [w \in Workers |->
                  IF proc[w].phase \in Busy THEN {jobs[proc[w].job].project} ELSE {}]

Slots == INSTANCE ProjectSlots WITH slot <- slotOf, executing <- executingOf

\* Every step of the pool is a step of the slots or leaves them alone.
ImplementsSlots == Slots!Spec

\* Workers, and projects, are alike.
Symmetry == Permutations(Workers) \cup Permutations(Projects)
=============================================================================
