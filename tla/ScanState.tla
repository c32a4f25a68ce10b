------------------------------- MODULE ScanState ------------------------------
(***************************************************************************)
(* The scan state of one project: who may scan it, which scan is running,  *)
(* and whether what is known of its files is stale.  Background scans, and *)
(* those of the code index, walk in threads, the others on the event loop; *)
(* each of them, and each change of a file, reads the state, changes it    *)
(* and puts it back.  agent/routes/project_routes.py, agent/server.py,     *)
(* agent/managers/project.py, files.py.                                    *)
(*                                                                         *)
(* The store holds a dict; a dict that was read is changed in place, and   *)
(* stays the one in the store unless a scan ended and put a new one there. *)
(***************************************************************************)
EXTENDS Integers, Sequences, FiniteSets

CONSTANTS
    Tasks,     \* background scans
    Nobody,
    MaxScans,  \* bound: scans on the event loop, and in the thread pool
    MaxMarks,  \* bound: marks of changed files
    MaxFaults  \* bound: scans that fail, or find no directory

VARIABLES
    dicts,   \* the dicts made so far
    store,   \* project_scan_state[project_id]: which of them
    tasks,   \* _run_project_scan_refresh: its place
    threads, \* the threads of the scans: their place, and the dict they hold
    loop,    \* who holds the event loop, and the dict it puts back next
    unseen,  \* history: a file was marked since the last scan ended
    lost,    \* history: a dict was put back over one that a scan had put there
    outlived, \* history: a task ended while a scan of the thread pool held a dict of its time
    spent

vars == <<dicts, store, tasks, threads, loop, unseen, lost, outlived, spent>>

Free == [by |-> Nobody, dict |-> 0]
NoThread == [pc |-> "none", dict |-> 0]
Spend(what, max) == spent[what] < max /\ spent' = [spent EXCEPT ![what] = @ + 1]
State == dicts[store]
Walkers == Tasks \cup {"loop", "pool"}
TaskUnderWay == \E t \in Tasks : tasks[t] \in {"scheduled", "scanning"}

\* update() of the dict read, before it is put back
Updated(d) == dicts' = [dicts EXCEPT ![store] = d]
Put(i) == store' = i /\ lost' = (lost \/ i # store)

(***************************************************************************)
(* The event loop.                                                         *)
(***************************************************************************)
\* POST /project/scan_refresh, in the background: refused while a scan is running.
scan_refresh(t) ==
    /\ loop = Free /\ ~ State.running
    /\ tasks[t] = "none"
    /\ tasks' = [tasks EXCEPT ![t] = "scheduled"]
    /\ Updated([State EXCEPT !.running = TRUE, !.error = FALSE])
    /\ loop' = [by |-> t, dict |-> store]
    /\ UNCHANGED <<store, threads, unseen, lost, outlived, spent>>

\* POST /project/create asks nothing.
scan_after_create(t) ==
    /\ loop = Free
    /\ \A u \in Tasks : tasks[u] = "none"
    /\ tasks' = [tasks EXCEPT ![t] = "scheduled"]
    /\ UNCHANGED <<dicts, store, threads, loop, unseen, lost, outlived, spent>>

\* _run_project_scan_refresh begins.
Start(t) ==
    /\ loop = Free /\ tasks[t] = "scheduled"
    /\ tasks' = [tasks EXCEPT ![t] = "scanning"]
    /\ Updated([State EXCEPT !.running = TRUE, !.error = FALSE])
    /\ loop' = [by |-> t, dict |-> store]
    /\ UNCHANGED <<store, threads, unseen, lost, outlived, spent>>

PutBack ==
    /\ loop.dict # 0
    /\ Put(loop.dict)
    /\ threads' = IF loop.by \in Tasks /\ tasks[loop.by] = "scanning"
                  THEN [threads EXCEPT ![loop.by].pc = "started"] ELSE threads
    /\ loop' = Free
    /\ UNCHANGED <<dicts, tasks, unseen, outlived, spent>>

\* Mutant: a scan that failed stays running.
Ended_running(d, failed) == IF failed THEN [d EXCEPT !.error = TRUE, !.stale = TRUE]
                            ELSE [d EXCEPT !.running = FALSE, !.error = FALSE]

\* The dict after a background scan
Ended(d, failed) == IF failed THEN [d EXCEPT !.running = FALSE, !.error = TRUE, !.stale = TRUE]
                    ELSE [d EXCEPT !.running = FALSE, !.error = FALSE]

\* A scan of the pool is about to put back an older dict that says running.
PoolHoldsRunning ==
    threads["pool"].dict \notin {0, store} /\ dicts[threads["pool"].dict].running

\* _run_project_scan_refresh ends.
End(t) ==
    /\ loop = Free /\ threads[t].pc \in {"ended", "failed"}
    /\ tasks' = [tasks EXCEPT ![t] = "done"]
    /\ threads' = [threads EXCEPT ![t] = NoThread]
    /\ Updated(Ended(State, threads[t].pc = "failed"))
    /\ loop' = [by |-> t, dict |-> store]
    /\ outlived' = (outlived \/ PoolHoldsRunning)
    /\ UNCHANGED <<store, unseen, lost, spent>>

\* A scan on the loop, which no other request runs on meanwhile: scan_refresh without
\* a task (refused while a scan is running), or for a search, an attached directory.
LoopScan(for) ==
    /\ loop = Free /\ Spend("scans", MaxScans)
    /\ for = "refresh" => ~ State.running
    /\ loop' = [by |-> for, dict |-> 0]
    /\ threads' = [threads EXCEPT !["loop"].pc = "started"]
    /\ UNCHANGED <<dicts, store, tasks, unseen, lost, outlived>>

LoopScanEnds ==
    /\ threads["loop"].pc \in {"ended", "failed"}
    /\ threads' = [threads EXCEPT !["loop"] = NoThread]
    /\ IF loop.by = "refresh" /\ threads["loop"].pc = "ended"
       THEN /\ Updated([State EXCEPT !.running = FALSE, !.error = FALSE])
            /\ loop' = [by |-> "put", dict |-> store]
       ELSE loop' = Free /\ UNCHANGED dicts
    /\ UNCHANGED <<store, tasks, unseen, lost, outlived, spent>>

\* GET /project/code_index, and the scan after the core's start: in a thread of the
\* pool, beside whatever scans there are, without asking or setting running.
PoolScan ==
    /\ threads["pool"] = NoThread /\ Spend("pool", MaxScans)
    /\ threads' = [threads EXCEPT !["pool"].pc = "started"]
    /\ UNCHANGED <<dicts, store, tasks, loop, unseen, lost, outlived>>

PoolScanEnds ==
    /\ threads["pool"].pc \in {"ended", "failed"}
    /\ threads' = [threads EXCEPT !["pool"] = NoThread]
    /\ UNCHANGED <<dicts, store, tasks, loop, unseen, lost, outlived, spent>>

\* Mutant: no mark while a scan is running.
Stale_idle(d) == [d EXCEPT !.stale = @ \/ ~ d.running]

\* mark_scan_stale
Stale(d) == [d EXCEPT !.stale = TRUE]

\* A file is changed by a request or a post.
FileChanged ==
    /\ loop = Free /\ Spend("marks", MaxMarks)
    /\ Updated(Stale(State))
    /\ unseen' = TRUE
    /\ loop' = [by |-> "put", dict |-> store]
    /\ UNCHANGED <<store, tasks, threads, lost, outlived>>

(***************************************************************************)
(* scan_project_files, in whatever thread                                  *)
(***************************************************************************)
Fails(a) ==
    /\ threads[a].pc = "started" /\ Spend("faults", MaxFaults)
    /\ \E pc \in {"failed", "ended"} : threads' = [threads EXCEPT ![a].pc = pc]   \* raised; no directory
    /\ UNCHANGED <<dicts, store, tasks, loop, unseen, lost, outlived>>

\* A file that was not linked is linked, and marks the state of its own scan stale.
Found(a) ==
    /\ threads[a].pc \in {"started", "walking"} /\ Spend("marks", MaxMarks)
    /\ Updated(Stale(State))
    /\ unseen' = TRUE
    /\ threads' = [threads EXCEPT ![a] = [pc |-> "marking", dict |-> store]]
    /\ UNCHANGED <<store, tasks, loop, lost, outlived>>

Marked(a) ==
    /\ threads[a].pc = "marking"
    /\ Put(threads[a].dict)
    /\ threads' = [threads EXCEPT ![a] = [pc |-> "walking", dict |-> 0]]
    /\ UNCHANGED <<dicts, tasks, loop, unseen, outlived, spent>>

\* The walk is over: a new dict, which knows of no other scan.
mark_scan_fresh(a) ==
    /\ threads[a].pc \in {"started", "walking"}
    /\ dicts' = Append(dicts, [running |-> FALSE, stale |-> FALSE, error |-> FALSE])
    /\ store' = Len(dicts) + 1
    /\ unseen' = FALSE
    /\ threads' = [threads EXCEPT ![a].pc = "ended"]
    /\ UNCHANGED <<tasks, loop, lost, outlived, spent>>

Init ==
    /\ dicts = <<[running |-> FALSE, stale |-> TRUE, error |-> FALSE]>> /\ store = 1
    /\ tasks = [t \in Tasks |-> "none"]
    /\ threads = [a \in Walkers |-> NoThread]
    /\ loop = Free /\ unseen = FALSE /\ lost = FALSE /\ outlived = FALSE
    /\ spent = [w \in {"scans", "pool", "marks", "faults"} |-> 0]

Next ==
    \/ PutBack \/ LoopScan("refresh") \/ LoopScan("other") \/ LoopScanEnds \/ FileChanged
    \/ PoolScan \/ PoolScanEnds
    \/ \E t \in Tasks : scan_refresh(t) \/ scan_after_create(t) \/ Start(t) \/ End(t)
    \/ \E a \in Walkers : Fails(a) \/ Found(a) \/ Marked(a) \/ mark_scan_fresh(a)

Spec == Init /\ [][Next]_vars

\* The scan's part of GET /project/status: the worst of its problems
Problems(d) ==
    (IF d.running THEN {"info"} ELSE {}) \cup (IF d.error THEN {"error"} ELSE IF d.stale THEN {"warning"} ELSE {})

(***************************************************************************)
(* A state that says a scan is running, and so refuses every other, is     *)
(* never left behind: a task is scheduled or under way that will clear it, *)
(* however scans overlap, fail and put back old dicts, unless a scan of    *)
(* the thread pool, which sets no running, held an older dict when a task  *)
(* ended (project_routes.py:716-747, 1041-1081, 1180; project.py:222-255). *)
(***************************************************************************)
RunningWillEnd == State.running => TaskUnderWay \/ outlived

(***************************************************************************)
(* A project without a problem has no file that was marked after its last  *)
(* scan ended, unless a dict was put back over a newer one                 *)
(* (project.py:222-255, project_routes.py:604-714).                        *)
(***************************************************************************)
OkMeansSeen ==
    Problems(State) = {} /\ loop = Free /\ (\A a \in DOMAIN threads : threads[a].pc # "marking") /\ ~ lost => ~ unseen
-----------------------------------------------------------------------------
(***************************************************************************)
(* The inductive invariant behind RunningWillEnd and OkMeansSeen           *)
(* (ProjectsProofs)                                                        *)
(***************************************************************************)
Places == {"none", "started", "walking", "marking", "ended", "failed"}

TypeOK ==
    /\ dicts \in Seq([running : BOOLEAN, stale : BOOLEAN, error : BOOLEAN])
    /\ store \in DOMAIN dicts
    /\ tasks \in [Tasks -> {"none", "scheduled", "scanning", "done"}]
    /\ threads \in [Walkers -> [pc : Places, dict : Nat]]
    /\ loop \in [by : Tasks \cup {Nobody, "refresh", "other", "put"}, dict : Nat]
    /\ unseen \in BOOLEAN /\ lost \in BOOLEAN /\ outlived \in BOOLEAN

\* Who holds a dict holds one that was made.
HeldDicts ==
    /\ loop.dict # 0 => loop.dict \in DOMAIN dicts
    /\ \A a \in Walkers : IF threads[a].pc = "marking" THEN threads[a].dict \in DOMAIN dicts
                                                    ELSE threads[a].dict = 0

\* A thread walks for a task that is scanning; a scan on the event loop holds it.
ThreadsHaveScans ==
    /\ \A t \in Tasks : threads[t].pc # "none" => tasks[t] = "scanning"
    /\ threads["loop"].pc # "none" => loop.by \in {"refresh", "other"} /\ loop.dict = 0
    /\ loop.by \in Tasks /\ tasks[loop.by] = "scanning" => loop.dict # 0 /\ threads[loop.by] = NoThread

\* Every dict that is in the store, or can be put back, and says running does so
\* for a task that has not ended, unless the pool's dict outlived one.
RunningHasTask ==
    ~ outlived =>
        /\ State.running => TaskUnderWay
        /\ loop.dict # 0 /\ dicts[loop.dict].running => TaskUnderWay
        /\ \A a \in Walkers : threads[a].dict # 0 /\ dicts[threads[a].dict].running => TaskUnderWay

UnseenIsStale == unseen /\ ~ lost => State.stale

IInv == TypeOK /\ HeldDicts /\ ThreadsHaveScans /\ RunningHasTask /\ UnseenIsStale
=============================================================================
