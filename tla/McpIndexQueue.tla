---------------------------- MODULE McpIndexQueue ----------------------------
(***************************************************************************)
(* The queue of index rebuilds that an MCP process keeps for itself when   *)
(* the pool of the core does not take them: index_queue, index_jobs and    *)
(* the worker of mcp-tools/cqds_mcp_full.py (cqds_mcp_mini.py has the      *)
(* same), and the tools cq_rebuild_index and cq_get_code_index of          *)
(* cqds_files.py.  All run on one event loop and interleave where they     *)
(* wait for the core.                                                      *)
(*                                                                         *)
(* A record of index_jobs is a dictionary: a tool call puts a new one in   *)
(* its place, the worker changes the one it took.                          *)
(***************************************************************************)
EXTENDS Integers, Sequences, SequencesExt

CONSTANTS
    Projects,   \* project ids
    Calls,      \* tool calls
    None,       \* no project
    MaxRecords  \* bound: records made

VARIABLES
    index_queue,  \* project ids in order
    index_jobs,   \* the record of each project: its number and its status
    worker,       \* the project and the record number of the rebuild that runs
    calls,        \* what each call waits for
    made          \* records made so far

vars == <<index_queue, index_jobs, worker, calls, made>>

NoRecord == [id |-> 0, status |-> "idle"]
Free == [project |-> None, id |-> 0]
NoCall == [pc |-> "none", project |-> None]
Busy(status) == status \in {"queued", "running"}

\* index_jobs[project_id] = {...}
NewRecord(p, status) ==
    /\ made < MaxRecords
    /\ made' = made + 1
    /\ index_jobs' = [index_jobs EXCEPT ![p] = [id |-> made', status |-> status]]

Ends(c) == calls' = [calls EXCEPT ![c] = NoCall]

(***************************************************************************)
(* The tools.                                                              *)
(***************************************************************************)
\* background: nothing more while the project is queued or running; otherwise
\* the index that the core has is asked for.
Background(c, p) ==
    /\ calls[c] = NoCall
    /\ ~Busy(index_jobs[p].status)
    /\ calls' = [calls EXCEPT ![c] = [pc |-> "get_index", project |-> p]]
    /\ UNCHANGED <<index_queue, index_jobs, worker, made>>

\* cache_only, and a rebuild that the call itself waits for.
Direct(c, p) ==
    /\ calls[c] = NoCall
    /\ calls' = [calls EXCEPT ![c] = [pc |-> "get_code_index", project |-> p]]
    /\ UNCHANGED <<index_queue, index_jobs, worker, made>>

\* The core answers with an index: the record says ready, whatever it said before.
Answered(c) ==
    /\ calls[c] # NoCall
    /\ NewRecord(calls[c].project, "ready")
    /\ Ends(c)
    /\ UNCHANGED <<index_queue, worker>>

\* 404: no index yet.  The record was looked at before the wait.
Missing(c) ==
    /\ calls[c].pc = "get_index"
    /\ NewRecord(calls[c].project, "queued")
    /\ index_queue' = Append(index_queue, calls[c].project)
    /\ Ends(c)
    /\ UNCHANGED worker

\* Any other error, or the timeout of the client.
CallFails(c) ==
    /\ calls[c] # NoCall
    /\ Ends(c)
    /\ UNCHANGED <<index_queue, index_jobs, worker, made>>

(***************************************************************************)
(* The worker.                                                             *)
(***************************************************************************)
Take ==
    /\ worker = Free /\ index_queue # <<>>
    /\ LET p == Head(index_queue)
       IN  /\ index_jobs' = [index_jobs EXCEPT ![p] = [index_jobs[p] EXCEPT !.status = "running"]]
           /\ worker' = [project |-> p, id |-> index_jobs[p].id]
    /\ index_queue' = Tail(index_queue)
    /\ UNCHANGED <<calls, made>>

\* job.update: a record that was replaced is out of sight.
Update(p, id, status) ==
    index_jobs' = IF index_jobs[p].id = id
                  THEN [index_jobs EXCEPT ![p] = [index_jobs[p] EXCEPT !.status = status]]
                  ELSE index_jobs

\* Mutant: an exception leaves the record as it is.
Outcomes_unset == {"ready", "running"}
Outcomes == {"ready", "error"}

\* The rebuild ends: get_code_index returned or raised.
Done ==
    /\ worker # Free
    /\ \E status \in Outcomes : Update(worker.project, worker.id, status)
    /\ worker' = Free
    /\ UNCHANGED <<index_queue, calls, made>>
-----------------------------------------------------------------------------
Init ==
    /\ index_queue = <<>>
    /\ index_jobs = [p \in Projects |-> NoRecord]
    /\ worker = Free
    /\ calls = [c \in Calls |-> NoCall]
    /\ made = 0

Next ==
    \/ \E c \in Calls : \/ \E p \in Projects : Background(c, p) \/ Direct(c, p)
                        \/ Answered(c) \/ Missing(c) \/ CallFails(c)
    \/ Take \/ Done

Spec == Init /\ [][Next]_vars
-----------------------------------------------------------------------------
\* A record that says queued has its project in the queue, and one that says
\* running is the one the worker has: no status waits for nothing, though calls
\* that looked before they waited put their records over others
\* (cqds_files.py:549-586, cqds_mcp_full.py:70-121).
RecordIsTrue ==
    \A p \in Projects :
        /\ index_jobs[p].status = "queued" => p \in ToSet(index_queue)
        /\ index_jobs[p].status = "running" => worker = [project |-> p, id |-> index_jobs[p].id]
-----------------------------------------------------------------------------
(***************************************************************************)
(* The inductive invariant behind RecordIsTrue (ClientsProofs)           *)
(***************************************************************************)

Statuses == {"idle", "queued", "running", "ready", "error"}
TypeOK ==
    /\ index_queue \in Seq(Projects)
    /\ index_jobs \in [Projects -> [id : Nat, status : Statuses]]
    /\ worker = Free \/ worker \in [project : Projects, id : Nat]
    /\ calls \in [Calls -> {NoCall} \cup [pc : {"get_index", "get_code_index"}, project : Projects]]
    /\ made \in Nat

IInv == TypeOK /\ RecordIsTrue
=============================================================================
