------------------------------ MODULE HostSearch ------------------------------
(***************************************************************************)
(* cq_start_grep with host_async: a job runs ripgrep and collects its      *)
(* lines, cq_fetch_result takes snapshots of the job while it runs, and a  *)
(* snapshot with more than a page of hits goes into the page store, from   *)
(* which the other pages are fetched by handle.  The job's task, the       *)
(* snapshots and the other calls share one event loop and wait for locks,  *)
(* lines and the process.                                                  *)
(*                                                                         *)
(* A job finds a number of matches; one line may be longer than the limit  *)
(* of the stream reader (64 KiB), which raises.  Hits are counted;          *)
(* snapshot_seq and pages_completed, which only count, are left out.       *)
(***************************************************************************)
EXTENDS Integers, FiniteSets, Sequences

CONSTANTS
    Jobs, None,
    MaxJobs,        \* CQDS_HOST_GREP_MAX_JOBS
    MaxResults,     \* max_results of a job
    PageSize,       \* max_returned_items: hits in an answer
    Retain,         \* CQDS_HOST_GREP_JOB_RETAIN_SEC
    MaxHandles,     \* CQDS_MCP_PAGE_MAX_HANDLES
    Ttl, TtlAfterComplete,   \* of a handle
    MaxMatches, MaxNow, MaxSnapshots   \* bounds of the model

VARIABLES
    table,      \* _jobs: the jobs that can be asked for
    job,        \* the jobs, whether in the table or not
    store,      \* ResultPageStore._data; handles number the order of storing
    now,        \* time.monotonic
    told,       \* history: what the last complete snapshot of a job said
    handles,    \* history: the handles given, in order, with their end
    snapshots   \* snapshots so far

vars == <<table, job, store, now, told, handles, snapshots>>

\* matches: lines with a match that ripgrep has still to print; of: all; silent:
\* history, the engine met an error that the job does not tell.
NoJob == [pc |-> "none", of |-> 0, matches |-> 0, long |-> FALSE, hits |-> 0, complete |-> FALSE,
          truncated |-> FALSE, error |-> FALSE, at |-> None, rc |-> None, silent |-> FALSE]

Init ==
    /\ table = {} /\ job = [j \in Jobs |-> NoJob] /\ store = {}
    /\ now = 0 /\ told = [j \in Jobs |-> None] /\ handles = <<>> /\ snapshots = 0

Is(j, pc) == job[j].pc = pc
Set(j, record) == job' = [job EXCEPT ![j] = record]

(***************************************************************************)
(* A job                                                                   *)
(***************************************************************************)
\* start_host_grep_job; finished jobs count until a snapshot takes them out.
StartJob(j, n, long) ==
    /\ Is(j, "none") /\ Cardinality(table) < MaxJobs
    /\ table' = table \cup {j}
    /\ Set(j, [NoJob EXCEPT !.pc = "start", !.of = n, !.matches = n, !.long = long])
    /\ UNCHANGED <<store, now, told, handles, snapshots>>

Completed(record) == [record EXCEPT !.complete = TRUE, !.at = now]

\* No such directory, or the fallback in Python: an error, or its hits at once, which
\* are those of the files that can be read.
RunAtOnce(j) ==
    /\ Is(j, "start")
    /\ \/ Set(j, [Completed(job[j]) EXCEPT !.pc = "end", !.error = TRUE])
       \/ \E n \in 0..job[j].of :
             Set(j, [Completed(job[j]) EXCEPT !.pc = "end",
                        !.hits = IF n > MaxResults THEN MaxResults ELSE n,
                        !.truncated = n >= MaxResults, !.silent = n < job[j].of])
    /\ UNCHANGED <<table, store, now, told, handles, snapshots>>

\* create_subprocess_exec may raise (a NUL in the query, no descriptors, a program that
\* cannot be run): only the finally clause meets it.
RunRipgrep(j) ==
    /\ Is(j, "start")
    /\ \/ Set(j, [job[j] EXCEPT !.pc = "pump"])
       \/ Set(j, [job[j] EXCEPT !.pc = "finally", !.silent = TRUE])
    /\ UNCHANGED <<table, store, now, told, handles, snapshots>>

\* Mutant: the pump goes on after the limit.
AfterLimit_pumps(record) == [record EXCEPT !.pc = "pump", !.rc = "killed"]

AfterLimit(record) == [record EXCEPT !.pc = "wait", !.rc = "killed"]

\* A match: a hit, and at max_results the end of the job, whose process is killed.
Hit(j) ==
    /\ Is(j, "pump") /\ job[j].matches > 0
    /\ LET next == [job[j] EXCEPT !.hits = job[j].hits + 1, !.matches = job[j].matches - 1] IN
       Set(j, IF next.hits < MaxResults THEN next
              ELSE AfterLimit([Completed(next) EXCEPT !.truncated = TRUE]))
    /\ UNCHANGED <<table, store, now, told, handles, snapshots>>

\* The end of the output, with exit code 0 or 1; with 2, before all matches
\* perhaps (a bad pattern, an unreadable file); or with that of a signal.
Eof(j) ==
    /\ Is(j, "pump")
    /\ \E rc \in {"ok", "two", "killed"} :
          /\ rc = "ok" => job[j].matches = 0 /\ ~job[j].long
          /\ Set(j, [job[j] EXCEPT !.pc = "wait", !.rc = rc, !.silent = (rc = "two")])
    /\ UNCHANGED <<table, store, now, told, handles, snapshots>>

\* A line over the limit of the stream: readline raises ValueError, which only
\* the finally clause meets; the process stays.
LongLine(j) ==
    /\ Is(j, "pump") /\ job[j].long
    /\ Set(j, [job[j] EXCEPT !.pc = "finally", !.silent = TRUE])
    /\ UNCHANGED <<table, store, now, told, handles, snapshots>>

\* Another code than 0, 1, 2 is an error, that of the kill above included.
Waited(j) ==
    /\ Is(j, "wait")
    /\ Set(j, [job[j] EXCEPT !.pc = "finally", !.error = job[j].error \/ job[j].rc = "killed"])
    /\ UNCHANGED <<table, store, now, told, handles, snapshots>>

\* Mutant: the time-out is only logged.
TimedOut_silent(record) == [record EXCEPT !.pc = "finally"]

TimedOut(record) == [record EXCEPT !.pc = "finally", !.error = TRUE]

JobTimeout(j) ==
    /\ job[j].pc \in {"pump", "wait"}
    /\ Set(j, TimedOut(job[j]))
    /\ UNCHANGED <<table, store, now, told, handles, snapshots>>

\* The finally clause; _mark_job_failed after it finds the job complete.
Finally(j) ==
    /\ Is(j, "finally")
    /\ Set(j, [(IF job[j].complete THEN job[j] ELSE Completed(job[j])) EXCEPT !.pc = "end"])
    /\ UNCHANGED <<table, store, now, told, handles, snapshots>>

(***************************************************************************)
(* Snapshots and pages                                                     *)
(***************************************************************************)
EndOf(e) == IF e.deadline # None THEN e.deadline ELSE e.created + Ttl + 1
\* _purge_unlocked: a deadline reached, or an age over the TTL.
Purged(s) == {e \in s : now < EndOf(e)}

\* Mutant: the newest makes room.
Room_newest(s) ==
    IF Cardinality(s) < MaxHandles THEN s
    ELSE {e \in s : Cardinality({f \in s : f.handle < e.handle}) < MaxHandles - 1}

\* The oldest make room.
Newer(s, e) == {f \in s : f.handle > e.handle}
Room(s) == {e \in s : Cardinality(Newer(s, e)) < MaxHandles - 1}

\* finalize_smart_grep_response: more hits than a page go to the store.
Finalize(hits, complete) ==
    IF hits <= PageSize THEN UNCHANGED <<store, handles>>
    ELSE LET e == [handle |-> Len(handles) + 1, items |-> hits, created |-> now,
                   deadline |-> IF complete THEN now + TtlAfterComplete ELSE None] IN
         /\ store' = Room(Purged(store)) \cup {e}
         /\ handles' = Append(handles, EndOf(e))

\* take_host_grep_snapshot, and the answer of cq_fetch_result.
Snapshot(j) ==
    /\ j \in table /\ snapshots < MaxSnapshots
    /\ ~(job[j].complete /\ now - job[j].at > Retain)
    /\ snapshots' = snapshots + 1
    /\ told' = IF job[j].complete
                  THEN [told EXCEPT ![j] = [hits |-> job[j].hits, truncated |-> job[j].truncated]]
                  ELSE told
    /\ Finalize(job[j].hits, job[j].complete)
    /\ UNCHANGED <<table, job, now>>

\* A snapshot past the retention takes the job out.
SnapshotExpired(j) ==
    /\ j \in table
    /\ job[j].complete /\ now - job[j].at > Retain
    /\ table' = table \ {j}
    /\ UNCHANGED <<job, store, now, told, handles, snapshots>>

\* get_page, whose purge is all it changes.
GetPage ==
    /\ store' = Purged(store) /\ store' # store
    /\ UNCHANGED <<table, job, now, told, handles, snapshots>>

Tick ==
    /\ now < MaxNow
    /\ now' = now + 1
    /\ UNCHANGED <<table, job, store, told, handles, snapshots>>

Next ==
    \/ \E j \in Jobs :
        \/ \E n \in 0..MaxMatches : \E long \in BOOLEAN : StartJob(j, n, long)
        \/ RunAtOnce(j) \/ RunRipgrep(j) \/ Hit(j) \/ Eof(j) \/ LongLine(j)
        \/ Waited(j) \/ JobTimeout(j) \/ Finally(j)
        \/ Snapshot(j) \/ SnapshotExpired(j)
    \/ GetPage \/ Tick

Spec == Init /\ [][Next]_vars

(***************************************************************************)
(* Properties                                                              *)
(***************************************************************************)
\* What a complete snapshot said of the hits stays true: the pump, its
\* time-out, the kill and the finally clause add and take nothing after it.
FinalIsFinal ==
    \A j \in Jobs : told[j] # None =>
        told[j].hits = job[j].hits /\ told[j].truncated = job[j].truncated

\* A complete job that reports neither truncation nor an error has all matches, in
\* whatever order time-outs, the kill and the end of the output come, unless the
\* engine met an error that the code does not tell: ripgrep could not be started
\* (cqds_host_grep_jobs.py:224, 305-308), ended with code 2 (288) or printed a line
\* over the limit of the reader (240), or the fallback could not read a file
\* (cqds_smart_grep_host.py:148-149).
CompleteTellsAll ==
    \A j \in Jobs : job[j].complete /\ ~job[j].truncated /\ ~job[j].error =>
        job[j].hits = job[j].of \/ job[j].silent

\* A handle lives until its end, unless MaxHandles were given after it
\* (every snapshot of a running job gives one).
HandleKept ==
    \A h \in DOMAIN handles :
        \/ \E e \in store : e.handle = h
        \/ now >= handles[h]
        \/ Len(handles) - h >= MaxHandles
-----------------------------------------------------------------------------
(***************************************************************************)
(* The inductive invariant behind FinalIsFinal, CompleteTellsAll and       *)
(* HandleKept (ClientsProofs)                                              *)
(***************************************************************************)

Records ==
    [pc : {"none", "start", "pump", "wait", "finally", "end"}, of : Nat, matches : Nat,
     long : BOOLEAN, hits : Nat, complete : BOOLEAN, truncated : BOOLEAN, error : BOOLEAN,
     at : Nat \cup {None}, rc : {None, "ok", "two", "killed"}, silent : BOOLEAN]
JobOK(r) ==
    /\ r \in Records
    /\ r.pc \in {"none", "start", "pump"} => ~r.complete /\ ~r.truncated /\ r.hits + r.matches = r.of
    /\ r.pc = "wait" => (r.complete => r.truncated)
    /\ r.pc = "wait" => r.rc = "killed" \/ r.hits = r.of \/ r.silent
    /\ r.pc \in {"finally", "end"} => r.truncated \/ r.error \/ r.hits = r.of \/ r.silent
JobsOK ==
    /\ DOMAIN job = Jobs /\ DOMAIN told = Jobs /\ now \in Nat
    /\ \A j \in Jobs :
          JobOK(job[j]) /\ (told[j] # None => job[j].complete)
    /\ FinalIsFinal

\* An entry is that of its handle.
EntryOK(e, ends) ==
    /\ e \in [handle : Nat, items : Nat, created : Nat, deadline : Nat \cup {None}]
    /\ e.handle \in DOMAIN ends /\ ends[e.handle] = EndOf(e)
StoreOK ==
    /\ handles \in Seq(Nat)
    /\ \A e \in store : EntryOK(e, handles)
    /\ \A e, f \in store : e.handle = f.handle => e = f
    /\ HandleKept

IInv == JobsOK /\ StoreOK
=============================================================================
