------------------------------ MODULE CodeIndex ------------------------------
(***************************************************************************)
(* The code index of one project: the rows of attached_files, the cache    *)
(* file <project>_index.jsl, and the builders that read it, merge into it  *)
(* and write it back (_build_project_index_sync in                         *)
(* agent/routes/project_routes.py): the pool worker's code_index job and   *)
(* the synchronous GET /project/code_index.  Nothing but the row in        *)
(* maint_pool_jobs keeps builders apart, and the GETs ignore it.           *)
(*                                                                         *)
(* A file stands for its row's id: a name that comes back after            *)
(* remove_file is another id, so another file here.  Contents are          *)
(* numbered; times are whole seconds, and two writes may share one.        *)
(* 0 is "no file", "no row", "no lines", "no time".                        *)
(***************************************************************************)
EXTENDS Integers, FiniteSets

CONSTANTS
    Files,          \* files of the project that the packer can index
    Linked,         \* those that have a row at the start
    Builders,       \* concurrent calls of _build_project_index_sync
    Worker,         \* the builder that runs the pool's code_index job
    MaxStamp,       \* bound: writes of files
    MaxSecond,      \* bound: seconds the writes go by
    MaxRev,         \* CORE_INDEX_INCREMENTAL_MAX_REVISION
    MaxCrashes,     \* bound: processes killed in the middle of a build
    Missing,        \* there is no cache file
    Torn            \* a cache file that is not JSON

ASSUME IndexAssumption ==
    /\ Linked \subseteq Files
    /\ MaxStamp \in Nat \ {0}
    /\ MaxSecond \in Nat \ {0}
    /\ MaxRev \in Nat \ {0}
    /\ MaxCrashes \in Nat
    /\ Missing # Torn

VARIABLES
    disk,     \* content of each file
    sec,      \* the second it goes by: its mtime, or the time update_file was given
    ts,       \* attached_files.ts
    code,     \* the FA_CODE_FILE bit of attached_files.file_attr
    saving,   \* the time update_file has still to write into the row
    stamp,    \* writes so far
    dated,    \* history: the seconds the contents of a file have gone by
    twice,    \* history: those that two saves of the file went by
    cache,    \* the cache file
    build,    \* program state of each builder
    job,      \* the project's code_index row: "none", "queued" or "running"
    crashes   \* crashes so far

content == <<disk, sec, stamp, dated, twice>>
fileVars == <<disk, sec, ts, code, saving, stamp, dated, twice>>
vars == <<disk, sec, ts, code, saving, stamp, dated, twice, cache, build, job, crashes>>

Stamps == 0..MaxStamp
Seconds == 0..MaxSecond
Index == [idx : [Files -> Stamps], fp : [Files -> Seconds], rev : 0..MaxRev]
NoIndex == [idx |-> [f \in Files |-> 0], fp |-> [f \in Files |-> 0], rev |-> 0]

Places == {"off", "scan", "read", "list", "pack", "clear", "set", "open", "write", "done"}
Idle == [pc |-> "off", full |-> FALSE, cached |-> NoIndex,
         entries |-> NoIndex.fp, out |-> NoIndex, alone |-> TRUE]

(***************************************************************************)
(* Files.                                                                  *)
(***************************************************************************)
OnDisk(f) == ts[f] # 0 /\ disk[f] # 0

\* A save of f that goes by second t: the present one or, when the caller took
\* the time and then waited for the file's lock, an earlier one.
Date(f, t) ==
    /\ stamp < MaxStamp
    /\ stamp' = stamp + 1
    /\ sec' = [sec EXCEPT ![f] = t]
    /\ dated' = [dated EXCEPT ![f] = @ \cup {t}]
    /\ twice' = IF t \in dated[f] THEN [twice EXCEPT ![f] = @ \cup {t}] ELSE twice

\* Give f a content of its own.
Put(f, t) == Date(f, t) /\ disk' = [disk EXCEPT ![f] = stamp + 1]

\* update_file, under the file's lock: the content first, unless it is empty ...
Edit(f) ==
    /\ OnDisk(f) /\ saving[f] = 0
    /\ \E t \in 1..MaxSecond :
          /\ Put(f, t) \/ (Date(f, t) /\ UNCHANGED disk)
          /\ saving' = [saving EXCEPT ![f] = t]
    /\ UNCHANGED <<ts, code, cache, build, job, crashes>>

\* ... then the row, with the time the call was given or else the mtime.
SaveRow(f) ==
    /\ saving[f] # 0
    /\ \E t \in {saving[f], sec[f]} : ts' = [ts EXCEPT ![f] = t]
    /\ saving' = [saving EXCEPT ![f] = 0]
    /\ UNCHANGED <<content, code, cache, build, job, crashes>>

\* Someone else writes a file that has a row: an editor, git, a shell command,
\* or an update_file that fails after its write.
EditOutside(f) ==
    /\ OnDisk(f)
    /\ \E t \in 1..MaxSecond : Put(f, t)
    /\ UNCHANGED <<ts, code, saving, cache, build, job, crashes>>

\* A new file appears on disk.
Create(f) ==
    /\ dated[f] = {}
    /\ \E t \in 1..MaxSecond : Put(f, t)
    /\ UNCHANGED <<ts, code, saving, cache, build, job, crashes>>

\* add_file without a row: _add_link, flagged as a probable code file.
AddLinks(S) ==
    /\ ts' = [f \in Files |-> IF f \in S THEN sec[f] ELSE ts[f]]
    /\ code' = [f \in Files |-> code[f] \/ f \in S]

Unlinked == {f \in Files : disk[f] # 0 /\ ts[f] = 0}

Attach(f) ==
    /\ f \in Unlinked
    /\ AddLinks({f})
    /\ UNCHANGED <<content, saving, cache, build, job, crashes>>

\* remove_file: the file, then its row.
Remove(f) ==
    /\ OnDisk(f) /\ saving[f] = 0
    /\ disk' = [disk EXCEPT ![f] = 0]
    /\ sec' = [sec EXCEPT ![f] = 0]
    /\ ts' = [ts EXCEPT ![f] = 0]
    /\ code' = [code EXCEPT ![f] = FALSE]
    /\ UNCHANGED <<saving, stamp, dated, twice, cache, build, job, crashes>>

(***************************************************************************)
(* Builders.                                                               *)
(***************************************************************************)
At(b, pc) == build[b].pc = pc
Goto(b, pc) == build' = [build EXCEPT ![b].pc = pc]

\* The call is over, with or without an index; the worker's row is finished.
Leave(b) ==
    /\ build' = [build EXCEPT ![b] = Idle]
    /\ job' = IF b = Worker THEN "none" ELSE job

Start(b) ==
    /\ At(b, "off")
    /\ IF b = Worker THEN job = "queued" /\ job' = "running" ELSE UNCHANGED job
    /\ Goto(b, "scan")
    /\ UNCHANGED <<fileVars, cache, crashes>>

\* scan_project_files links the files it meets before its time is up.  The
\* worker then probes the cache, outside any try: json.loads raises.
Scan(b) ==
    /\ At(b, "scan")
    /\ \E S \in SUBSET Unlinked : AddLinks(S)
    /\ IF b = Worker /\ cache = Torn THEN Leave(b)
       ELSE Goto(b, "read") /\ UNCHANGED job
    /\ UNCHANGED <<content, saving, cache, crashes>>

need_fingerprint_seed(c) == \A f \in Files : c.fp[f] = 0
should_force_full(c) == c.rev >= MaxRev

Read(b) ==
    /\ At(b, "read")
    /\ \/ cache = Torn /\ Leave(b)
       \/ /\ cache # Torn
          /\ IF cache = Missing \/ need_fingerprint_seed(cache) \/ should_force_full(cache)
             THEN build' = [build EXCEPT ![b].pc = "list", ![b].full = TRUE]
             ELSE build' = [build EXCEPT ![b].pc = "list", ![b].cached = cache]
          /\ UNCHANGED job
    /\ UNCHANGED <<fileVars, cache, crashes>>

\* file_index(code_only=True): linked code files that exist, with their ts.
file_index == [f \in Files |-> IF OnDisk(f) /\ code[f] THEN ts[f] ELSE 0]

\* compute_dirty
\* Mutant: only new files are dirty.
Dirty_newOnly(c, entries) == {f \in Files : entries[f] # 0 /\ c.fp[f] = 0}
Dirty(c, entries) == {f \in Files : entries[f] # 0 /\ c.fp[f] # entries[f]}
Removed(c, entries) == {f \in Files : c.fp[f] # 0 /\ entries[f] = 0}

List(b) ==
    LET c == build[b].cached
        unchanged == /\ ~build[b].full
                     /\ Dirty(c, file_index) = {}
                     /\ Removed(c, file_index) = {}
    IN /\ At(b, "list")
       /\ \/ /\ \A f \in Files : file_index[f] = 0
             /\ Leave(b)                      \* 404, No files in project
          \/ /\ \E f \in Files : file_index[f] # 0
             /\ build' = [build EXCEPT ![b] =
                            IF unchanged THEN [Idle EXCEPT !.pc = "open", !.out = c]
                            ELSE [@ EXCEPT !.pc = "pack", !.entries = file_index]]
             /\ UNCHANGED job
       /\ UNCHANGED <<fileVars, cache, crashes>>

\* Lines of every file in S that is still there.
FullIndex(entries) ==
    [idx |-> [f \in Files |-> IF entries[f] # 0 /\ OnDisk(f) THEN disk[f] ELSE 0],
     fp |-> entries, rev |-> 0]

\* Mutant: the rows are listed again for the fingerprints.
merge_index_relists(c, entries) ==
    [idx |-> [f \in Files |-> IF f \in Dirty(c, entries) THEN disk[f]
                              ELSE IF f \in Removed(c, entries) THEN 0
                              ELSE c.idx[f]],
     fp |-> file_index, rev |-> c.rev + 1]

merge_index(c, entries) ==
    [idx |-> [f \in Files |-> IF f \in Dirty(c, entries) THEN disk[f]
                              ELSE IF f \in Removed(c, entries) THEN 0
                              ELSE c.idx[f]],
     fp |-> entries, rev |-> c.rev + 1]

\* assemble_files and pack: the contents are read now, after the rows.
Pack(b) ==
    LET c == build[b].cached
        entries == build[b].entries
        Finish(i) == build' = [build EXCEPT ![b] = [Idle EXCEPT !.pc = "clear", !.out = i]]
    IN /\ At(b, "pack")
       /\ \/ /\ build[b].full
             /\ \E f \in Files : FullIndex(entries).idx[f] # 0
             /\ Finish(FullIndex(entries))
             /\ UNCHANGED job
          \/ /\ build[b].full
             /\ \A f \in Files : FullIndex(entries).idx[f] = 0
             /\ Leave(b)                      \* 404, No supported files
          \/ /\ ~build[b].full
             /\ \A f \in Dirty(c, entries) : OnDisk(f)
             /\ Finish(merge_index(c, entries))
             /\ UNCHANGED job
          \/ /\ ~build[b].full                \* assemble mismatch
             /\ \E f \in Dirty(c, entries) : ~OnDisk(f)
             /\ build' = [build EXCEPT ![b] = [Idle EXCEPT !.pc = "list", !.full = TRUE]]
             /\ UNCHANGED job
       /\ UNCHANGED <<fileVars, cache, crashes>>

\* sync_code_file_flags: every bit off, then on for the files just indexed;
\* two transactions.
ClearFlags(b) ==
    /\ At(b, "clear")
    /\ code' = [f \in Files |-> FALSE]
    /\ Goto(b, "set")
    /\ UNCHANGED <<content, ts, saving, cache, job, crashes>>

SetFlags(b) ==
    /\ At(b, "set")
    /\ code' = [f \in Files |-> code[f] \/ (build[b].out.idx[f] # 0 /\ ts[f] # 0)]
    /\ Goto(b, "open")
    /\ UNCHANGED <<content, ts, saving, cache, job, crashes>>

\* _write_project_index_cache: write_text truncates the file ...
OpenCache(b) ==
    /\ At(b, "open")
    /\ cache' = Torn
    /\ build' = [build EXCEPT ![b].pc = "write", ![b].alone = TRUE]
    /\ UNCHANGED <<fileVars, job, crashes>>

\* ... and writes it from the start.  What another builder wrote since the
\* truncation keeps its tail if it is longer.
WriteCache(b) ==
    /\ At(b, "write")
    /\ \/ cache' = build[b].out
       \/ ~build[b].alone /\ cache' = Torn
    /\ build' = [o \in Builders |->
                   IF o = b THEN [Idle EXCEPT !.pc = "done"]
                   ELSE IF At(o, "write") THEN [build[o] EXCEPT !.alone = FALSE]
                   ELSE build[o]]
    /\ UNCHANGED <<fileVars, job, crashes>>

Return(b) ==
    /\ At(b, "done")
    /\ Leave(b)
    /\ UNCHANGED <<fileVars, cache, crashes>>

\* The builder's process is killed; the pool requeues the worker's row.
Crash(b) ==
    /\ crashes < MaxCrashes
    /\ ~At(b, "off")
    /\ crashes' = crashes + 1
    /\ build' = [build EXCEPT ![b] = Idle]
    /\ job' = IF b = Worker THEN "queued" ELSE job
    /\ UNCHANGED <<fileVars, cache>>

\* POST /project/maint_enqueue with kind=code_index.
Enqueue ==
    /\ job = "none"
    /\ job' = "queued"
    /\ UNCHANGED <<fileVars, cache, build, crashes>>

-----------------------------------------------------------------------------
Init ==
    /\ disk = [f \in Files |-> IF f \in Linked THEN 1 ELSE 0]
    /\ sec = disk
    /\ ts = sec
    /\ code = [f \in Files |-> f \in Linked]
    /\ saving = [f \in Files |-> 0]
    /\ stamp = 1
    /\ dated = [f \in Files |-> IF f \in Linked THEN {1} ELSE {}]
    /\ twice = [f \in Files |-> {}]
    /\ cache = Missing
    /\ build = [b \in Builders |-> Idle]
    /\ job = "none"
    /\ crashes = 0

Work(b) == \/ Start(b) \/ Scan(b) \/ Read(b) \/ List(b) \/ Pack(b)
           \/ ClearFlags(b) \/ SetFlags(b) \/ OpenCache(b) \/ WriteCache(b) \/ Return(b)

Next ==
    \/ \E f \in Files : Edit(f) \/ SaveRow(f) \/ EditOutside(f)
    \/ \E f \in Files : Create(f) \/ Attach(f) \/ Remove(f)
    \/ \E b \in Builders : Work(b)
    \/ \E b \in Builders : Crash(b)
    \/ Enqueue

Spec == Init /\ [][Next]_vars

\* A pool worker that is not dead keeps going; update_file finishes.
FairSpec == /\ Spec
            /\ WF_vars(Work(Worker))
            /\ \A f \in Files : WF_vars(SaveRow(f))
-----------------------------------------------------------------------------
TypeOK ==
    /\ disk \in [Files -> Stamps]
    /\ sec \in [Files -> Seconds]
    /\ ts \in [Files -> Seconds]
    /\ code \in [Files -> BOOLEAN]
    /\ saving \in [Files -> Seconds]
    /\ stamp \in Stamps
    /\ dated \in [Files -> SUBSET Seconds]
    /\ twice \in [Files -> SUBSET Seconds]
    /\ cache \in Index \cup {Missing, Torn}
    /\ build \in [Builders -> [pc : Places, full : BOOLEAN, cached : Index,
                               entries : [Files -> Seconds], out : Index, alone : BOOLEAN]]
    /\ job \in {"none", "queued", "running"}
    /\ crashes \in 0..MaxCrashes

Cached == cache \notin {Missing, Torn}

\* The row of f is up to date, and no other save of f went by its second.
Told(f) == ts[f] = sec[f] /\ ts[f] \notin twice[f]

\* If the next incremental build takes a file for unchanged, its row is up to
\* date and no other save of it went by the same second, its cached lines are
\* those of its content, whatever edits, late timestamps, crashes and other
\* builds happened while that index was made (compute_dirty,
\* code_index_incremental.py:114).
FingerprintSound ==
    Cached => \A f \in Files :
        OnDisk(f) /\ Told(f) /\ cache.fp[f] = ts[f] => cache.idx[f] = disk[f]

\* Lines never outlive their fingerprint: without one compute_dirty could
\* not report the file as removed (code_index_incremental.py:134-140).
LinesHaveFingerprint ==
    Cached => \A f \in Files : cache.idx[f] # 0 => cache.fp[f] # 0

\* A queued code_index job that finds all rows linked, flagged and up to date,
\* each by a second that no other save of its file went by, and that no write
\* comes after, leaves an index of what is on disk, unless nothing is left there
\* (maint_code_index_job.py:17).
Fresh == /\ Cached
         /\ \A f \in Files : disk[f] # 0 => cache.idx[f] = disk[f]
AllListed == \A f \in Files : disk[f] # 0 => ts[f] # 0 /\ Told(f) /\ code[f]
RebuildCatchesUp ==
    (job = "queued" /\ stamp = MaxStamp /\ (\A f \in Files : saving[f] = 0) /\ AllListed)
        ~> (Fresh \/ \A f \in Files : disk[f] = 0)

=============================================================================
