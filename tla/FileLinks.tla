----------------------------- MODULE FileLinks -----------------------------
(***************************************************************************)
(* The file links of one project: the rows of attached_files, the files    *)
(* they name, and the four parties that keep them in step:                 *)
(*   - the reconcile tick of the maintenance pool (run_tick_for_project in *)
(*     agent/scripts/core_maint_loop.py), which compares a `find` with the *)
(*     rows read after it;                                                 *)
(*   - scans (scan_project_files in agent/managers/project.py);            *)
(*   - listings, which lower the ttl of links whose file is missing;       *)
(*   - the file API (agent/managers/files.py), one request at a time.      *)
(*                                                                         *)
(* The file of a name is on disk or not; contents are in CodeIndex.  A     *)
(* file has two spellings in the table: the tick stores "path", a scan     *)
(* stores "project/path".  Nothing in the table makes names unique.        *)
(***************************************************************************)
EXTENDS Integers, Sequences, FiniteSets, TLC

CONSTANTS
    Files,       \* paths of the project
    NoFile,      \* not a path
    Ticks,       \* reconcile ticks that may run at once: one, says MaintPool
    Scanners,    \* concurrent calls of scan_project_files
    Api,         \* the request handlers: they run one at a time
    TtlMax,      \* FILE_LINK_TTL_MAX
    MaxRows,     \* bound: rows ever inserted
    MaxChanges,  \* bound: requests, crashes, and changes of the disk by others
    ByScan       \* TRUE: some links have the scan's spelling

ASSUME LinksAssumption ==
    /\ NoFile \notin Files
    /\ TtlMax \in Nat \ {0}
    /\ MaxRows \in Nat
    /\ MaxChanges \in Nat
    /\ ByScan \in BOOLEAN
    /\ Scanners # {} => ByScan

Rel(f) == [file |-> f, by |-> "tick"]
Full(f) == [file |-> f, by |-> "scan"]
NoName == [file |-> NoFile, by |-> "none"]
LinkNames == {Rel(f) : f \in Files} \cup (IF ByScan THEN {Full(f) : f \in Files} ELSE {})

VARIABLES
    disk,     \* the files that exist
    rows,     \* attached_files: row id -> row; ids are never used again
    tick,     \* program state of each tick
    walk,     \* program state of each scan
    adding,   \* the add_file call each party is in
    view,     \* a listing between its probe of a file and its UPDATE
    api,      \* the request in progress
    changes   \* bounded events so far

vars == <<disk, rows, tick, walk, adding, view, api, changes>>
parties == <<tick, walk, view, api>>

Gone == [name |-> NoName, ttl |-> 0, lost |-> FALSE]     \* a deleted row
NoRow == 0
RowIds == 1..Len(rows)
Live == {i \in RowIds : rows[i] # Gone}
Named(n) == {i \in Live : rows[i].name = n}

\* A row is valid, for link_valid and for listings, if its file exists and it
\* lost no ttl.
Healthy(i) == i \in Live /\ rows[i].name.file \in disk /\ rows[i].ttl = TtlMax

\* UPDATE ... SET missing_ttl = :ttl WHERE id = :id; nothing if the row is gone.
WithTtl(i, ttl) ==
    [rows EXCEPT ![i] = IF rows[i] = Gone THEN Gone ELSE [rows[i] EXCEPT !.ttl = ttl]]
Lowered(ttl) == IF ttl = 0 THEN 0 ELSE ttl - 1

Bounded == changes < MaxChanges /\ changes' = changes + 1

\* The files on disk become d.  row.lost is history: the row's file was off
\* the disk at some time.
SetDisk(d) ==
    /\ disk' = d
    /\ rows' = [i \in RowIds |-> IF i \in Live /\ rows[i].name.file \notin d
                                 THEN [rows[i] EXCEPT !.lost = TRUE] ELSE rows[i]]

(***************************************************************************)
(* Other programs create, delete and restore files.                        *)
(***************************************************************************)
Appear(f) ==
    /\ Bounded
    /\ f \notin disk
    /\ SetDisk(disk \cup {f})
    /\ UNCHANGED <<parties, adding>>

Vanish(f) ==
    /\ Bounded
    /\ f \in disk
    /\ SetDisk(disk \ {f})
    /\ UNCHANGED <<parties, adding>>

(***************************************************************************)
(* add_file without content: find the name, then heal that row or insert   *)
(* one.  ON CONFLICT DO NOTHING meets no unique index.                     *)
(***************************************************************************)
NoAdd == [name |-> NoName, found |-> NoRow]
InAdd(p) == adding[p] # NoAdd

BeginAdd(p, n) ==
    /\ ~InAdd(p)
    /\ \E i \in Named(n) \cup {NoRow} :
          /\ i = NoRow => Named(n) = {}
          /\ adding' = [adding EXCEPT ![p] = [name |-> n, found |-> i]]

FinishAdd(p) ==
    LET n == adding[p].name
        i == adding[p].found
    IN /\ InAdd(p)
       /\ i = NoRow => Len(rows) < MaxRows
       /\ rows' = IF i # NoRow THEN WithTtl(i, TtlMax)
                  ELSE Append(rows, [name |-> n, ttl |-> TtlMax, lost |-> n.file \notin disk])
       /\ adding' = [adding EXCEPT ![p] = NoAdd]

(***************************************************************************)
(* The reconcile tick.  Its three loops go over db_only, both and fs_only, *)
(* in this order; names inside a loop are sorted in the code and taken in  *)
(* any order here.                                                         *)
(***************************************************************************)
NoTick == [pc |-> "idle", fs |-> {}, links |-> {}, todo |-> {}]

\* The find.  A project root that is missing gives the empty set too.
TickFind(t) ==
    /\ tick[t].pc = "idle"
    /\ tick' = [tick EXCEPT ![t] = [NoTick EXCEPT !.pc = "links", !.fs = disk]]
    /\ UNCHANGED <<disk, rows, walk, adding, view, api, changes>>

\* _fetch_db_links: a dict by name, so of several rows it keeps one.
TickLinks(t) ==
    /\ tick[t].pc = "links"
    /\ \E ids \in SUBSET Live :
          /\ \A n \in LinkNames : Named(n) # {} => Cardinality(ids \cap Named(n)) = 1
          /\ tick' = [tick EXCEPT ![t] =
                [pc |-> "work", fs |-> tick[t].fs,
                 links |-> {[name |-> rows[i].name, id |-> i, ttl |-> rows[i].ttl] : i \in ids},
                 todo |-> {rows[i].name : i \in ids} \cup {Rel(f) : f \in tick[t].fs}]]
    /\ UNCHANGED <<disk, rows, walk, adding, view, api, changes>>

Linked(t) == {l.name : l \in tick[t].links}
db_only(t) == {n \in tick[t].todo : n \notin {Rel(f) : f \in tick[t].fs}}
both(t) == (tick[t].todo \ db_only(t)) \cap Linked(t)
fs_only(t) == tick[t].todo \ (db_only(t) \cup both(t))

Done(t, n) == tick' = [tick EXCEPT ![t] = [tick[t] EXCEPT !.todo = tick[t].todo \ {n}]]

\* Mutant: a link is purged one observation early.
Degrade_early(t, l) ==
    /\ tick[t].pc = "work"
    /\ l.name \in db_only(t)
    /\ rows' = IF Lowered(l.ttl) <= 1 THEN [rows EXCEPT ![l.id] = Gone]
               ELSE WithTtl(l.id, Lowered(l.ttl))
    /\ Done(t, l.name)
    /\ UNCHANGED <<disk, walk, adding, view, api, changes>>

\* _degrade_or_purge_missing, with the ttl read by TickLinks.
Degrade(t, l) ==
    /\ tick[t].pc = "work"
    /\ l.name \in db_only(t)
    /\ rows' = IF Lowered(l.ttl) = 0 THEN [rows EXCEPT ![l.id] = Gone]
               ELSE WithTtl(l.id, Lowered(l.ttl))
    /\ Done(t, l.name)
    /\ UNCHANGED <<disk, walk, adding, view, api, changes>>

\* Mutant: only links that have no ttl left recover.
Recover_exhausted(t, l) ==
    /\ tick[t].pc = "work"
    /\ db_only(t) = {}
    /\ l.name \in both(t)
    /\ rows' = IF l.ttl = 0 THEN WithTtl(l.id, TtlMax) ELSE rows
    /\ Done(t, l.name)
    /\ UNCHANGED <<disk, walk, adding, view, api, changes>>

\* _recover_present.
Recover(t, l) ==
    /\ tick[t].pc = "work"
    /\ db_only(t) = {}
    /\ l.name \in both(t)
    /\ rows' = IF l.ttl < TtlMax THEN WithTtl(l.id, TtlMax) ELSE rows
    /\ Done(t, l.name)
    /\ UNCHANGED <<disk, walk, adding, view, api, changes>>

TickAdd(t, n) ==
    /\ tick[t].pc = "work"
    /\ db_only(t) \cup both(t) = {}
    /\ n \in fs_only(t)
    /\ BeginAdd(t, n)
    /\ UNCHANGED <<disk, rows, parties, changes>>

TickAdded(t) ==
    /\ tick[t].pc = "work"
    /\ FinishAdd(t)
    /\ Done(t, adding[t].name)
    /\ UNCHANGED <<disk, walk, view, api, changes>>

\* The lazy scan runs in the same process when it is due: a Scanner here.
TickEnd(t) ==
    /\ tick[t].pc = "work"
    /\ tick[t].todo = {}
    /\ tick' = [tick EXCEPT ![t] = NoTick]
    /\ UNCHANGED <<disk, rows, walk, adding, view, api, changes>>

\* The pool worker dies; the pool gives the next tick to another one.
TickCrash(t) ==
    /\ Bounded
    /\ tick[t].pc # "idle"
    /\ tick' = [tick EXCEPT ![t] = NoTick]
    /\ adding' = [adding EXCEPT ![t] = NoAdd]
    /\ UNCHANGED <<disk, rows, walk, view, api>>

(***************************************************************************)
(* A scan meets the files one by one and may stop early, at its time limit.*)
(***************************************************************************)
ScanStart(s) ==
    /\ walk[s] = {}
    /\ walk' = [walk EXCEPT ![s] = Files]
    /\ UNCHANGED <<disk, rows, tick, adding, view, api, changes>>

ScanFile(s, f) ==
    /\ f \in walk[s] \cap disk
    /\ BeginAdd(s, Full(f))
    /\ UNCHANGED <<disk, rows, parties, changes>>

ScanFiled(s) ==
    /\ FinishAdd(s)
    /\ walk' = [walk EXCEPT ![s] = walk[s] \ {adding[s].name.file}]
    /\ UNCHANGED <<disk, tick, view, api, changes>>

ScanStop(s) ==
    /\ walk[s] # {} /\ ~InAdd(s)
    /\ walk' = [walk EXCEPT ![s] = {}]
    /\ UNCHANGED <<disk, rows, tick, adding, view, api, changes>>

(***************************************************************************)
(* _link_health_state with mutate: the probe of a row whose file is        *)
(* missing, and the UPDATE that follows when the cooldown is over.         *)
(***************************************************************************)
NoView == [id |-> NoRow, ttl |-> 0]

Probe(i) ==
    /\ Bounded
    /\ view = NoView
    /\ rows[i].name.file \notin disk
    /\ view' = [id |-> i, ttl |-> rows[i].ttl]
    /\ UNCHANGED <<disk, rows, tick, walk, adding, api>>

Probed ==
    /\ view # NoView
    /\ rows' = WithTtl(view.id, Lowered(view.ttl))
    /\ view' = NoView
    /\ UNCHANGED <<disk, tick, walk, adding, api, changes>>

(***************************************************************************)
(* Requests.  api is the request that has still to write its row.          *)
(***************************************************************************)
NoRequest == [op |-> "none", id |-> NoRow, name |-> NoName]

\* add_file with content.  A known name is only healed: its content is dropped.
\* A new one is written to disk before it has a row.
Upload(n) ==
    /\ Bounded
    /\ api = NoRequest
    /\ BeginAdd(Api, n)
    /\ IF Named(n) = {} THEN SetDisk(disk \cup {n.file}) ELSE UNCHANGED <<disk, rows>>
    /\ api' = [NoRequest EXCEPT !.op = "upload"]
    /\ UNCHANGED <<tick, walk, view>>

Uploaded ==
    /\ FinishAdd(Api)
    /\ api' = NoRequest
    /\ UNCHANGED <<disk, tick, walk, view, changes>>

\* update_file: link_valid, backup, write_file ...
Update(i) ==
    /\ Bounded
    /\ api = NoRequest
    /\ Healthy(i)
    /\ api' = [op |-> "update", id |-> i, name |-> rows[i].name]
    /\ UNCHANGED <<disk, rows, tick, walk, adding, view>>

\* move_file with overwrite: link_valid, and the target loses its row ...
Move(i, n) ==
    /\ Bounded
    /\ api = NoRequest
    /\ Healthy(i)
    /\ n # rows[i].name
    /\ \E j \in Named(n) \cup {NoRow} :
          /\ j = NoRow => Named(n) = {}
          /\ rows' = IF j = NoRow THEN rows ELSE [rows EXCEPT ![j] = Gone]
    /\ api' = [op |-> "move", id |-> i, name |-> n]
    /\ UNCHANGED <<disk, tick, walk, adding, view>>

\* ... the file is renamed.  The old name is the row's.
Rename ==
    /\ api.op = "move"
    /\ api.id \in Live
    /\ LET from == rows[api.id].name.file
           to == api.name.file
       IN /\ from # to /\ from \in disk
          /\ SetDisk((disk \ {from}) \cup {to})
    /\ api' = [api EXCEPT !.op = "moved"]
    /\ UNCHANGED <<tick, walk, adding, view, changes>>

\* No backup or no rename, -3 and -6; two spellings of one file have one lock
\* key, and lock_keys[1] raises.  The target's row stays deleted.
RenameFails ==
    /\ api.op = "move"
    /\ \/ api.id \notin Live
       \/ rows[api.id].name.file \notin disk
       \/ rows[api.id].name.file = api.name.file
    /\ api' = NoRequest
    /\ UNCHANGED <<disk, rows, tick, walk, adding, view, changes>>

\* The last statement of update_file and move_file.
SaveRow ==
    /\ api.op \in {"update", "moved"}
    /\ rows' = [rows EXCEPT ![api.id] =
                  IF rows[api.id] = Gone THEN Gone
                  ELSE [name |-> api.name, ttl |-> TtlMax,
                        lost |-> rows[api.id].lost \/ api.name.file \notin disk]]
    /\ api' = NoRequest
    /\ UNCHANGED <<disk, tick, walk, adding, view, changes>>

\* /chat/delete_file: the row goes, the file stays.
Unlink(i) ==
    /\ Bounded
    /\ api = NoRequest
    /\ rows' = [rows EXCEPT ![i] = Gone]
    /\ UNCHANGED <<disk, parties, adding>>

-----------------------------------------------------------------------------
Init ==
    /\ disk = Files
    /\ rows = <<>>
    /\ tick = [t \in Ticks |-> NoTick]
    /\ walk = [s \in Scanners |-> {}]
    /\ adding = [p \in Ticks \cup Scanners \cup {Api} |-> NoAdd]
    /\ view = NoView
    /\ api = NoRequest
    /\ changes = 0

Tick(t) ==
    \/ TickFind(t) \/ TickLinks(t)
    \/ \E l \in tick[t].links : Degrade(t, l) \/ Recover(t, l)
    \/ \E n \in tick[t].todo : TickAdd(t, n)
    \/ TickAdded(t) \/ TickEnd(t)

Scan(s) == \/ ScanStart(s) \/ ScanFiled(s) \/ ScanStop(s)
           \/ \E f \in walk[s] : ScanFile(s, f)

Request ==
    \/ \E n \in LinkNames : Upload(n)
    \/ \E i \in Live : Update(i) \/ Unlink(i) \/ \E n \in LinkNames : Move(i, n)
    \/ Uploaded \/ Rename \/ RenameFails \/ SaveRow

Next ==
    \/ \E f \in Files : Appear(f) \/ Vanish(f)
    \/ \E t \in Ticks : Tick(t) \/ TickCrash(t)
    \/ \E s \in Scanners : Scan(s)
    \/ \E i \in Live : Probe(i)
    \/ Probed
    \/ Request

Spec == Init /\ [][Next]_vars

\* Ticks are enqueued at every interval and what a party has begun it ends.
\* Nothing obliges scans, listings and requests to begin.
FairSpec ==
    /\ Spec
    /\ \A t \in Ticks : WF_vars(Tick(t))
    /\ WF_vars(Probed)
    /\ WF_vars(Uploaded \/ Rename \/ RenameFails \/ SaveRow)
-----------------------------------------------------------------------------
RowType == [name : LinkNames, ttl : 0..TtlMax, lost : BOOLEAN]
LinkType == [name : LinkNames, id : Nat \ {0}, ttl : 0..TtlMax]
TickType == [pc : {"idle", "links", "work"}, fs : SUBSET Files,
             links : SUBSET LinkType, todo : SUBSET LinkNames]

TypeOK ==
    /\ disk \subseteq Files
    /\ rows \in Seq(RowType \cup {Gone})
    /\ tick \in [Ticks -> TickType]
    /\ \A t \in Ticks : \A l \in tick[t].links : l.id \in RowIds
    /\ walk \in [Scanners -> SUBSET Files]
    /\ adding \in [Ticks \cup Scanners \cup {Api} -> [name : LinkNames \cup {NoName}, found : Nat]]
    /\ \A p \in DOMAIN adding : InAdd(p) => adding[p].name \in LinkNames
                                           /\ adding[p].found \in RowIds \cup {NoRow}
    /\ view \in [id : RowIds, ttl : 0..TtlMax] \cup {NoView}
    /\ api.op \in {"none", "upload", "update", "move", "moved"}
    /\ api.op \in {"update", "move", "moved"} => api.id \in RowIds /\ api.name \in LinkNames

(***************************************************************************)
(* The inductive invariant of PurgeStep, for ticks that do not overlap.    *)
(***************************************************************************)
\* A row whose file is missing now has lost it.
MissingIsLost == \A i \in Live : rows[i].name.file \notin disk => rows[i].lost

\* A listing lowers the ttl of a row that has lost its file.
ProbedIsLost == view.id # NoRow => rows[view.id] = Gone \/ rows[view.id].lost

\* What is not in a tick's find has lost its file or was linked, or healed, since:
\* when the tick reads the rows ...
NotFound == \A t \in Ticks : tick[t].pc = "links" =>
    \A i \in Live : rows[i].name.by = "tick" /\ rows[i].name.file \notin tick[t].fs =>
        rows[i].lost \/ rows[i].ttl = TtlMax

\* ... and while it works on what it has read.
NotFoundInWork == \A t \in Ticks : tick[t].pc = "work" =>
    \A l \in tick[t].links : l.name.by = "tick" /\ l.name.file \notin tick[t].fs =>
        rows[l.id] = Gone \/ rows[l.id].lost \/ l.ttl = TtlMax

IInv == TypeOK /\ MissingIsLost /\ ProbedIsLost /\ NotFound /\ NotFoundInWork

\* A tick deletes a link it spells itself only if the link's file has really
\* been off the disk during the life of the row: the snapshot that is older
\* than the row, and ttls overtaken by a recovery, cost it one ttl at most.
\* It takes TtlMax > 1 and ticks that do not overlap (core_maint_loop.py:768,
\* run_tick_for_project).
PurgeStep ==
    \A t \in Ticks : \A l \in tick[t].links :
        Degrade(t, l) /\ l.name.by = "tick" /\ rows[l.id] # Gone /\ rows'[l.id] = Gone
            => rows[l.id].lost

\* Repeated ticks bring the table to the disk, whatever requests, crashes and
\* changes came before: every file has a link that is shown, and no file that
\* is gone has one (docs/CORE_OPTIMIZATION.md:63).
InStep == /\ \A f \in disk : \E i \in Live : rows[i].name = Rel(f) /\ Healthy(i)
          /\ \A i \in Live : rows[i].name.by = "tick" => rows[i].name.file \in disk
TicksSettle == <>[]InStep

\* Files, and scanners, are alike.
Symmetry == Permutations(Files) \cup Permutations(Scanners)
=============================================================================
