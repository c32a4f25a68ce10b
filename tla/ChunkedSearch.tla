----------------------------- MODULE ChunkedSearch -----------------------------
(***************************************************************************)
(* A search through a project in chunks: cq_start_grep asks index_meta for *)
(* the epoch and posts smart_grep/chunk with offset 0, cq_fetch_result     *)
(* posts the continuation until scan_complete.  The server keeps no cursor *)
(* of the chain: it keeps the ids in scope by the epoch they were listed   *)
(* in (SmartGrepScopeCache), the epoch grows with every scan that ends,    *)
(* and a chunk of another epoch is refused with 409, after which           *)
(* smart_grep_chunk_stable begins again.                                   *)
(*                                                                         *)
(* Scans run in threads and in the maintenance workers, whose epoch is     *)
(* their own; links are added, lost and found again at any time.  Ids grow *)
(* in the order of registration.  A file is in scope when it is linked.    *)
(***************************************************************************)
EXTENDS Integers, FiniteSets

CONSTANTS
    None,
    LimitFiles,     \* limit_files of the chain
    Tries,          \* attempts of smart_grep_chunk_stable: 16
    MaxFiles, MaxScans, MaxChanges, MaxFaults   \* bounds of the model

VARIABLES
    rows,       \* attached_files: the ids given so far
    linked,     \* those that file_index lists
    epoch,      \* globals.project_index_epoch of the core
    scanning,   \* a scan of the core is in its walk
    scope,      \* the entry of the chain's filters in SmartGrepScopeCache
    chain,      \* the client's requests: the next one, or the one on its way
    found,      \* history: the files linked ever since the core's last scan ended
    scans, changes, faults   \* how often so far

links == <<rows, linked, changes>>
server == <<epoch, scanning, scope, found, scans>>
vars == <<rows, linked, epoch, scanning, scope, chain, found, scans, changes, faults>>

\* offset, epoch and search_mode of the request; the epoch the handler works
\* with; history: what the chain has scanned since offset 0, the ids it was
\* served from then and last, and whether one of them was gone from a later list.
NoChain == [pc |-> "none", epoch |-> 0, offset |-> 0, refresh |-> FALSE, tries |-> 0,
            scanned |-> {}, first |-> None, last |-> None, shifted |-> FALSE]

Init ==
    /\ rows = 2 /\ linked = {1, 2}
    /\ epoch = 0 /\ scanning = FALSE /\ scope = None /\ found = {}
    /\ chain = NoChain
    /\ scans = 0 /\ changes = 0 /\ faults = 0

(***************************************************************************)
(* Links and scans                                                         *)
(***************************************************************************)
\* add_file: a scan, here or in a worker, or an upload.
AddFile ==
    /\ rows < MaxFiles
    /\ rows' = rows + 1 /\ linked' = linked \cup {rows + 1}
    /\ UNCHANGED <<server, chain, changes, faults>>

\* A link's TTL runs out, or its row is removed; it is found on the disk again.
LinkLost(i) ==
    /\ changes < MaxChanges
    /\ linked' = linked \ {i} /\ changes' = changes + 1
    /\ found' = found \ {i}
    /\ UNCHANGED <<rows, epoch, scanning, scope, scans, chain, faults>>

LinkBack(i) ==
    /\ changes < MaxChanges
    /\ linked' = linked \cup {i} /\ changes' = changes + 1
    /\ UNCHANGED <<rows, server, chain, faults>>

\* Mutant: the epoch grows when a scan starts.
EpochAfter_first(phase, e) == IF phase = "start" THEN e + 1 ELSE e

\* mark_scan_fresh: after the walk.
EpochAfter(phase, e) == IF phase = "end" THEN e + 1 ELSE e

ScanStarts ==
    /\ ~scanning /\ scans < MaxScans
    /\ scanning' = TRUE /\ scans' = scans + 1
    /\ epoch' = EpochAfter("start", epoch)
    /\ UNCHANGED <<links, scope, chain, found, faults>>

ScanEnds ==
    /\ scanning
    /\ scanning' = FALSE
    /\ epoch' = EpochAfter("end", epoch) /\ found' = linked
    /\ UNCHANGED <<links, scope, chain, scans, faults>>

\* The walk raises: no epoch.
ScanFails ==
    /\ scanning /\ faults < MaxFaults
    /\ scanning' = FALSE /\ faults' = faults + 1
    /\ UNCHANGED <<links, epoch, scope, chain, found, scans>>

\* Other prefixes and filters push the entry out.
Evict ==
    /\ scope # None /\ faults < MaxFaults
    /\ scope' = None /\ faults' = faults + 1
    /\ UNCHANGED <<links, epoch, scanning, chain, found, scans>>

\* Epoch and scope are in memory; a request that is being handled fails, and
\* its continuation may be posted again.
Restart ==
    /\ faults < MaxFaults
    /\ epoch' = 0 /\ scope' = None /\ scanning' = FALSE /\ found' = {}
    /\ IF chain.pc \in {"checked", "serve"}
          THEN chain' \in {NoChain} \cup
                   (IF chain.offset > 0 THEN {[chain EXCEPT !.pc = "ready"]} ELSE {})
          ELSE UNCHANGED chain
    /\ faults' = faults + 1
    /\ UNCHANGED <<links, scans>>

(***************************************************************************)
(* The chain                                                               *)
(***************************************************************************)
Start(refresh) ==
    /\ chain.pc \in {"none", "done"}
    /\ chain' = [NoChain EXCEPT !.pc = "ready", !.epoch = epoch, !.refresh = refresh]
    /\ UNCHANGED <<links, server, faults>>

\* smart_grep_chunk_stable after a 409.
FromTheStart(c, current) ==
    [c EXCEPT !.epoch = current, !.offset = 0, !.refresh = FALSE, !.tries = c.tries + 1,
              !.scanned = {}, !.first = None, !.last = None, !.shifted = FALSE]

Check ==
    /\ chain.pc = "ready"
    /\ chain' = IF chain.epoch = epoch THEN [chain EXCEPT !.pc = "checked"]
                ELSE IF chain.tries + 1 = Tries THEN NoChain
                ELSE FromTheStart(chain, epoch)
    /\ UNCHANGED <<links, server, faults>>

\* project_refresh scans within the request, and takes the epoch of its end.
RefreshScan ==
    /\ chain.pc = "checked" /\ chain.refresh /\ scans < MaxScans
    /\ epoch' = epoch + 1 /\ found' = linked /\ scans' = scans + 1
    /\ chain' = [chain EXCEPT !.refresh = FALSE, !.epoch = epoch + 1]
    /\ UNCHANGED <<links, scanning, scope, faults>>

\* get_or_build: the ids listed in the same epoch, or those of now.
get_or_build(e) == IF scope # None /\ scope.epoch = e THEN scope.ids ELSE linked

GetScope ==
    /\ chain.pc = "checked" /\ ~chain.refresh
    /\ scope' = [epoch |-> chain.epoch, ids |-> get_or_build(chain.epoch)]
    /\ chain' = LET ids == get_or_build(chain.epoch) IN
                IF chain.offset > Cardinality(ids) THEN NoChain
                ELSE [chain EXCEPT !.pc = "serve", !.last = ids,
                          !.first = IF chain.first = None THEN ids ELSE chain.first,
                          !.shifted = chain.shifted \/ (chain.last # None /\ chain.last \ ids # {})]
    /\ UNCHANGED <<links, epoch, scanning, found, scans, faults>>

\* Mutant: the next chunk is limit_files further, whatever was scanned.
NextOffset_limit(offset, files_scanned) == offset + LimitFiles

NextOffset(offset, files_scanned) == offset + files_scanned

\* The n ids after the offset, in their order.
Place(ids, i) == Cardinality({j \in ids : j <= i})
Batch(ids, offset, n) == {i \in ids : Place(ids, i) \in offset + 1 .. offset + n}

\* max_hits may end the chunk at a file, some of whose hits are then missing:
\* the answer says so, and the file is not read again.
ServeChunk ==
    /\ chain.pc = "serve"
    /\ LET left == Cardinality(chain.last) - chain.offset
           most == IF LimitFiles < left THEN LimitFiles ELSE left IN
       \E cut \in 0..most :
          LET files_scanned == IF cut = 0 THEN most ELSE cut
              next == NextOffset(chain.offset, files_scanned) IN
          chain' = [chain EXCEPT
              !.pc = IF next >= Cardinality(chain.last) /\ cut = 0 THEN "done" ELSE "ready",
              !.offset = next, !.tries = 0,
              !.scanned = chain.scanned \cup Batch(chain.last, chain.offset, files_scanned)]
    /\ UNCHANGED <<links, server, faults>>

Next ==
    \/ AddFile
    \/ \E i \in linked : LinkLost(i)
    \/ \E i \in (1..rows) \ linked : LinkBack(i)
    \/ ScanStarts \/ ScanEnds \/ ScanFails \/ Evict \/ Restart
    \/ \E refresh \in BOOLEAN : Start(refresh)
    \/ Check \/ RefreshScan \/ GetScope \/ ServeChunk

Spec == Init /\ [][Next]_vars

(***************************************************************************)
(* Properties                                                              *)
(***************************************************************************)
\* A chain that ends with scan_complete has scanned every file of the list its
\* offset 0 was served from, across scans, evictions and restarts of the core
\* between its chunks, unless a file was gone when the list was built again
\* under the same epoch (the files after it move up, past the offset).
ChainCovers == chain.pc = "done" /\ ~chain.shifted => chain.first \subseteq chain.scanned

\* The kept ids of the current epoch hold every file that the scan of that
\* epoch found and that has been linked since: no list of before it is served again.
ScopeFresh == scope # None /\ scope.epoch = epoch => found \subseteq scope.ids
-----------------------------------------------------------------------------
(***************************************************************************)
(* The inductive invariant behind ChainCovers and ScopeFresh               *)
(* (ClientsProofs)                                                         *)
(***************************************************************************)

Chains ==
    [pc : {"none", "ready", "checked", "serve", "done"}, epoch : Nat, offset : Nat,
     refresh : BOOLEAN, tries : Nat, scanned : SUBSET Nat, first : {None} \cup SUBSET Nat,
     last : {None} \cup SUBSET Nat, shifted : BOOLEAN]

\* What the chain has still to scan of its first list lies behind its offset.
Ahead(c) ==
    c.first \subseteq c.last /\ \A i \in c.first \ c.scanned : Place(c.last, i) > c.offset

ChainOK(c, n, e) ==
    /\ c \in Chains
    /\ c.pc \in {"checked", "serve"} => c.epoch <= e
    /\ c.first = None => c.last = None /\ c.offset = 0 /\ c.scanned = {} /\ c.pc \notin {"serve", "done"}
    /\ c.first # None => c.last # None /\ c.first \subseteq 1..n /\ c.last \subseteq 1..n
    /\ c.first # None /\ ~c.shifted => Ahead(c)
    /\ c.pc = "serve" => c.offset <= Cardinality(c.last)
    /\ c.pc = "done" /\ ~c.shifted => c.first \subseteq c.scanned

ScopeOK ==
    /\ rows \in 2..MaxFiles /\ linked \subseteq 1..rows /\ found \subseteq linked /\ epoch \in Nat
    /\ scope # None => scope.epoch \in Nat /\ scope.epoch <= epoch /\ scope.ids \subseteq 1..rows
    /\ ScopeFresh

IInv == ScopeOK /\ ChainOK(chain, rows, epoch)
=============================================================================
