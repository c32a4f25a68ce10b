----------------------------- MODULE MCProjects -----------------------------
(***************************************************************************)
(* The components that work on the files of a project and run its          *)
(* processes, each by itself: the first state says which one runs.         *)
(***************************************************************************)
EXTENDS Naturals, Sequences, TLC

CONSTANTS
    Clients,   \* background scans, files with links
    None, Off,
    \* settings, see the modules of the parts
    Names, Longer, TimeBack, Walks, LinkTtl, ByScan, TagLines, TagStarts,
    Guids, Projects, Requests, NoEntry, NoScript,
    MaxPerProject, MaxBuffer, PipeSize, Ttl, HardTimeout,
    \* bounds of the parts
    MaxTexts, MaxBackups, MaxSecond, MaxFailures, MaxScans, MaxMarks, MaxFaults,
    LinkRows, LinkChanges, TagSize, MaxBody, MaxCode, MaxSpans, MaxWaits, MaxWork

\* No task or file is one of the other values a variable holds beside it.
ASSUME NamesAssumption ==
    /\ None \notin Clients \cup {"loop", "pool", "refresh", "other", "put"}
    /\ Clients \cap {"loop", "pool", "refresh", "other", "put"} = {}

\* The ttl of a link is at least one, get_int clamps it (managers/files.py:123); a
\* scan is no tick and no request.
ASSUME LinksAssumption ==
    /\ LinkTtl \in Nat \ {0}
    /\ {LinkRows, LinkChanges} \subseteq Nat
    /\ ByScan \in BOOLEAN /\ (Walks # {} => ByScan)
    /\ Walks \cap {"tick", "api"} = {}

\* The tags that are judged are none of the values that stand for no tag, no line is
\* the None in front of the lines, and lines are counted.
ASSUME TagsAssumption ==
    /\ None \notin TagLines \cup {"code_patch", "replace_span"}
    /\ TagStarts \subseteq Nat
    /\ {TagSize, MaxBody, MaxCode} \subseteq Nat

\* The sandbox's limits are numbers (mcp_server.py, settings of the server).
ASSUME SandboxAssumption ==
    {MaxPerProject, MaxBuffer, PipeSize, Ttl, HardTimeout, MaxWaits, MaxWork} \subseteq Nat

VARIABLES
    part,   \* the component that runs
    v1, v2, v3, v4, v5, v6, v7, v8, v9, v10, v11, v12, v13, v14, v15, v16   \* its variables, in the order of its module

vars == <<part, v1, v2, v3, v4, v5, v6, v7, v8, v9, v10, v11, v12, v13, v14, v15, v16>>

Versions == INSTANCE FileVersions WITH
    disk <- v1, linked <- v2, backups <- v3, second <- v4, op <- v5, taken <- v6,
    spent <- v7, texts <- v8, failures <- v9

Tags == INSTANCE EditTags WITH
    Lines <- TagLines, Starts <- TagStarts, MaxLines <- TagSize,
    file <- v1, spans <- v2, done <- v3

Scans == INSTANCE ScanState WITH
    Tasks <- Clients, Nobody <- None,
    dicts <- v1, store <- v2, tasks <- v3, threads <- v4, loop <- v5, unseen <- v6,
    lost <- v7, outlived <- v8, spent <- v9

Links == INSTANCE FileLinks WITH
    Files <- Clients, NoFile <- None, Ticks <- {"tick"}, Scanners <- Walks, Api <- "api",
    TtlMax <- LinkTtl, MaxRows <- LinkRows, MaxChanges <- LinkChanges,
    disk <- v1, rows <- v2, tick <- v3, walk <- v4, adding <- v5, view <- v6, api <- v7,
    changes <- v8

Sandbox == INSTANCE SandboxServer WITH
    registry <- v1, os <- v2, pipe <- v3, reader <- v4, spawning <- v5, holder <- v6,
    waiting <- v7, loop <- v8, evicted <- v9, script <- v10, phase <- v11, child <- v12,
    ran <- v13, server <- v14, coreLoop <- v15, alone <- v16

\* No entry of the registry is the value of a guid that has none.
ASSUME EntryAssumption == NoEntry \notin Sandbox!Entry

-----------------------------------------------------------------------------
Init ==
    \/ /\ part = "Versions" /\ Versions!Init /\ v10 = Off /\ v11 = Off /\ v12 = Off
       /\ v13 = Off /\ v14 = Off /\ v15 = Off /\ v16 = Off
    \/ /\ part = "Tags" /\ Tags!Init /\ v4 = Off /\ v5 = Off /\ v6 = Off /\ v7 = Off
       /\ v8 = Off /\ v9 = Off /\ v10 = Off /\ v11 = Off /\ v12 = Off /\ v13 = Off
       /\ v14 = Off /\ v15 = Off /\ v16 = Off
    \/ /\ part = "Scans" /\ Scans!Init /\ v10 = Off /\ v11 = Off /\ v12 = Off
       /\ v13 = Off /\ v14 = Off /\ v15 = Off /\ v16 = Off
    \/ /\ part = "Links" /\ Links!Init /\ v9 = Off /\ v10 = Off /\ v11 = Off /\ v12 = Off
       /\ v13 = Off /\ v14 = Off /\ v15 = Off /\ v16 = Off
    \/ /\ part = "Sandbox" /\ Sandbox!Init

VersionsRuns ==
    part = "Versions" /\ Versions!Next /\ UNCHANGED <<part, v10, v11, v12, v13, v14, v15, v16>>
TagsRuns ==
    part = "Tags" /\ Tags!Next /\ UNCHANGED <<part, v4, v5, v6, v7, v8, v9, v10, v11, v12, v13, v14, v15, v16>>
ScansRuns ==
    part = "Scans" /\ Scans!Next /\ UNCHANGED <<part, v10, v11, v12, v13, v14, v15, v16>>
LinksRuns ==
    part = "Links" /\ Links!Next /\ UNCHANGED <<part, v9, v10, v11, v12, v13, v14, v15, v16>>
SandboxRuns ==
    part = "Sandbox" /\ Sandbox!Next /\ UNCHANGED part

Next ==
    \/ VersionsRuns
    \/ TagsRuns
    \/ ScansRuns
    \/ LinksRuns
    \/ SandboxRuns

Spec == Init /\ [][Next]_vars

Symmetry == Permutations(Clients) \cup Permutations(Guids) \cup Permutations(Requests)
-----------------------------------------------------------------------------
\* Every text that was backed up can be read back (file_manager.py, backups).
BackupsKept == part = "Versions" => Versions!BackupsKept

\* A patch and a replaced span change the lines they name and no others
\* (patch_processor.py, entity_processor.py, file_processors.py).
TagsChangeTheirLines ==
    part = "Tags" => Tags!HunkGoesWhereItMatches /\ Tags!SpanIsReplaced

\* The scan state that refuses a scan ends, and a project without a problem has
\* been scanned since its last mark (project_routes.py, project.py).
ScanStateIsTrue == part = "Scans" => Scans!RunningWillEnd /\ Scans!OkMeansSeen

\* A tick deletes a link it spells itself only if the link's file has really been
\* off the disk during the life of the row, if it takes more than one observation
\* (core_maint_loop.py, run_tick_for_project).
PurgeNeedsLoss == [][part = "Links" => Links!PurgeStep]_vars

\* The sandbox neither loses nor mistakes a process: none lives outside the
\* registry, each running one is read, finished ones have ended, and executions
\* run their own text (mcp_server.py:160-330, execute_commands.py:60-153).
ProcessesAreKept ==
    part = "Sandbox" =>
        /\ Sandbox!ServerTypeOK /\ Sandbox!NoOrphans /\ Sandbox!Watched
        /\ Sandbox!FinishedHasEnded /\ Sandbox!OwnText
=============================================================================
