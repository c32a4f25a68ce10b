--------------------------- MODULE MCClients ---------------------------
(***************************************************************************)
(* The tools on the user's side, which keep no state in common: the MCP    *)
(* bridges on the host and the two stores of the page.  The first state    *)
(* says which one runs.                                                    *)
(***************************************************************************)
EXTENDS Naturals, FiniteSets, TLC

CONSTANTS
    Clients,   \* callers, jobs, chats or projects
    Callers,   \* the calls of the index queue
    Repos, Mirrors, Files, Temp,
    None, Off,
    \* settings, see the modules of the parts
    ApplyTtl, LimitFiles, Tries, MaxJobs, MaxResults, PageSize, Retain, MaxHandles, PageTtl,
    TtlAfterComplete, MaxProcs, MaxBuff, Lengths, PageLines, Budgets, Width, Mark, Note,
    \* bounds of the parts
    MaxCalls, MaxEdits, CommitNow, MaxFiles, MaxScans, MaxChanges, PanelChanges, MaxFaults,
    MaxMatches, MaxNow, MaxSnapshots, MaxRecords, MaxEntries, MaxRuns, MaxSecond, MaxCrashes,
    PerChat, MaxClicks, MaxLists, MaxLines, MaxSlices, MaxNamed,
    MaxPlace

\* No session, file or tree is the value a variable holds when it holds none.
ASSUME NamesAssumption ==
    /\ None \notin Clients \cup Callers \cup Repos \cup Mirrors \cup Files \cup Nat
    /\ None \notin {"dry_run", "apply"} /\ \A S \in SUBSET (1..MaxFiles) : None # S
    /\ Repos \cap Mirrors = {} /\ Temp \notin Files

\* No limit is zero: constants, or clamped when read (cqds_host.py:18-19,
\* cqds_result_pages.py:22-63, cqds_host_grep_jobs.py:32-47, project_routes.py:1300).
ASSUME SettingsAssumption ==
    /\ {ApplyTtl, Retain, PageTtl, TtlAfterComplete} \subseteq Nat
    /\ {LimitFiles, MaxResults, PageSize, MaxHandles, MaxProcs, MaxBuff, MaxSecond} \subseteq Nat \ {0}
    /\ MaxFiles \in Nat \ {0, 1}
    /\ IsFiniteSet(Clients) /\ IsFiniteSet(Files) /\ MaxPlace \in Nat

\* Lengths are numbers; a page has a line, and a budget and a part of a wrapped line
\* a character, get clamped (mcp_gitbash_stdio.py:1535, 1610, 1613).
ASSUME PagesAssumption ==
    /\ Lengths \cup {Mark, Note, MaxNamed} \subseteq Nat
    /\ PageLines \cup Budgets \cup {Width} \subseteq Nat \ {0}

VARIABLES
    part,   \* the component that runs
    v1, v2, v3, v4, v5, v6, v7, v8, v9, v10, v11, v12, v13, v14, v15, v16, v17   \* its variables, in the order of its module

vars == <<part, v1, v2, v3, v4, v5, v6, v7, v8, v9, v10, v11, v12, v13, v14, v15, v16, v17>>

Commit == INSTANCE SafeCommit WITH
    Slots <- Clients, Ttl <- ApplyTtl, MaxNow <- CommitNow,
    git <- v1, dryTs <- v2, dryToken <- v3, repoMap <- v4, pubRepos <- v5, call <- v6,
    now <- v7, issued <- v8, staged <- v9, calls <- v10, edits <- v11

Search == INSTANCE ChunkedSearch WITH
    rows <- v1, linked <- v2, epoch <- v3, scanning <- v4, scope <- v5, chain <- v6,
    found <- v7, scans <- v8, changes <- v9, faults <- v10

Grep == INSTANCE HostSearch WITH
    Jobs <- Clients, Ttl <- PageTtl,
    table <- v1, job <- v2, store <- v3, now <- v4, told <- v5, handles <- v6,
    snapshots <- v7

Host == INSTANCE HostProcesses WITH
    Procs <- Files \cup {Temp}, Calls <- Clients,
    proc <- v1, registry <- v2, call <- v3, abandoned <- v4

Pages == INSTANCE FilePages WITH
    Pages <- PageLines,
    file <- v1, log <- v2, wrap <- v3, page <- v4, budget <- v5, slices <- v6, pc <- v7,
    lo <- v8, hi <- v9, best <- v10, out <- v11, given <- v12

Splice == INSTANCE LineSplice WITH
    Calls <- Clients, Lines <- Files,
    text <- v1, calls <- v2, replaced <- v3, glued <- v4, overtaken <- v5, blind <- v6

Queue == INSTANCE McpIndexQueue WITH
    Projects <- Files, Calls <- Callers,
    index_queue <- v1, index_jobs <- v2, worker <- v3, calls <- v4, made <- v5

Copilot == INSTANCE CopilotCheck WITH
    jsonl <- v1, path <- v2, tmp <- v3, pc <- v4, read <- v5, backups <- v6, second <- v7,
    written <- v8, slipped <- v9, overwrote <- v10, runs <- v11, crashes <- v12

Chat == INSTANCE ChatClient WITH
    Chats <- Clients,
    live <- v1, gone <- v2, journal <- v3, active <- v4, elsewhere <- v5, sel <- v6,
    shown <- v7, full <- v8, awaited <- v9, poll <- v10, clicks <- v11, list <- v12,
    asking <- v13, mixed <- v14, cutShort <- v15, missed <- v16, used <- v17

Panel == INSTANCE FilePanel WITH
    Projects <- Clients, MaxChanges <- PanelChanges,
    projects <- v1, files <- v2, active <- v3, selected <- v4, fileTrees <- v5,
    pendingRequests <- v6, selecting <- v7, creating <- v8, changing <- v9,
    debounce <- v10, told <- v11, doubt <- v12, spent <- v13

-----------------------------------------------------------------------------
Init ==
    \/ /\ part = "Commit" /\ Commit!Init /\ v12 = Off /\ v13 = Off /\ v14 = Off
       /\ v15 = Off /\ v16 = Off /\ v17 = Off
    \/ /\ part = "Search" /\ Search!Init /\ v11 = Off /\ v12 = Off /\ v13 = Off
       /\ v14 = Off /\ v15 = Off /\ v16 = Off /\ v17 = Off
    \/ /\ part = "Grep" /\ Grep!Init /\ v8 = Off /\ v9 = Off /\ v10 = Off /\ v11 = Off
       /\ v12 = Off /\ v13 = Off /\ v14 = Off /\ v15 = Off /\ v16 = Off /\ v17 = Off
    \/ /\ part = "Host" /\ Host!Init /\ v5 = Off /\ v6 = Off /\ v7 = Off /\ v8 = Off
       /\ v9 = Off /\ v10 = Off /\ v11 = Off /\ v12 = Off /\ v13 = Off /\ v14 = Off
       /\ v15 = Off /\ v16 = Off /\ v17 = Off
    \/ /\ part = "Pages" /\ Pages!Init /\ v13 = Off /\ v14 = Off /\ v15 = Off
       /\ v16 = Off /\ v17 = Off
    \/ /\ part = "Splice" /\ Splice!Init /\ v7 = Off /\ v8 = Off /\ v9 = Off
       /\ v10 = Off /\ v11 = Off /\ v12 = Off /\ v13 = Off /\ v14 = Off /\ v15 = Off
       /\ v16 = Off /\ v17 = Off
    \/ /\ part = "Queue" /\ Queue!Init /\ v6 = Off /\ v7 = Off /\ v8 = Off /\ v9 = Off
       /\ v10 = Off /\ v11 = Off /\ v12 = Off /\ v13 = Off /\ v14 = Off /\ v15 = Off
       /\ v16 = Off /\ v17 = Off
    \/ /\ part = "Copilot" /\ Copilot!Init /\ v13 = Off /\ v14 = Off /\ v15 = Off
       /\ v16 = Off /\ v17 = Off
    \/ /\ part = "Chat" /\ Chat!Init
    \/ /\ part = "Panel" /\ Panel!Init /\ v14 = Off /\ v15 = Off /\ v16 = Off /\ v17 = Off

CommitRuns ==
    part = "Commit" /\ Commit!Next /\ UNCHANGED <<part, v12, v13, v14, v15, v16, v17>>
SearchRuns ==
    part = "Search" /\ Search!Next /\ UNCHANGED <<part, v11, v12, v13, v14, v15, v16, v17>>
GrepRuns ==
    part = "Grep" /\ Grep!Next /\ UNCHANGED <<part, v8, v9, v10, v11, v12, v13, v14, v15, v16, v17>>
HostRuns ==
    part = "Host" /\ Host!Next /\ UNCHANGED <<part, v5, v6, v7, v8, v9, v10, v11, v12, v13, v14, v15, v16, v17>>
PagesRuns ==
    part = "Pages" /\ Pages!Next /\ UNCHANGED <<part, v13, v14, v15, v16, v17>>
SpliceRuns ==
    part = "Splice" /\ Splice!Next /\ UNCHANGED <<part, v7, v8, v9, v10, v11, v12, v13, v14, v15, v16, v17>>
QueueRuns ==
    part = "Queue" /\ Queue!Next /\ UNCHANGED <<part, v6, v7, v8, v9, v10, v11, v12, v13, v14, v15, v16, v17>>
CopilotRuns ==
    part = "Copilot" /\ Copilot!Next /\ UNCHANGED <<part, v13, v14, v15, v16, v17>>
ChatRuns ==
    part = "Chat" /\ Chat!Next /\ UNCHANGED part
PanelRuns ==
    part = "Panel" /\ Panel!Next /\ UNCHANGED <<part, v14, v15, v16, v17>>

Next ==
    \/ CommitRuns
    \/ SearchRuns
    \/ GrepRuns
    \/ HostRuns
    \/ PagesRuns
    \/ SpliceRuns
    \/ QueueRuns
    \/ CopilotRuns
    \/ ChatRuns
    \/ PanelRuns

Spec == Init /\ [][Next]_vars

Symmetry == UNION {Permutations(S) : S \in {Clients, Repos, Mirrors, Files}}
-----------------------------------------------------------------------------
(***************************************************************************)
(* An apply commits to a mirror that is allowed, on a dry_run of its tree  *)
(* (mcp_gitbash_stdio.py, the safe commit).                                *)
(***************************************************************************)
CommitIsPreviewed ==
    part = "Commit" => Commit!AppliedWasPreviewed /\ Commit!BoundIsAllowed

\* A commit of some files takes these files (mcp_gitbash_stdio.py).
PartialScope == [][part = "Commit" => Commit!PartialStep]_vars

\* A chain of chunks looks at every file of its list, and the list is of the
\* scan it claims (project_routes.py, smart_grep_scope_cache.py).
ChunksCover == part = "Search" => Search!ChainCovers /\ Search!ScopeFresh

(***************************************************************************)
(* What a host search answers is final, complete, and can be paged         *)
(* (cqds_host_grep_jobs.py, cqds_result_pages.py).  A process on the host  *)
(* has somebody who ends it, their number is bounded, and a wait for       *)
(* output hears it (cqds_host.py).                                         *)
(***************************************************************************)
HostJobsAreTrue ==
    /\ part = "Grep" => Grep!FinalIsFinal /\ Grep!CompleteTellsAll /\ Grep!HandleKept
    /\ part = "Host" => Host!Supervised /\ Host!SpawnsBounded /\ Host!TimedOutHeardNothing

\* A page of a file is the longest its budget allows, and not longer
\* (mcp_gitbash_stdio.py, read_file).
PageFits == part = "Pages" => Pages!PageIsLongest /\ Pages!WithinBudget

\* Edits by line keep the lines they do not name (mcp_gitbash_stdio.py, write_file).
LinesKept == part = "Splice" => Splice!LinesKept /\ Splice!OwnLines

\* A record of the index queue waits for something that comes (cqds_files.py).
RecordIsTrue == part = "Queue" => Queue!RecordIsTrue

\* A repaired log keeps every entry (cqds_chat.py).
OriginalKept == part = "Copilot" => Copilot!OriginalKept

\* The tab shows the chat it has selected, and all of it (stores/chat.js).
TabShowsItsChat == part = "Chat" => Chat!OnlyOfSelected /\ Chat!CompleteOrExplained

\* The panel at rest shows the project it has selected (RightPanel.vue, files.js).
RestIsSelected == part = "Panel" => Panel!RestIsSelected
=============================================================================
