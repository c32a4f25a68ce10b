# Colloquium-DevSpace in TLA+

Colloquium-DevSpace is a multi-user chat in which people and LLMs work on software projects
together: the core (`src/agent`, FastAPI on one event loop) keeps chats, posts and file links in
PostgreSQL, asks LLM providers for answers, runs the commands found in posts, keeps a code index
per project and gives maintenance jobs to worker processes; a sandbox container
(`src/projects/mcp_server.py`) runs the projects; MCP bridges (`src/mcp-tools`) expose all of it
to editors; a Vue frontend polls it.

This directory holds the specifications of its core logic, the TLC configurations that check
them, and TLAPS proofs of the results that should hold at any size. Paths in this file are
relative to the repository; `file:line` names code.

## How to run

    tlc -workers 2 -config MaintPoolTimely.cfg MaintPool.tla
    tlapm MaintPoolProofs.tla      # and the other modules with theorems

Each `.cfg` belongs to the `MC` module of its component, or to the component's own module where none
is needed (`MaintPool`, `FileLinks`, `CodeIndex`, `SandboxServer`). `PROJECT.json` lists the runs,
the mutants (a plausible bug per property, which TLC must find), the map from definitions to source
lines, the hazards and the theorems.

## Inventory

| Component | State | Operations | Who shares it | Module |
|---|---|---|---|---|
| **Maintenance pool** (`lib/maint_pool.py`, `scripts/core_maint_loop.py`) | table `maint_pool_jobs`; one loop per worker process | enqueue, claim, touch lease, complete, fail; spawn and shut down workers | orchestrator and routes enqueue; N worker processes claim | `MaintPool` |
| **Maintenance loop** (`scripts/core_maint_loop.py`) | inotify watches, failed subtrees, clocks of ticks and polls, the heartbeat file | self-test, wait, choose projects, tick, poll | the orchestrator, the pool, whoever writes the disk | `MaintLoop` |
| **Code index** (`routes/project_routes.py`, `lib/code_index_incremental.py`, `lib/maint_code_index_job.py`) | the file `<project>_index.jsl`; `FA_CODE_FILE` bits and `ts` of `attached_files` | full and incremental build, fingerprints, flag sync, cache write | the pool's job and any number of synchronous GETs | `CodeIndex` |
| **Index queue** of an MCP process (`cqds_mcp_full.py`, `cqds_files.py`) | a queue, a record per project, one worker | look, ask, queue, background build | concurrent tool calls | `McpIndexQueue` |
| **Background tasks** (`lib/background_task_registry.py`) | tasks per session, capped in both directions | create, read, take, result, prune | routes and threads | `BackgroundTasks` |
| **File links** (`managers/files.py`, `managers/project.py`, `scripts/core_maint_loop.py`) | table `attached_files` (name, ttl, ts), the project directories | reconcile tick, scan, listing with ttl, upload, update, move, unlink | pool workers, scan threads, request handlers, and whoever writes the disk | `FileLinks` |
| **Versions of files** (`managers/files.py`, `processors/file_processors.py`) | the files, their backups named by the second | edit, undo, move, unlink | tags in posts, routes, writers outside | `FileVersions` |
| **Edit tags** (`processors/patch_processor.py`, `entity_processor.py`) | the table of spans | `code_patch`, `lookup_span`, `replace_span`, insert | posts one after the other | `EditTags` |
| **Scan state** (`routes/project_routes.py`, `managers/project.py`) | one dict per project, which scans replace | refresh in the background or on the loop, scan for a search, mark a change | creations, searches, refreshes, uploads | `ScanState` |
| **Search in chunks** (`routes/project_routes.py`, `lib/smart_grep_scope_cache.py`, `cqds_client.py`) | scan epochs, kept lists of ids | chunk, 409, begin again | scans, evictions, restarts | `ChunkedSearch` |
| **LLM dialogues** (`managers/replication.py`, `managers/posts.py`, `managers/chats.py`) | `active_replications`, the asyncio lock and busy names of a chat, progress posts | post, process, replicate, recurse, gather | coroutines of one event loop | `Replication` |
| **LLM context** (`llm_cached_interactor.py`, `llm_interactor.py`, `lib/context_reference_store.py`) | snapshots, kept texts, anchors, pending FULL, shared attributes | collect, decide FULL or DELTA, extend or pack, send, commit, evict | dialogues of all chats, deletions | `ContextCache` |
| **Calls of models** (`llm_interactor.py:978-1105`, `llm_api.py`) | the connection an actor's dialogues share, usage cycles, rows of `llm_usage` and metrics | call, retry, answer, fail, count, write | dialogues of all chats, the provider, restarts | `LlmCalls` |
| **Posts and their delivery** (`managers/posts.py`, `routes/chat_routes.py`) | table `posts`, journal `changes_history` in memory | add, edit, delete, long poll, full fetch | handlers on the loop, polls in threads | `PostJournal` |
| **Chat store of a tab** (`frontend/src/stores/chat.js`, `LeftPanel.vue`) | selected chat, posts shown, awaited posts, flag "needs all" | poll, click, list, delete | answers that cross | `ChatClient` |
| **Project panel** (`RightPanel.vue`, `stores/files.js`, `requests.js`) | selected project, tree, joined requests | select, create, reload, notices | answers that cross | `FilePanel` |
| **Projects of posts** (`managers/project.py`, `managers/chats.py`, `routes/auth_routes.py`) | sessions' active project, registry of managers, directories | login, select, create, rename, post, answer, restart | sessions, polls | `ProjectContext` |
| **Sandbox** (`src/projects/mcp_server.py`, `lib/execute_commands.py`) | registry of processes, buffers, one script file per project | spawn, io, kill, wait, clean-up, execute | reader task per process, handlers, clean-up loop, two servers | `SandboxProcesses`, `SandboxServer` |
| **Text editor** (`mcp-tools/text_editor`) | a registry database and one database per session; the file on disk | open, read, edit, undo, redo, save, sync | processes of several clients, the disk | `TextEditor`, `Revisions` |
| **Safe commit** (`mcp_gitbash_stdio.py`) | trees and their index, bindings of trees to mirrors, tokens of dry runs | dry run, apply, commit, status, write file | concurrent tool calls, bash | `SafeCommit` |
| **Pages and line edits of files** (`mcp_gitbash_stdio.py`) | the file | read a page under a budget; splice by line numbers | two bridge processes | `FilePages`, `LineSplice` |
| **Host search** (`cqds_host_grep_jobs.py`, `cqds_result_pages.py`) | job table, result pages with TTL and LRU | start, pump, time out, snapshot, page | tasks of one loop, ripgrep | `HostSearch` |
| **Host processes** (`cqds_host.py`) | registry of processes with their tasks and buffers | spawn, pump, TTL, kill, wait | calls that overlap and are cancelled, pumps | `HostProcesses` |
| **Log repair** (`cqds_chat.py`) | an editor's files, backups | check, copy, replace | the editor | `CopilotCheck` |
| **Scheduler** (`managers/core_scheduler.py`) | rows of runs, registered jobs | register, run, restart the core, miss check | APScheduler, restarts | `CoreScheduler` |
| **Processes of the core** (`server.py`, `scripts/core_maint_loop.py`) | core, maintenance child, workers, the status file | start, pass over all files, SIGTERM, shutdown, restart of the container | Docker, crashes of each | `CoreProcesses` |
| **Password rotation** (`scripts/rotate_cqds_db_password.py`) | roles, secret file, encrypted tokens, the core's cached key | pull, alter, write, push | the core, whoever sets a token | `PasswordRotation` |
| **Migration** (`postgres/migrate_sqlite_to_postgres.py`) | two databases, sequences | copy, commit table by table, set sequences | a core that already writes | `Migration` |
| The rest | users, configuration, search in one piece, other MCP tools, rendering, providers, deployment | single statements, forwarding, rendering | | none |

How they interact: routes call managers, managers call `db.execute`, and every `execute` is a
transaction of its own under READ COMMITTED, so two calls in a row are two steps here. Pool workers
are processes that share the database and the project directories with the core. The `code_index`
job runs inside the pool's exclusion, the synchronous GET does not. The reconcile tick relies on the
pool for never overlapping another tick of its project. Dialogues write posts; posts reach clients
through the journal. A dialogue sends what `ContextCache` assembled, through `LlmCalls`. The project
of `ProjectContext` says where the tags of `EditTags` and `FileVersions` and the commands of
`SandboxServer` work. Each of these joints is one operation of the model on either side: a tick in
`MaintLoop` is a row in `MaintPool` and a pass over the links in `FileLinks`.

### What is hard, and what makes each part correct

* **Pool**: two workers choose one row; a claim is three statements; a worker dies, or outlives
  its lease, while another has its row. Correct: no two workers on one project, one active row per
  project, a row's status only moves along its lifecycle, no job is lost.
* **Index**: rows are listed before contents are read, builders overlap, the cache file is written
  in place. Correct: an index that says a file is unchanged has that file's lines; a rebuild
  catches up with the disk.
* **Links**: the `find` is older than the rows it is compared with, ttls are written from old
  reads, parties insert without a unique index. Correct: nothing is purged that was never lost;
  ticks settle on the disk. And the loop: no change goes unlooked at for longer than an interval.
* **Dialogues**: a lock is held while an LLM works, taken again for its answer and must not be
  held while the answer is spread; `gather` returns at the first exception. Correct: one coroutine
  inside, one dialogue per chat, every dialogue ends.
* **Contexts**: a kept text is extended over turns while posts are deleted under it; dialogues of
  all chats write the same attributes of one connection. Correct: what is sent is what was
  collected, a DELTA extends what its session was sent, a dialogue gets its own answer, and an
  answer is counted once.
* **Delivery**: the journal is shared, read and cleared in two steps, and in memory; answers reach
  a tab after it has moved on. Correct: a client is behind only for a reason one can name, is never
  told an older state after a newer, and shows the selected chat or project only.
* **Sandbox**: entries are spawned, read and killed by different tasks under a lock that blocks.
  Correct: no process outside the registry, every request answered, every entry released.
* **Files**: hunks, spans, lines, backups and revisions are found by positions, seconds and hashes
  that others move. Correct: an accepted edit changes its own lines; what was to be kept is there.
* **Host tools**: awaited git and ripgrep calls between a check and its use; processes killed by
  their TTL, by two calls, by a call that is given up. Correct: what is committed was previewed; a
  complete answer is complete; every process has somebody who ends it.
* **Operation**: scripts that stop halfway beside a core that runs; three levels of processes of
  which the lower are told to stop by the upper. Correct: one password opens everything; no used id
  is given again; a row that says running is being run; no process is left without a reason.

`PROJECT.json` has the hazards, each at its line with the property that covers it, or with a note
why none does.

## Modules

| Module | Models | Lines of the code |
|---|---|---|
| `ProjectSlots` | what the pool promises: a slot per project that is free, waiting or held | abstract |
| `MaintPool` | the job table, its claim transaction and the worker loop | `maint_pool.py`, `maint_pool_worker_main` |
| `MaintPoolProofs` | theorems about `MaintPool`; it implements `ProjectSlots` | |
| `CodeIndex` | rows, disk, cache file, builders, the pool's `code_index` row | `_build_project_index_sync`, `compute_dirty`, `merge_index`, `sync_code_file_flags` |
| `CodeIndexProofs` | theorems about `CodeIndex` | |
| `FileLinks` | rows and disk, ticks, scans, listings, one file request at a time | `run_tick_for_project`, `scan_project_files`, `add_file`, `update_file`, `move_file`, `unlink` |
| `Replication` | one chat: handlers, dialogues, coroutines, lock, progress posts | `replication.py`, `process_post`, `ChatLocker` |
| `PostJournal` | posts, journal, polls | `posts.py`, `get_chat` |
| `PostJournalProofs` | theorems about `PostJournal` | |
| `SandboxProcesses`, `SandboxServer` | processes of the sandbox; beside them the execution of commands in two servers | `mcp_server.py`, `execute_commands.py` |
| `Revisions` | what an editing session promises: a history that is only appended to | abstract |
| `TextEditor` | file, registry database, session database, server processes | `text_editor/service.py`, `storage.py`, `mcp_editor.py` |
| `ContextCache` | turns of an LLM in one chat, both cache layers, deletions meanwhile | `llm_interactor.py`, `llm_cached_interactor.py`, `collect_blocks`, `context_reference_store.py` |
| `MaintLoop` | one project: waits, events, forced ticks, polls, failures | `core_maint_loop.py` |
| `ScanState` | the dict of a project's scans, and who holds an older one | `project_routes.py`, `project.py` |
| `ChunkedSearch` | a chain of chunks against scans and evictions | `smart_grep/chunk`, `smart_grep_scope_cache.py`, `smart_grep_chunk_stable` |
| `FileVersions`, `EditTags` | backups and undo; hunks and spans on lines | `update_file`, `file_processors.py`; `patch_processor.py`, `entity_processor.py` |
| `ProjectContext` | sessions, projects, posts and their answers | `auth_routes.py`, `project.py`, `process_post` |
| `ChatClient`, `FilePanel` | the stores of a tab and the routes that answer them | `stores/chat.js`; `RightPanel.vue`, `stores/files.js`, `requests.js` |
| `BackgroundTasks` | the registry's two orders and its prunings | `background_task_registry.py` |
| `SafeCommit` | dry run, apply, commit and status on several trees | `_handle_git_safe_commit`, `_handle_git_repo_status` |
| `LlmCalls` | turns of all chats on one connection, from the built context to the answer's file | `interact`, `LLMConnection`, `_usage_cycle_markers`, `_build_llm_usage_row` |
| `CoreProcesses` | container, core, child, workers and the status file | `server.py`, `core_maint_loop.py` (`main` and the pool of workers) |
| `HostProcesses` | processes on the host, their tasks and the calls about them | `cqds_host.py` |
| `HostSearch` | a job beside its snapshots, the store of pages | `cqds_host_grep_jobs.py`, `cqds_result_pages.py` |
| `FilePages`, `LineSplice` | the page of a file under a budget; the splice of lines | `_handle_git_read_file`; `_handle_git_write_file` |
| `McpIndexQueue`, `CopilotCheck` | the bridge's own queue; the repair of an editor's files | `cqds_mcp_full.py`, `cqds_files.py`; `cqds_chat.py` |
| `CoreScheduler`, `PasswordRotation`, `Migration` | cron runs; the rotation script; the migration script | `core_scheduler.py`; `rotate_cqds_db_password.py`; `migrate_sqlite_to_postgres.py` |
| `MCCore`, `MCProjects`, `MCClients` | each runs, one at a time, components that keep no state in common | |
| `ReplicationProofs`, `TextEditorProofs` | theorems about `Replication` and `TextEditor`, which implements `Revisions` | |
| `CoreProofs`, `ProjectsProofs`, `ClientsProofs` | theorems about the components of `MCCore`, `MCProjects` and `MCClients` | |
| other `MC…` | symmetry sets, model values, conjunctions of invariants | |

### MaintPool and ProjectSlots

`jobs` is the table, `txn[w]` the uncommitted part of worker `w`'s claim (the expired rows its
first UPDATE has locked and the row its SELECT chose), `proc[w]` where the worker is in its loop.
`lease` is the time left; `-1` is `lease_expires_at < now`, `NoLease` is NULL. `Enqueue` is
`enqueue_maint_job` with the partial unique index; `ClaimSelect` and `ClaimCommit` split
`claim_next_job` where other transactions can come in between, with the row locks of READ
COMMITTED; `Heartbeat`, `Complete` and `Fail` are the single UPDATEs, with the WHERE clause each
of them has (the last two look at `job_id` alone); `Raise`, `Abandon`, `Crash` and `Restart` are
the exception paths and the deaths of processes.

`ProjectSlots` says what callers rely on: a slot per project, given back by its holder only, and
returned to the queue only if its holder is lost. `ImplementsSlots` is the refinement, with
`slot` and `executing` computed from the table and the workers.

### CodeIndex

`disk[f]` is a content, a number of its own; `sec[f]` is the second it goes by and `ts[f]` the one
the row knows. Times are whole seconds, and a caller of `update_file` gives the time it took before
it waited for the file's lock: two contents may go by one second, and a later one by an earlier
second (`Edit`). `twice[f]` are the seconds by which two saves went; of a row that tells such a
second (`Told` is false) the properties say nothing, as the code cannot tell its contents apart
(below). An empty save changes the times alone. A builder goes through `scan`, `read`, `list`,
`pack`, `clear`, `set`, `open`, `write`, `done`: these are the points between which another builder,
an edit or a crash can come. `Torn` is a cache file that is not JSON, as an open for writing leaves
it.

### FileLinks

A row has a name in one of two spellings (`path` from ticks, `project/path` from scans), a ttl, and
a history bit `lost`: whether the file was off the disk during the row's life. A tick is `TickFind`,
`TickLinks`, then `Degrade`, `Recover` and `TickAdd` name by name, in the order of the code's three
loops. `adding` is `add_file` between its SELECT and its INSERT or UPDATE; `view` is a listing
between its probe and its UPDATE; `api` is a request between its statements. The module runs by
itself for its liveness and as a part of `MCProjects` for its safety, as does `SandboxServer`.

### Replication

A coroutine is named by the path of LLMs that leads to it, so its depth is `rql`. An action is
what runs between two awaits. `line` is the asyncio lock: its holder, then those who wait, first
come first served. Texts are reduced to what the code looks for: the names the trigger matches,
the names `_broadcast` matches (the two differ), and whether a text is a progress post. What the
agent makes of a text (`Results`, `Replies`) and what an LLM answers (`LlmTexts`) is any member of
a given set.

### PostJournal

A post is its number of writes; `seen[c]` is what responses have told client `c`; `logged`,
`missed` are history. A poll is `PollRead`, `PollSelect`, `PollClear`, `PollAnswer`, the steps of
`get_history` in its thread; writers have a step between the statement and `add_change`. A poll
that the client gives up (25 s) after the server answered (15 s of waiting) is `PollLost`. One poll
per client: the frontend's `isPolling` guard (`stores/chat.js:71-170`).

### SandboxProcesses and SandboxServer

All handlers are coroutines of one loop, so an action is what runs between two awaits, and the
registry's `threading.Lock` blocks the loop's own thread: `Locked` turns a coroutine that wants a
lock held across an `await` into `loop = "stuck"`. `os[g]` is what the system knows of a process,
`registry[g]` what the server does; a reader task is `ReadTurn`. `SandboxServer` adds `execute()`,
which runs in the core and in the sandbox on one script file: `Execute` writes it, `OpenScript` is
the child's own reading of it some time later.

### TextEditor and Revisions

One file, one session, a server process per client; every statement or transaction is a step and a
process may die after any. `Revisions` is the promise: a number a client was told keeps naming the
text it saw as long as the history is kept, the file changes only by a save of the newest revision
or from outside. A clean-up forgets the session and not what its clients were told: they keep the
number (`seen[c].old`), the next session begins at 1 under the same id, and the check of
`expected_revision` lets the number pass. `EditsWhatWasSeen` and `Revisions` promise nothing of such
numbers; what is done with one disturbs no other property. `KeepsPromise` is the refinement; it
holds until two calls have met or a process has died between the two databases (`disturbed`), which
the code does not survive and the run stops at.

### ContextCache

A turn of `interact` is `collect_blocks` in a worker thread, `Filter` and `GetPrefix`, the decision
(`Decide`), the text (`Put`, `Assemble`) and the request with its commit (`Send`). The token limit
may end the loop over the blocks, newest first, at any post (`cut`: the older posts and the file are
left out), and the loop over the patches at any patch (`Fitting`). `snap` is Layer A, `mp` Layer B;
`prompt` and `fresh` are the attributes that all chats' dialogues share. Deleting a post has a step
per eviction, so a build may hold what was evicted. A context is what it shows of posts and file.
The pack's index lists files and not texts (the packer is a submodule that is not in the
repository).

### LlmCalls

A turn is a number; `payload` and `last` are the attributes that the dialogues of an actor share,
as the turn whose request or answer they hold. A coroutine waits for the provider (`called`) and
for the answer's file (`writing`), and between two waits it is one action: `Call` makes the payload
and sends what it holds, `Answer` stores the result, reads the text back and writes cycle, metric
and row. What an error leaves behind depends on where it is raised (`ProviderFails`, `CountFails`,
`WriteFails`).

### MaintLoop and ScanState

`MaintLoop` counts time in waits without event. `dirty` are the changes no find has seen, `late`
how long one has waited. `ScanState` keeps dicts as objects: who read a dict changes that dict,
which may no longer be the one in the store. `LoopScan` is a scan on the event loop, which nothing
interrupts; `PoolScan` that of GET `/project/code_index` and of the core's start, in a thread of the
pool: it neither asks nor sets `running`, and its dict may outlive a task that ends meanwhile
(`outlived`).

### ChunkedSearch and HostSearch

The server keeps no cursor, so `chain` is what client and continuation carry. `found`, `told` and
`handles` are history. A host job is a task with its places (`pump`, `wait`, `finally`), which may
stand anywhere while a snapshot is taken. `silent` marks a job whose engine met an error that the
code does not tell: ripgrep that does not start, its exit code 2, a line too long for the reader, a
file the fallback cannot read.

### HostProcesses

The registry, and a record per process: what the system does with it, the length of its buffer,
whether its pumps run and its TTL is awaited. Calls stand at their awaits (`creating`, `told`,
`killing`, `wait`), each of which the client may cancel.

### FileVersions, EditTags, LineSplice, FilePages, CopilotCheck

Texts are numbers or sequences of lines, times are seconds. The arithmetic is kept as the code
has it: eight offsets in a list whose item 0 is `None` and whose negative indices count from the
end, `NAME.*` for the backups of `NAME`, bisection from the head or the tail.

In `EditTags` a file is a sequence of lines; `Applied` is what one line of a hunk does to the list,
`apply` the whole hunk at one offset, `detect_offset` the choice among them, and `done` the tag just
accepted, with what it was given. `Saved` is `update_file`, which writes no empty text. In
`LineSplice` a line is the names of what was put in it and whether a newline ends it, so that two
lines run together (`Joined`) are one line with two names; a call whose read failed is `unread` and
writes its content over the whole file (`WriteUnread`, `blind`). In `FilePages` `slices` are the
valid ones and `given` says whether any were asked for; a line is its length, and the text of a
range the difference of two sums of widths.

### SafeCommit

A file has a text in the tree, in the index and in HEAD; a call is between its child processes.
`commit_prepare.py` is external: it succeeds or not, and copies the tree when it does.

### ProjectContext, ChatClient, FilePanel

The first is the server's side: the row of a session, the registry of managers, the context
variable a post's task hands on. The others are a tab's side, with every request in flight, every
answer computed when the server handles it and shown when it arrives.

### CoreScheduler, CoreProcesses

A row of runs, the container that is up, and `deaf`: whether GET `/core/status` has been asked
since its start, after which the core does not hear SIGTERM (below). `CoreProcesses` has the three
levels of processes, each with the places between which a signal or a crash makes a difference: a
child that has no handlers yet dies of SIGTERM outright and leaves its workers.

### PasswordRotation, Migration, BackgroundTasks, McpIndexQueue

The first two are steps of long-running operations with a stop after each. A user may have no token
at the pull; one that is set after it and that the core encrypts before the roles are altered is in
no list (`unstaged`). The core's insert takes its id from the sequence and is `pending` until it is
committed; `read_max` and `setval` are two steps, as the MAX sees what is committed and sequences
obey no transaction, and `slipped` are the tables whose last `setval` went back on an id the core
had. The last two are registries changed by interleaved calls. A session's tasks are records whose
numbers are the order of their creation.

## Runs

| Run | Constants | States | What it shows |
|---|---|---|---|
| `pool_timely` | 2 workers, 2 projects, 3 rows, 2 faults, lease of 1 tick | 218 k | with timely heartbeats, no two workers act on one project, statuses follow their lifecycle, and the pool implements `ProjectSlots` |
| `pool_late` | the same, 2 rows, late heartbeats, fairness | 134 k | what survives stale workers: one active row per project, and every job ends unless all workers are dead |
| `index_safe` | 2 files, one linked; pool job and GET; 3 saves in 2 seconds, revision cap 1, 1 crash | 8.3 M | fingerprints vouch for lines, also when saves share a second |
| `index_live` | 2 files linked; the pool job; 3 saves in 3 seconds, cap 2 | 151 k | a rebuild catches up |
| `links_settle` | tick and API, 6 rows, 3 events, fairness | 381 k | ticks bring the table to the disk |
| `replication` | LLMs a, b; one message to all, one to a, to a without a space after the name, or to no one; 2 levels; 1 event; fairness | 305 k | one coroutine inside, dialogues overlap only after an exception, dialogues end |
| `journal` | 2 posts, 2 clients, 3 writes of a post and 4 changes in all, 1 fault | 3.0 M | why a client may be behind, and that it never goes back |
| `sandbox` | 2 processes, 2 commands, 2 pieces of work per behaviour, 2 servers, fairness | 334 k | requests are answered, entries released |
| `editor` | 2 clients, 3 texts, 3 revisions; old numbers: 1 | 2.4 M | numbers, snapshots and previous texts agree; operations work on what was seen; saves lose nothing; `Revisions` is implemented |
| `core` | nine components, one at a time (bounds in `MCCore` and `Core.cfg`) | 6.0 M | contexts and calls of models, DELTA, cron rows and processes, the loop, background tasks, projects of posts, the rotation, the migration |
| `projects` | five components, one at a time (bounds in `MCProjects` and `Projects.cfg`) | 1.0 M | purges of links, backups, edit tags, scan states; no process of the sandbox outside the registry, each read and ended as shown, executions run their own text |
| `clients` | ten components, one at a time (bounds in `MCClients` and `Clients.cfg`) | 2.3 M | safe commits, chunks, host searches and processes, pages, splices, the queue, the repair, the two stores |

In `core`, `projects` and `clients` the first state says which component runs (`part`), and one list
of variables serves them all in the order of each module's `vars`: nothing is shared, so the union
of the components' state spaces is all there is to explore. Some properties of these runs are
conjunctions of properties of a module; there is a mutant for each conjunct that matters.

### Bounds, and why they are enough

Two actors of a kind show every race of two; no statement in this code involves three. In the pool
three rows let a project have a finished, an expired and a new row while the other project competes
for the workers; a lease of one tick has all three phases: fresh, last moment, over. Two faults are
a crash and an error in the same behaviour. In `CodeIndex` three saves are an initial content and
two edits, so an edit can come before and after each of two builds; two seconds let two of them
share one and the third come late, three give each its own; cap 1 reaches the forced full build, cap
2 has an incremental build on top of an incremental build. In `projects` the links have two files in
both spellings, one scan beside tick, listing and requests, two rows and two changes, and `LinkTtl =
2`, the smallest ttl with a warning before the purge: with 1 `PurgeNeedsLoss` does not hold.
`links_settle` has six rows and the tick and the requests alone. In `Replication` `MaxRql = 2` gives
an answer to an answer; the paths of coroutines bound the rest. In `PostJournal` three writes are an
add, a delete and an edit after it (which `edit_post` permits). Where there is symmetry it is
between the members of sets of which no definition singles one out, and only safety properties are
checked under it.

In `SandboxServer` two pieces of work are two processes, two commands or one of each, with a pipe
and a buffer of one read, so both fill up. In `TextEditor` three revisions are an open, an edit and
an edit, undo or synchronisation after it; a number told before a clean-up is followed where it is
1, which every new session has at once, and the behaviour ends where it is another (`OldNumbers`: it
is refused, or passes once the new session has come as far). In `ContextCache` a window of two of
three posts lets a post leave it; three turns are a FULL, a DELTA on it and one after what an edit,
a deletion or a failure did; a cut of the limit counts as the one failure, as either makes the next
context differ. `ScanState` has two background tasks, one scan on the loop and one of the pool.
`SafeCommit`'s three calls are two dry runs and an apply, or a commit between them, on two trees and
two mirrors. `ChunkedSearch` has two chunks of two files, and two scans, so an epoch can change in
each. `HostSearch` has one job in the table and two that want it, two handles and three snapshots,
so that each limit is met. `MaintLoop` has a failed and a good subtree and intervals that differ.
`FileVersions` allows three backups in three seconds, two of them in one. `EditTags` has all files
and hunks of up to three lines, headers with first lines 1 and 2, code of one line and one span at a
time. `ChatClient` has three clicks between two chats (A, B, A), `FilePanel` the same.
`PasswordRotation` has two rotations, two stops, one in each, and two tokens that are set meanwhile.
`Migration` has three runs, two of them stopped, and three inserts of the core. `LlmCalls` has three
turns in two chats, so two overlap and one follows; two seconds, and one fault. `CoreProcesses` has
two workers, two containers, one after the other, and two faults: one that starts the trouble and
one in dealing with it. `HostProcesses` has a cap of one, two calls and three processes, so that two
spawns pass the check together and a third could only by mistake. The pages of `FilePages` are all
pages of up to five lines of two lengths under two budgets, which the lengths exceed, meet and miss.

`CHECK_DEADLOCK FALSE` stands where the system may really stop: all jobs are done and no more are
enqueued, or nobody writes to the chat. The journal is checked for deadlock. In
the other runs a behaviour ends where its bounds do.

### Fairness

* `MaintPool`: weak fairness of `Tick` (time passes) and of each worker's steps (a live worker
  sleeps and goes on, `maint_pool_worker_main`). Nothing obliges anyone to enqueue, crash or
  restart; claims are weakly fair as a whole, not per row.
* `CodeIndex`: weak fairness of the pool's builder and of the second half of `update_file`. GETs
  are under no obligation.
* `FileLinks`: weak fairness of the tick (the orchestrator enqueues one per interval and the pool
  runs it, which `JobsEnd` shows), and of the second halves of requests. No one has to scan.
* `Replication`: weak fairness of `Step`: the event loop runs what is ready, and a provider call
  ends, at its timeout of 600 s at the latest (`llm_api.py:158`). Sending is not fair.
* `SandboxServer`: time passes, the clean-up loop comes round (`mcp_server.py`, the periodic task)
  unless the loop is held, a line that a command has begun gets its end, and the polling of a
  request goes on to its answer or its timeout. Nothing obliges a command to end or a client to
  read.
* `PostJournal`: no liveness is checked; a client may never poll again.

## What is proved

Each theorem holds for every value of the constants that the named assumptions allow: any number of
workers, clients, files, posts, calls, restarts, and any limits. The method is the same throughout.
The inductive invariant (`IInv`, in the module itself, next to the property it serves, or in its
proof module) says what is true at each place of an operation under way; TLC checks it first; then
`Init => IInv`, `IInv /\ [Next]_vars => IInv'` with one lemma or step per action, and
`IInv => property`. Action properties and refinements follow from the same invariant and a look at
each action.

| Module | Theorems | Properties of runs |
|---|---|---|
| `MaintPoolProofs` | `Exclusion`, `Lifecycle`, `OneActive`, `Implements`; `TypeCorrect`, `RunningHasLease` | `ProjectExclusion`, `StatusLifecycle`, `OneActivePerProject`, `ImplementsSlots` |
| `CodeIndexProofs` | `SoundFingerprints`; `TypeCorrect`, `LinesVouchedFor` | `FingerprintSound` |
| `PostJournalProofs` | `BehindForAReason`, `NeverBack`; `TypeCorrect` | `StaleExplained`, `NoGoingBack` |
| `ReplicationProofs` | `DialoguesStayApart` | `DialoguesAreApart` |
| `TextEditorProofs` | `RevisionsStayTrue`, `SavesLoseNoEdit`, `EditorKeepsPromise` | `RevisionsAreTrue`, `NoLostEdit`, `KeepsPromise` |
| `CoreProofs` | `RotationOpensAll`, `RunningIsExplained`, `ChangesAreTried`, `PostsStayInTheirProject`, `MigrationKeepsRows`, `TurnsStayTrue`, `DeltaAlwaysExtends`, `TasksGoOldestFirst` | `SecretOpensAll`, `RunningExplained`, `ChangeIsTried`, `PostsKeepTheirProject`, `MigrationIsWhole`, `TurnsAreTrue`, `DeltaExtends`, `OnlyOldestGo` |
| `ProjectsProofs` | `ScanStateStaysTrue`, `BackupsStayReadable`, `TagsKeepToTheirLines`, `PurgesNeedALoss`, `ProcessesStayKept` | `ScanStateIsTrue`, `BackupsKept`, `TagsChangeTheirLines`, `PurgeNeedsLoss`, `ProcessesAreKept` |
| `ClientsProofs` | `CommitsStayPreviewed`, `CommitsStayPartial`, `ChunksStayWhole`, `HostJobsStayTrue`, `RecordsStayTrue`, `OriginalStaysKept`, `TabStaysTrue`, `PanelRestsTrue`, `PagesStayLongest`, `LinesStayKept` | `CommitIsPreviewed`, `PartialScope`, `ChunksCover`, `HostJobsAreTrue`, `RecordIsTrue`, `OriginalKept`, `TabShowsItsChat`, `RestIsSelected`, `PageFits`, `LinesKept` |

Assumptions are the named ASSUMEs: bounds and limits are naturals (a revision bound of the editor is
at least one, intervals of the loop at least one, as `get_float` clamps them), null values are not
values (`PoolAssumption`, `IndexAssumption`, `JournalAssumption`, `EntryAssumption`,
`EditorAssumption`, `NamesAssumption`), the tables of the migration are a list whose numbered ones
are in it (`TablesAssumption`), the loop's project has a root (`RootAssumption`), sizes of contexts
are numbers (`NumbersAssumption`), the registry of tasks and the sandbox have limits
(`TasksAssumption`, `SandboxAssumption`), the ttl of a link is at least one, as `get_int` clamps it,
and names in the scans' spelling are there if there are scans (`LinksAssumption`), no line of a file
is the `None` in front of the list (`TagsAssumption`), lengths are numbers and no page, budget or
part of a wrapped line is empty (`PagesAssumption`), no limit of the host tools is zero and the
clients and files are finitely many (`SettingsAssumption`). Where a theorem needs timely heartbeats
it says so, and `PurgesNeedALoss` says that the ttl is above one (the code's default is 3,
`files.py:123`). Bounds such as `MaxRuns` stand in guards and are any naturals.

`CoreProofs`, `ProjectsProofs` and `ClientsProofs` are about the modules the runs `core`, `projects`
and `clients` check (`MCCore`, `MCProjects`, `MCClients`): a state says which component runs and
never changes that, so a component's invariant is preserved by its own steps (the lemma `…Step` of
each) and untouched by the others' (`StepIsOfPart`, `Stutters`).

`MaintPoolProofs`. The inductive invariant is

    IInv == TypeOK /\ TxnInv /\ BusyHasJob /\ OneActivePerProject /\ LeaseIffRunning

`TxnInv` is the part the properties do not mention and the proof cannot do without: a claim's
locked rows are expired rows of nobody else, which is why its UPDATE brings no finished row back
to life and two claims cannot both requeue one. `OneActivePerProject` is inductive only because
the claim's last UPDATE repeats `status = 'queued'` and `Complete` and `Fail` only ever take a row
out of the active ones, however stale the worker. Theorems `TypeCorrect`, `OneActive` and
`RunningHasLease` follow without any assumption about heartbeats. Under `TimelyHeartbeat` the
invariant is strengthened by `Ownership` (who acts on a job is the worker of its row, which is
running with a lease that is not over): `Tick` preserves it by its guard, a claim because it
requeues rows with an expired lease only. `Exclusion` and `Lifecycle` follow, and need the
assumption: with late heartbeats TLC finds both violated.

`Implements` is the refinement of `ProjectSlots`, from the same two invariants.
`OneActivePerProject` makes a project's slot the status of its one active row (`SlotValue`). Then
each action has its image: `Enqueue` is `Request`, `Complete` and `Fail` are `Release` by the holder
(`Ownership`: only the holder acts), the deaths and errors are `Lose`, `Heartbeat` and `Tick` are
stutters. A claim is the hard one (`ClaimTakes`): the rows it requeues belong to orphaned slots,
because a worker that still acted on such a project would own its only active row, with a lease that
is not over (`ExpiredOrphaned`); the row it takes was waiting or is among those it requeued in the
same transaction, which is why `Take` has a set to reclaim.

`CodeIndexProofs`. `FingerprintSound` speaks of the cache only; to be inductive it must hold of
every index a builder has in memory, and of what it has listed:

    Vouches(i)    where i's fingerprint is the second of the content, and no two saves went by that
                  second, i's lines are the content; and a fingerprint is a second of some save
    Dated(f)      every time a row, a pending row or the disk carries is that of some save
    BuilderInv    Vouches of what was read and of what will be written; listed times are of saves

A save goes by a second that no save of its file had, and then no fingerprint can have it either, or
by one that is in `twice` from now on and vouches for nothing: on this the argument turns.
Theorems: `TypeCorrect`, `LinesVouchedFor`, `SoundFingerprints`, for any number of files,
builders, edits and crashes.

`PostJournalProofs`. Both properties are proved for any number of posts, clients, writes and
faults. `NoGoingBack` rests on `HistoryInv` (what a poll has selected is no older than what its
client knows and no newer than the table), which rests on `DeletionsTrue`: an entry that says
"deleted" is about a row that is deleted, and no write brings such a row back. `StaleExplained` is
not inductive: a poll that finds nothing to tell forgets the entries it read, and one that fails
leaves to the journal those that nobody has cleared. The strengthening, `Owed`, follows the *right*
entry: for a deleted post only a deletion counts, for a shown one any entry. `PollInv` ties the
entries a poll holds to the journal through the number of changes ever logged. Theorems:
`TypeCorrect`, `BehindForAReason`, `NeverBack`.

`ReplicationProofs`. `OneInside` needs the line of the lock: who waits or holds is in it, once
(`LineOK`). `OneDialogue` needs the whole tree of coroutines, because `gather` returns at the first
exception while others go on: every coroutine has the one that started it (`PathsOK`), a round is
started once (`RoundsOK`), and unless a branch has raised everyone above a working coroutine waits
for it (`Awaited`). So a dialogue that ends leaves someone at work only after an exception, which is
the exception the property names (`DialoguesOK`). The lemmas `Moves…` are about one coroutine that
moves and starts others; each action is an instance of them. LLMs, messages, depth and texts are
any.

`TextEditorProofs`. The invariant says of each place of a call what the two databases and the
caller's copy have in common: `Fits` whatever happens, `Exact` until calls meet or a process dies
(`disturbed`), and, unless a write fell into a save (`excused`), that the text of the file is in the
history (`FileTrue`, `WatchedInv`). `SavesLoseNoEdit` is that last part at the last step of a save.
What a client was told is known (`Known`) or old, and of an old number the invariant asks nothing
but its type. `EditorKeepsPromise` maps each action to one of `Revisions`: a session opened is
`Open`, its clean-up `Forget`, the session's commit of an edit or a synchronisation is `Append1`, an
answer is `Tell`, the last step of a save is `Save` or, for a text that came in between, `Outside`,
and the rest stutters.

`CoreProofs`. In each case the property speaks of the rest state and the invariant of the way there:

* `RotationOpensAll`: which password role, file and tokens have at each place of a rotation
  (`OpensAtEachPlace`), the tokens that no list has apart (`unstaged`); a stop in the wrong place
  sets `marred`.
* `RunningIsExplained`: a row says running before its coroutine's last statement
  (`RunningGoesOn`); workers are started last and all told first (`WorkersHaveChild`), so one left
  alive had its child die outright.
* `ChangesAreTried`: how long a change has waited is bounded by the clocks of tick and poll at each
  place of a round (`WaitsForTick`, `WaitsForPoll`); the bound turns on where in a round the clocks
  are looked at.
* `PostsStayInTheirProject`: a post under way has noticed every project its session selected since
  (`PostsFollow`).
* `MigrationKeepsRows`: the tables before the current one are whole (`DoneAreMigrated`), an id is
  one row (`IdsAreOnce`), the sequence is above all that is used or pending (`Ahead`) unless its
  table has `slipped`, through stopped runs; the MAX that was read is below every id committed since
  or it slips at the `setval`.
* `TurnsStayTrue`, the contexts. A context shows the collected posts above its cut, whatever was cut
  before: a fingerprint counts what it shows (`Counted`), and a decision compares it with what this
  turn's limit lets in. Texts only go on: one that waits has always waited, and a file's
  time never falls, so a fingerprint keeps fitting posts that came after it (`FingerprintOK`). A
  kept text never shows a wait in a patch (`PrefixOK`), and one that goes up to the last post of a
  fingerprint is of that fingerprint's turn (`Follows`, `SameTurn`); a FULL in between drops it, a
  deletion drops both layers, and what a turn has in hand by then is still a pair of one turn
  (`PrefixInHandOK`). So what is put together from a kept text shows the same as what would be
  packed (`Shows`, `ContextReused`). `DeltaAlwaysExtends` follows from `DecidedOK`: the
  decision was made against the session's last committed fingerprint.
* `TurnsStayTrue`, the calls. A row is of a turn of the past (`RowsAreOfThePast`), and a chat's
  cycle is that of its last row unless a turn failed since (`CycleIsLast`), which is why the
  difference a row counts is the one to the row before.
* `TasksGoOldestFirst`: sessions stand in the order of their last uses (`OrderedByUse`), a task is
  in its session once (`OneEach`), and there is never more than one too many (`OneTooMany`). So the
  one that goes is the least of more than `MaxTasks` records, and the session that goes is before
  all others in use.

`ProjectsProofs`. Likewise:

* `ScanStateStaysTrue`: dicts are objects, so the invariant speaks of every dict somebody holds and
  may put back (`RunningHasTask`): each that says running has a task that has not ended, unless a
  dict of the pool outlived one.
* `BackupsStayReadable`: each backup taken is at its name and second, or taken by an undo, or two
  share the second.
* `PurgesNeedALoss`: what a tick's find lacks has lost its file or has its full ttl, when the tick
  reads the rows (`NotFound`) and in what it works on (`NotFoundInWork`), as ticks of a project do
  not overlap; a listing lowers the ttl only of what was lost (`ProbedIsLost`). So a ttl of one is
  that of a lost row, and with a full ttl above one the tick only warns.
* `TagsKeepToTheirLines`: after some lines of a hunk, all matched, the list is the first one with
  the new lines so far in the place of the old ones so far, from the offset on; or nothing was there
  to match and new lines went in outside the list; or something stands in front of its `None`
  (`TagsShape`). One `None` is in it all the time (`TagsOneNone`). A hunk with a line to find ends
  in the first case, as a patch that leaves something in front of the `None` is refused, so the
  matched lines are a piece of the file. For spans: the hash is the text, so what was looked up is
  still at its place when it is replaced, and the rest is about pieces of sequences.
* `ProcessesStayKept`: a status says how far its spawn is (`StartingIsSpawning`: a starting entry
  has a spawn under way and no reader yet), an entry that failed has no process, and a lost entry
  was lost to the clean-up; with these, kills, ends of output and time-outs keep the reader and the
  entry together. And a request that is alone is the only one open, and the script is its own until
  its child has read it (`AloneIsOpenAlone`).

`ClientsProofs`. Likewise:

* `CommitsStayPreviewed`: a binding's token is that of a dry run of its own tree (`BindingsOK`), an
  apply under way has such a token (`HasToken`); `CommitsStayPartial` rests on `StagedIsOwn` and on
  `GitOK`, that what HEAD lacks of an index somebody has staged.
* `ChunksStayWhole`: what is still to scan of the first list lies behind the offset (`Ahead`),
  whatever is found, unless the list has shifted; needs lemmas on places in lists of ids.
* `HostJobsStayTrue`: what a job has counted at each place of its task (`JobOK`), who waits for
  which process (`Creating`), what a wait can have missed (`NewsIsHeld`), and counting lemmas for
  the cap of spawns and the least handle evicted.
* `RecordsStayTrue`: the record of the job a worker has is its own. `OriginalStaysKept`: while the
  file is about to be replaced the backups have it (`BackupHasIt`).
* `TabStaysTrue`: an answer carries posts of its own chat only (`AnswersOfTheirChat`), and what a
  full answer lacks came after it was read (`FullIsComplete`).
* `PanelRestsTrue`: the session is told of clicks in their order (`PostsInOrder`), and the tree of
  the selected project is shown, asked for, or about to be (`TreeComes`).
* `PagesStayLongest`: where no slices were given, the bisection keeps a page that fits on one side
  and one that is too long on the other; sums of widths grow with the range, so where it ends no
  longer page fits.
* `LinesStayKept`: the names in a text put together are those of its parts, a text that a call has
  read was the file once and has an open line at its end only (`Reads`, `ClosedInside`), so what a
  splice leaves out is what its arguments name; a call that could not read is `blind`.

Only model-checked is liveness (`JobsEnd`, `RebuildCatchesUp`, `TicksSettle`, `DialoguesEnd`,
`Answered`, `Released`), which is beyond the prover; every invariant and every action property of
the runs is stated by a theorem. Nothing is proved by an induction over data: where a definition
counts along a sequence (the sums of `FilePages`, the lines of a hunk in `EditTags`), it is a
function of the place, and the proof takes the least place at which the claim would fail. The three
theorems of type correctness, `RunningHasLease` and `LinesVouchedFor` are proved for every value of
the constants and are in no run: they are parts of what the runs check.

The whole takes the prover about half an hour on four cores: seven to thirteen minutes each for
`CoreProofs`, `ProjectsProofs` and `ClientsProofs`, one to three for the others.

## Where the code departs from what is said, or could be expected

Each item was met while modelling. Those that a document, comment or tool text contradicts are
quoted with its place. The properties of the runs are true of the code as it is: where it departs,
the property says what holds instead (`disturbed`, `lost`, `evicted` and the like name the
exceptions), or the departure is outside the property.

**Pool, index, links, dialogues.**

* `docs/CORE_BACKGROUND_WORKERS.md:36` gives the statuses as `queued -> running -> done|error`.
  `complete_job` and `fail_job` (`maint_pool.py:289`) update by `job_id` alone, so a worker that
  outlived its lease overwrites the answer of the next holder (`StatusLifecycle` without timely
  heartbeats).
* The full build is described as taking all files of the project (`project_routes.py:113`). It
  lists rows with `FA_CODE_FILE`, and every build ends with clearing that bit on all rows but its
  own: a file linked in between is never indexed again.
* Rows and fingerprints carry whole seconds (`files.py:629-630`,
  `code_index_incremental.py:143-152`): a second save of a file within the second of the first
  leaves the fingerprint equal and the lines of the first, until a later save. A known file that was
  changed outside keeps its `ts` when it is added again (`files.py:625`), so it is not dirty either.
* `code_index` in refresh mode calls `scan_project_files(project_id=...)`, which has no such
  parameter (`project_routes.py:171`).
* `docs/CORE_OPTIMIZATION.md:54-63` compares names relative to the project on both sides and
  promises that repeated ticks do no harm. Scans store `project/path` (`project.py:381`), so ticks
  purge their rows.
* The comment at `posts.py:231-232` says a progress post is filled or deleted. A mention at the end
  of a message matches the trigger and not `_broadcast`; a dialogue dropped because another is
  active does the same; and the deletion is refused, as the agent is not the author.

**Loop and scan states.**

* The poll of a failed subtree at the root of a project has the prefix `.`, which no link begins
  with (`core_maint_loop.py:1218`): it adds and never removes, though
  `docs/CORE_OPTIMIZATION.md:39-41` has it reconcile.
* A missed change in a subtree that passed the self-test is seen at the next event only. The pool
  drops the tick of an event whose project has a job already. The choice of three projects can
  starve a fourth. Heartbeat files under the watched directory wake the loop.
* Creations, searches and refreshes do not exclude each other; `mark_scan_fresh` puts a new dict in
  place of the old and drops its `running`. GET `/project/code_index` is a plain function and scans
  in the thread pool; the dict it took may say `running` and be put back after that task has ended,
  and then every refresh is refused until another scan ends (TLC finds it without `outlived`).

**Sandbox.** A timeout is to end an execution ("Max execution time in seconds", `cqds_exec.py`),
but the log line before it formats a return code of `None` with `%d` (`execute_commands.py:139`) and
raises. `process_io` awaits `drain` under a `threading.Lock` (`mcp_server.py:305`), which stops the
whole server while the docstring of `process_wait` calls it non-blocking. `exec_commands` ignores
the `timeout` that `shell_code.py` passes.

**Editor.** `docs/mcp-text-editor-plan.md:513-526` asks for atomic writes under a mutex; a revision
is two transactions in two databases without one. A redo after a new edit undoes that edit
(`service.py:1199`; plan 798-800). A dry run on a changed file writes an `external_sync` revision
(plan 820), an edit that changes nothing writes one (plan 822), and a synchronisation loses the
final newline. A save's markers absorb what was written outside meanwhile (`service.py:1219`). A
session's id is a hash of the path and its revisions begin at 1 (`storage.py:52-55`, `183`): after a
clean-up an `expected_revision` from before it passes and the edit works on a text its client never
saw.

**Contexts.** A deleted post's snapshot is evicted, so no tombstone is sent for it (the comment at
`posts.py:560` expects one), while a post that only leaves the window is reported as deleted and
reappears after the next FULL. `gc_deleted_posts`, which `docs/cached_interact.md` promises, is
called by nobody. `pre_prompt` and `fresh_files` belong to the interactor and not to a chat
(`llm_interactor.py:897`). The loop over the blocks breaks at the token limit
(`llm_interactor.py:691-699`), so older posts and the file are left out of a context without a word;
the one over the patches drops a file's patch after its time was stored. Prefix reuse is opt-in
(`CQDS_CONTEXT_PREFIX_REUSE`).

**Calls of models.** An answer that was received and paid for is lost to the chat when the insert of
its usage row or the file it is written to fails: the dialogue gets an `LLMException`, with the
cycle already moved on. Two FULLs of a chat within a second share the id of a usage cycle.

**Safe commits.** `commit_files` is the "list of file paths to include", and the whole index is
committed. The diff's temporary files of a write lie in the tree while it is awaited. The watchdog
kills the shell and not its children. Dropping a binding discards the token of a later dry run. The
tree may change between dry run and apply. A file with a byte order mark raises `LookupError`
("utf-8-bom") where the warning says the mark "will be stripped".

**Searches.** An epoch starts at 0 again after a restart, so an old client's epoch may fit a new
state; the answer 409 begins again at offset 0 and repeats hits; a chunk cut by `max_hits` skips the
rest of that file's hits. A host job whose ripgrep cannot be started (an argument that no command
line can have, a directory that is gone, no descriptors left) ends as complete with no hits and no
error: the `finally` clause completes it before the failure is marked (`cqds_host_grep_jobs.py:224`,
`305-308`); the fallback passes over files it cannot read (`cqds_smart_grep_host.py:148-149`). A
host job that failed after it was cut is told complete; a line longer than 64 KiB ends it as
complete with ripgrep left running; ripgrep's exit 2 counts as a normal end; finished jobs nobody
asks for fill the table; every poll stores a new page and evicts another's. A host process whose
kill is cancelled before its eight seconds are over may run on without an entry and without its TTL;
the cap is looked at before the spawn is awaited; entries of ended processes go with a kill only, so
48 of them end all spawns; a wait for output hears nothing once the buffer is full, though "same
semantics as cq_process_wait" is said of it; and only the shell of a command is signalled.

**Files and tags.** Backups are named by the second: a second edit within one overwrites the first's
backup, and undo takes the newest, so two undos are an undo and a redo. `NAME.*` also finds the
backups of `NAME.ext`. A move keeps backups under the old name, loses the text of an overwritten
target without one, and onto its own name deletes its row (`files.py:733-735`). An empty text is not
written though the row says so (`files.py:678`): a patch that removes all lines reports success and
changes nothing. Hunks that only add land four lines early, or in front of the list's `None`; a
`cut_lines` of 0 cuts to the end. The span that `replace_span` returns ends one line late and its
hash lacks the final newline, so it cannot be used next (`docs/llm_pre_prompt.md:64-71`). Of several
hunks only the last reached survives. Pages: a log of fewer lines than a page is cut from its end,
although the comment at `mcp_gitbash_stdio.py:1699` keeps the newest lines; `line_slices` without a
valid entry show the default page without its fitting to the budget, cut inside
(`mcp_gitbash_stdio.py:1682-1696`). Splices: text appended behind a last line without newline runs
into it; and where the file cannot be read, content for one place is written over all of it
(1341-1342, 1453-1458).

**Processes of the core.** GET `/core/status` imports `server`, which runs as `__main__`: the top
level of the file is executed a second time (`core_routes.py:68`), and its `signal.signal`
(`server.py:456`) puts `handle_shutdown`, which sets an event that nobody waits for, in the place of
uvicorn's handler. From then on the core does not stop at SIGTERM; the nightly restart, which
`core_scheduler.py:193` describes as a SIGTERM after which Docker starts the container again, is
noted as a success and does nothing, and a stop of the container ends in a SIGKILL, without
the shutdown handlers. (uvicorn is not pinned; from 0.29 on it installs its handlers with
`signal.signal` before the application starts.) For the same reason the status tells of the second
copy's `_maint_child_proc`, which is always `None`, although the docstring at `server.py:50` says
otherwise. A child or a worker that ended is not started again before the container is.

**Operation.** A row of the scheduler stays `running` after a restart in the middle; the nightly
restart and the dump share `0 3 * * *`. A stop of the rotation between ALTER and the file loses the
new password, one between file and push leaves tokens under a lost key, and tokens set between pull
and push are overwritten; a user's first token that is set after the pull and that a starting core
encrypts before the roles are altered stays under the old key, and nothing tells (`users.py:33-54`);
the core's cached key opens nothing until it restarts. The migration drops rows whose id the core
has used and duplicates tables without a key when repeated; its `setval` goes by the MAX of what is
committed and can go back on an id that the core has taken (`migrate_sqlite_to_postgres.py:173-179`,
`db.py:215-252`), whose insert the next one then meets.

**Pages and tools.** A click back and forth (A, B, A) lets an old answer reset the demand for the
whole history; `no changes` with awaited posts announces a full fetch (`chat.js:110`) that nothing
asks for; `chatStore.deleteChat` does not exist (`LeftPanel.vue:80`). Answers about two projects
cross (`RightPanel.vue:205`); editing a project posts `id` where the route wants `project_id`; a
post is processed in the project selected at that time. A synchronous send looks for `chat_history`
where the server has `posts`, so it returns at the first answered poll though `cqds_chat.py:386-389`
says it waits. No code calls `set_result`, so background tasks stay pending until their TTL. Two
concurrent calls put a project into the queue twice. Lines that an editor appends between the
repair's copy and its replacement are lost.

## Left out of the modelled components

* Pool: `progress_json`, the choice of poll intervals.
* Index: `CORE_INDEX_INCREMENTAL_MODE=refresh`, `use_size`, what the packer extracts (its texts are
  not in the repository: a submodule).
* Links: legacy rows with inline content; `FileManager.check`, which does per row what `Probe` does
  and beside it repairs prefixes and missing ttls; attributes other than the ttl, the
  narrow poll of failed subtrees beside a tick (`core_maint_loop.py:1190`; the loop's side of it is
  in `MaintLoop`).
* Dialogues: `llm_context` rows, `exclude_source_id`; contents are in `ContextCache`.
* Search in chunks: the cap of ids in scope (`smart_grep_scope_cache.py:87`, 2,000,000 by default).
* Delivery: parent chats, quotes, permissions; switching chats is in `ChatClient`.
* Contexts: how tokens are estimated, the leases (their collector is never called).
* Calls: prices and their synchronisation, hints for the provider's prompt cache, the debug mode,
  which turns are sampled for a metric, and errors of the metric itself, which are swallowed.
* Processes: what the shutdown handlers other than the child's do; the reads of `/core/status`.
  Host processes: `io`, `status` and `list`, which read; children of a shell.
* Sandbox: `status` and `list` (reads), `/commit` (a call of git).
* Editor: which text an edit makes of a text (a choice), help, telemetry.
* Tags: several hunks in a patch, messages. Files: quotas and modes.
* Pages, splices, repair: encodings, metadata, where files are found.
* Tab: rendering, statistics, the search settings, the subtrees that are loaded on demand.
* Projects: passwords, settings. Migration: types, defaults, the update of users.

Not modelled at all:

* posts with blocks (a sequential text transformation; what its tags do is in `FileVersions`,
  `EditTags`, `SandboxServer` and, as choices, in `Replication`);
* users and configuration (single statements), search and replace in one piece (reads, and
  `update_file` file by file), the database wrapper (each `execute` a transaction, as assumed);
* the tools that forward calls, and rendering;
* providers (external: `Replication` and `LlmCalls` have a call that answers, fails or raises);
* deployment scripts, benches and `multichat.py` (run by hand, or superseded).

Components are composed where they share state: `SandboxServer` with `SandboxProcesses`, the pool
with what it promises, the editor with what it promises. Where one only calls another, as the loop
does the pool, the call is one operation on either side. A product of two components that share
nothing adds states and no behaviour, which is why `core`, `projects` and `clients` run theirs
one at a time.

## Plan

Written, in this order, most important behaviour first:

1. `MaintPool`, `ProjectSlots`, with proofs: everything else relies on the pool's exclusion.
2. `CodeIndex`, with proofs: the pool's job beside the GETs.
3. `FileLinks`: what the pool's ticks do.
4. `Replication`: the heart of the chat.
5. `PostJournal`, with proofs: how posts reach clients.
6. `SandboxProcesses`, `SandboxServer`; `TextEditor` with `Revisions`.
7. `ContextCache`: what a dialogue sends.
8. `LlmCalls`, `MaintLoop`, `ScanState`, `ChunkedSearch`, `HostSearch`, `HostProcesses`,
   `SafeCommit`.
9. `FileVersions`, `EditTags`, `LineSplice`, `FilePages`, `CopilotCheck`.
10. `ProjectContext`, `ChatClient`, `FilePanel`, `CoreScheduler`, `CoreProcesses`,
   `PasswordRotation`,
    `Migration`, `BackgroundTasks`, `McpIndexQueue`.
11. The proofs of `Replication`, the editor, and the components of `core`, `projects` and `clients`.

Nothing of the plan is left. What stays with TLC alone is liveness; what is not modelled is listed
above, with the reason.
