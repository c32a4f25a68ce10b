--------------------------- MODULE MCCore ---------------------------
(***************************************************************************)
(* The components of the core that keep no state in common, each by        *)
(* itself: the first state says which one runs.                            *)
(***************************************************************************)
EXTENDS Naturals, Sequences, TLC

CONSTANTS
    Clients,   \* sessions of users
    None, Off,
    \* settings, see the modules of the parts
    CronJobs, Restarting, MissAfter,
    Subtrees, Root, ForceAfter, ForceDegraded, Poll, PollDegraded, Grace, StaleAfter,
    Names, Slots, Tables, Keyed, Window, MaxTasks, MaxSessions, TaskTtl, Sizes,
    \* bounds of the parts
    MaxRuns, MaxHour, MaxLost, MaxChanges, MaxFaults, ProcessFaults, MaxBoots,
    ContextPosts, MaxEdits, MaxTurns, MaxCreated, MaxUses, MaxNow, MaxCalls, CallSeconds,
    MaxProjects, ProjectPosts, MaxSelects, MaxPolls, MaxUpdates, ProjectStops,
    MaxRotations, MaxSets, MaxStops, MaxRow, MaxId, MaxInserts

\* The value of what is absent is no number, and sizes of contexts are numbers.
ASSUME NumbersAssumption == None \notin Nat /\ Sizes \subseteq Nat

\* Every post starts with relevance (context_assembler.py:147-172).
ASSUME WindowAssumption == Window \in Nat \ {0}

\* The project of the loop has a tree, and perhaps mount points in it.
ASSUME RootAssumption == Root \in Subtrees

\* The intervals of the loop, in rounds: none is empty, get_float clamps them
\* (core_maint_loop.py:170-201).
ASSUME IntervalsAssumption ==
    /\ {ForceAfter, ForceDegraded, Poll, PollDegraded} \subseteq Nat \ {0}
    /\ {Grace, StaleAfter} \subseteq Nat

\* The tables of the old database, in order, and some of them numbered; every id of
\* an old row is an id.
MCTables == <<"posts", "users">>
ASSUME TablesAssumption ==
    /\ Tables \in Seq({Tables[i] : i \in DOMAIN Tables})
    /\ Keyed \subseteq {Tables[i] : i \in DOMAIN Tables}
    /\ {MaxRow, MaxId} \subseteq Nat /\ MaxRow <= MaxId

\* The registry of tasks has limits (background_task_registry.py:11-13).
ASSUME TasksAssumption == {MaxTasks, MaxSessions} \subseteq Nat

VARIABLES
    part,   \* the component that runs
    v1, v2, v3, v4, v5, v6, v7, v8, v9, v10, v11, v12, v13, v14, v15, v16   \* its variables, in the order of its module

vars == <<part, v1, v2, v3, v4, v5, v6, v7, v8, v9, v10, v11, v12, v13, v14, v15, v16>>

Context == INSTANCE ContextCache WITH
    Sessions <- Clients, MaxPosts <- ContextPosts,
    posts <- v1, file <- v2, snap <- v3, mp <- v4, anchor <- v5, pending <- v6,
    prompt <- v7, fresh <- v8, turn <- v9, deleting <- v10, seen <- v11, dropped <- v12,
    left <- v13

Scheduler == INSTANCE CoreScheduler WITH
    enabled <- v1, registered <- v2, up <- v3, deaf <- v4, hour <- v5, due <- v6,
    runs <- v7, coroutine <- v8, warned <- v9, cut <- v10, losses <- v11

Loop == INSTANCE MaintLoop WITH
    Force <- ForceAfter,
    blind <- v1, mode <- v2, failed <- v3, pooled <- v4, selected <- v5, pc <- v6,
    event <- v7, forceAge <- v8, pollAge <- v9, age <- v10, beatAge <- v11, job <- v12,
    dirty <- v13, late <- v14, loopChanges <- v15, loopFaults <- v16

Background == INSTANCE BackgroundTasks WITH
    Sessions <- Clients, Ttl <- TaskTtl,
    order <- v1, bucket <- v2, created <- v3, now <- v4, uses <- v5, used <- v6

Project == INSTANCE ProjectContext WITH
    Sessions <- Clients, Postgres <- TRUE, MaxPosts <- ProjectPosts,
    MaxStops <- ProjectStops,
    rows <- v1, dirs <- v2, sessions <- v3, registry <- v4, default <- v5, posts <- v6,
    picked <- v7, spent <- v8

Rotation == INSTANCE PasswordRotation WITH
    Users <- Clients,
    role <- v1, secret <- v2, others <- v3, tokens <- v4, coreKey <- v5, rot <- v6,
    marred <- v7, rotations <- v8, sets <- v9, stops <- v10, unstaged <- v11

Migrate == INSTANCE Migration WITH
    old <- v1, new <- v2, made <- v3, sequence <- v4, next <- v5, ended <- v6, taken <- v7,
    refused <- v8, spent <- v9, pending <- v10, top <- v11, slipped <- v12

Calls == INSTANCE LlmCalls WITH
    Chats <- Clients, MaxSecond <- CallSeconds,
    payload <- v1, last <- v2, turn <- v3, built <- v4, cycle <- v5, usage <- v6,
    metrics <- v7, posted <- v8, calls <- v9, second <- v10, faults <- v11

Processes == INSTANCE CoreProcesses WITH
    MaxFaults <- ProcessFaults,
    settings <- v1, core <- v2, deaf <- v3, held <- v4, pass <- v5, child <- v6,
    workers <- v7, file <- v8, boots <- v9, faults <- v10, outright <- v11

-----------------------------------------------------------------------------
Init ==
    \/ /\ part = "Context" /\ Context!Init /\ v14 = Off /\ v15 = Off /\ v16 = Off
    \/ /\ part = "Scheduler" /\ Scheduler!Init /\ v12 = Off /\ v13 = Off /\ v14 = Off
       /\ v15 = Off /\ v16 = Off
    \/ /\ part = "Loop" /\ Loop!Init
    \/ /\ part = "Background" /\ Background!Init /\ v7 = Off /\ v8 = Off /\ v9 = Off
       /\ v10 = Off /\ v11 = Off /\ v12 = Off /\ v13 = Off /\ v14 = Off /\ v15 = Off
       /\ v16 = Off
    \/ /\ part = "Project" /\ Project!Init /\ v9 = Off /\ v10 = Off /\ v11 = Off
       /\ v12 = Off /\ v13 = Off /\ v14 = Off /\ v15 = Off /\ v16 = Off
    \/ /\ part = "Rotation" /\ Rotation!Init /\ v12 = Off /\ v13 = Off
       /\ v14 = Off /\ v15 = Off /\ v16 = Off
    \/ /\ part = "Migrate" /\ Migrate!Init /\ v13 = Off /\ v14 = Off /\ v15 = Off /\ v16 = Off
    \/ /\ part = "Calls" /\ Calls!Init /\ v12 = Off /\ v13 = Off /\ v14 = Off /\ v15 = Off
       /\ v16 = Off
    \/ /\ part = "Processes" /\ Processes!Init /\ v12 = Off /\ v13 = Off /\ v14 = Off
       /\ v15 = Off /\ v16 = Off

ContextRuns ==
    part = "Context" /\ Context!Next /\ UNCHANGED <<part, v14, v15, v16>>
SchedulerRuns ==
    part = "Scheduler" /\ Scheduler!Next /\ UNCHANGED <<part, v12, v13, v14, v15, v16>>
LoopRuns ==
    part = "Loop" /\ Loop!Next /\ UNCHANGED part
BackgroundRuns ==
    part = "Background" /\ Background!Next /\ UNCHANGED <<part, v7, v8, v9, v10, v11, v12, v13, v14, v15, v16>>
ProjectRuns ==
    part = "Project" /\ Project!Next /\ UNCHANGED <<part, v9, v10, v11, v12, v13, v14, v15, v16>>
RotationRuns ==
    part = "Rotation" /\ Rotation!Next /\ UNCHANGED <<part, v12, v13, v14, v15, v16>>
MigrateRuns ==
    part = "Migrate" /\ Migrate!Next /\ UNCHANGED <<part, v13, v14, v15, v16>>
CallsRuns ==
    part = "Calls" /\ Calls!Next /\ UNCHANGED <<part, v12, v13, v14, v15, v16>>
ProcessesRuns ==
    part = "Processes" /\ Processes!Next /\ UNCHANGED <<part, v12, v13, v14, v15, v16>>

Next ==
    \/ ContextRuns
    \/ SchedulerRuns
    \/ LoopRuns
    \/ BackgroundRuns
    \/ ProjectRuns
    \/ RotationRuns
    \/ MigrateRuns
    \/ CallsRuns
    \/ ProcessesRuns

Spec == Init /\ [][Next]_vars

Symmetry == Permutations(Clients)
-----------------------------------------------------------------------------
(***************************************************************************)
(* What a model is sent is what its turn collected: the posts, with their  *)
(* texts, and the newest copy of the file (llm_cached_interactor.py,       *)
(* llm_interactor.py:700-980).  What a dialogue gets is the answer to its  *)
(* own request, and its price is counted once (llm_interactor.py:978-1105, *)
(* llm_api.py).                                                            *)
(***************************************************************************)
TurnsAreTrue ==
    /\ part = "Context" => Context!ShownIsCollected /\ Context!FileIsCollected
    /\ part = "Calls" => Calls!AnswersItsOwn /\ Calls!CountedOnce /\ Calls!EffectiveIsDifference

\* A DELTA_SAFE turn extends the context its session was sent before
\* (llm_cached_interactor.py, decide_cache_mode).
DeltaExtends == [][part = "Context" => Context!DeltaStep]_vars

(***************************************************************************)
(* A run that is shown as running is under way, or was cut off             *)
(* (core_scheduler.py); a worker runs under its child and is listed, or    *)
(* the child was killed (server.py, core_maint_loop.py:1058-1117, main).   *)
(***************************************************************************)
RunningExplained ==
    /\ part = "Scheduler" => Scheduler!RunningExplained
    /\ part = "Processes" =>
          Processes!OrphansExplained /\ Processes!WorkersAreListed /\ Processes!NotBoth

\* A change on the disk is looked at in bounded time (core_maint_loop.py).
ChangeIsTried == part = "Loop" => Loop!ChangeIsTried

\* A task leaves the registry for age or number only (background_task_registry.py).
OnlyOldestGo == [][part = "Background" => Background!OnlyOldestGoes]_vars

(***************************************************************************)
(* A post works in a project its user had selected, its answer's edits go  *)
(* there too, and all sessions find that project in one directory          *)
(* (posts.py:170-183, chats.py, project.py:149-215).                       *)
(***************************************************************************)
PostsKeepTheirProject ==
    part = "Project" => Project!WorksWhereSelected /\ Project!AnswerFollowsPost /\ Project!OneDirectory

\* After a rotation one password opens everything (rotate_cqds_db_password.py).
SecretOpensAll == part = "Rotation" => Rotation!SecretOpensAll

\* The new database has every old row and gives no used id
\* (migrate_sqlite_to_postgres.py).
MigrationIsWhole == part = "Migrate" => Migrate!SequencesAhead /\ Migrate!RowsKept
=============================================================================
