---------------------------- MODULE CoreProcesses ----------------------------
(***************************************************************************)
(* The processes of the core's container.  agent/server.py is its first    *)
(* process: when it ends, Docker ends all others and starts it again.  It  *)
(* starts scripts/core_maint_loop.py, which starts one worker for each     *)
(* slot and writes their ids to a status file that outlives the container. *)
(* Nobody starts again a child or a worker that ended.                     *)
(*                                                                         *)
(* A worker has no handler of SIGTERM; the child has one from the moment   *)
(* its workers run.                                                        *)
(***************************************************************************)
EXTENDS Integers

CONSTANTS
    Slots,    \* number of workers, CORE_MAINT_POOL_WORKERS
    MaxBoots, MaxFaults   \* bounds of the model

VARIABLES
    settings, \* will: the child is to be started; explicit: CORE_STARTUP_FILE_MAINT_ENABLED
    core,     \* "down", "starting", "up", "stopping" (its shutdown handlers), "waiting", "leaving"
    deaf,     \* its handler of SIGTERM was replaced (see CoreScheduler, CoreStatus)
    held,     \* _maint_child_proc is not None
    pass,     \* the pass over all files after the start
    child,    \* the child, and the slot its loops are at
    workers,  \* of each slot: "none", "alive", "told" (SIGTERM), "dead"
    file,     \* maint_pool_status.json: the container that wrote it, worker_pids
    boots, faults,
    outright  \* history: the child was ended without a handler of its own

main == <<core, deaf, held, pass>>
pool == <<child, workers>>
vars == <<settings, core, deaf, held, pass, child, workers, file, boots, faults, outright>>

SlotSet == 1..Slots
NoChild == [pc |-> "none", slot |-> 1]

Init ==
    /\ settings \in [will : BOOLEAN, explicit : {"unset", "on", "off"}]
    /\ core = "down" /\ deaf = FALSE /\ held = FALSE /\ pass = "none"
    /\ child = NoChild /\ workers = [s \in SlotSet |-> "none"]
    /\ file = [boot |-> 0, pids |-> {}]
    /\ boots = 0 /\ faults = 0 /\ outright = FALSE

Fault == faults < MaxFaults /\ faults' = faults + 1
ChildRuns == child.pc \notin {"none", "ended"}

(***************************************************************************)
(* server.py                                                               *)
(***************************************************************************)
\* server_init: where it raises, the container starts again.
Boot ==
    /\ core = "down" /\ boots < MaxBoots
    /\ core' = "starting" /\ boots' = boots + 1
    /\ UNCHANGED <<settings, deaf, held, pass, pool, file, faults, outright>>

\* The startup handlers; Popen raises: no child.
MaintChildStartup ==
    /\ core = "starting"
    /\ core' = "up" /\ pass' = "asleep"
    /\ \/ settings.will /\ held' = TRUE /\ child' = [NoChild EXCEPT !.pc = "starting"] /\ UNCHANGED faults
       \/ settings.will /\ Fault /\ UNCHANGED <<held, child>>
       \/ ~settings.will /\ UNCHANGED <<held, child, faults>>
    /\ UNCHANGED <<settings, deaf, workers, file, boots, outright>>

\* Mutant: the pass does not ask for the child.
startup_file_maintenance_enabled_always(s) == s.explicit # "off"

startup_file_maintenance_enabled(s) ==
    IF s.explicit # "unset" THEN s.explicit = "on" ELSE ~s.will

\* 0.25 s after the handlers: scans of all projects, then FileManager.check.
StartupPass ==
    /\ core = "up" /\ pass = "asleep"
    /\ pass' = IF startup_file_maintenance_enabled(settings) THEN "scanning" ELSE "done"
    /\ UNCHANGED <<settings, core, deaf, held, pool, file, boots, faults, outright>>

\* A scan that raises ends the pass.
ScansEnd ==
    /\ core = "up" /\ pass = "scanning"
    /\ \/ pass' = "checking" /\ UNCHANGED faults
       \/ pass' = "done" /\ Fault
    /\ UNCHANGED <<settings, core, deaf, held, pool, file, boots, outright>>

PassEnds ==
    /\ core = "up" /\ pass = "checking"
    /\ pass' = "done"
    /\ UNCHANGED <<settings, core, deaf, held, pool, file, boots, faults, outright>>

CoreStatus ==
    /\ core = "up" /\ ~deaf
    /\ deaf' = TRUE
    /\ UNCHANGED <<settings, core, held, pass, pool, file, boots, faults, outright>>

\* SIGTERM: uvicorn ends its server; handle_shutdown in its place does nothing.
Terminate ==
    /\ core = "up" /\ ~deaf
    /\ core' = "stopping" /\ pass' = "done"
    /\ UNCHANGED <<settings, deaf, held, pool, file, boots, faults, outright>>

\* _maint_child_shutdown: SIGTERM, unless there is no child or it has ended.
MaintChildShutdown ==
    /\ core = "stopping"
    /\ IF ChildRuns /\ held
          THEN /\ core' = "waiting"
               /\ child' = CASE child.pc \in {"starting", "spawning"} -> [child EXCEPT !.pc = "ended"]
                             [] child.pc = "looping" -> [pc |-> "ending", slot |-> 0]
                             [] OTHER -> child
               /\ outright' = (child.pc \in {"starting", "spawning"})
               /\ UNCHANGED held
          ELSE /\ core' = "leaving" /\ held' = FALSE
               /\ UNCHANGED <<child, outright>>
    /\ UNCHANGED <<settings, deaf, pass, workers, file, boots, faults>>

\* wait(3), else kill: a child waits longer than that for one worker alone.
MaintChildStopped ==
    /\ core = "waiting"
    /\ IF ChildRuns
          THEN child' = [child EXCEPT !.pc = "ended"] /\ outright' = TRUE
          ELSE UNCHANGED <<child, outright>>
    /\ core' = "leaving" /\ held' = FALSE
    /\ UNCHANGED <<settings, deaf, pass, workers, file, boots, faults>>

Gone ==
    /\ core' = "down" /\ deaf' = FALSE /\ held' = FALSE /\ pass' = "none"
    /\ child' = NoChild /\ workers' = [s \in SlotSet |-> "none"] /\ outright' = FALSE
    /\ UNCHANGED <<settings, file, boots>>

CoreLeaves == core = "leaving" /\ Gone /\ UNCHANGED faults

\* It is killed, or told to stop while it starts.
CoreDies == core # "down" /\ Fault /\ Gone

(***************************************************************************)
(* core_maint_loop.py                                                      *)
(***************************************************************************)
\* The self-test and the tables; an exception ends it.
ChildReady ==
    /\ child.pc = "starting"
    /\ \/ child' = [child EXCEPT !.pc = "spawning"] /\ UNCHANGED faults
       \/ child' = [child EXCEPT !.pc = "ended"] /\ Fault
    /\ UNCHANGED <<settings, main, workers, file, boots, outright>>

\* A worker that cannot be started is left out.
SpawnPoolWorkers ==
    /\ child.pc = "spawning" /\ child.slot <= Slots
    /\ \/ workers' = [workers EXCEPT ![child.slot] = "alive"] /\ UNCHANGED faults
       \/ Fault /\ UNCHANGED workers
    /\ child' = [child EXCEPT !.slot = @ + 1]
    /\ UNCHANGED <<settings, main, file, boots, outright>>

SyncMaintPoolStatusFile ==
    file' = [boot |-> boots, pids |-> {s \in SlotSet : workers[s] = "alive"}]

\* Mutant: the workers are not stopped when the child ends by an exception.
AfterException_forgets == [child EXCEPT !.pc = "ended"]

\* atexit: _shutdown_pool_workers.
AfterException == [pc |-> "ending", slot |-> 0]

\* atexit, the handlers, and the first status file, outside of any try.
Handlers ==
    /\ child.pc = "spawning" /\ child.slot > Slots
    /\ \/ child' = [child EXCEPT !.pc = "looping"] /\ SyncMaintPoolStatusFile /\ UNCHANGED faults
       \/ child' = AfterException /\ Fault /\ UNCHANGED file
    /\ UNCHANGED <<settings, main, workers, boots, outright>>

\* The start of each turn of the loop; an error is logged.
Loop ==
    /\ child.pc = "looping"
    /\ SyncMaintPoolStatusFile /\ file' # file
    /\ UNCHANGED <<settings, main, pool, boots, faults, outright>>

\* _shutdown_pool_workers: SIGTERM to all, then four seconds for each, then SIGKILL.
ShutdownPoolWorkers ==
    /\ child.pc = "ending"
    /\ workers' =
          IF child.slot = 0 THEN [s \in SlotSet |-> IF workers[s] = "alive" THEN "told" ELSE workers[s]]
          ELSE IF child.slot <= Slots /\ workers[child.slot] = "told" THEN [workers EXCEPT ![child.slot] = "dead"]
          ELSE workers
    /\ child' = IF child.slot > Slots THEN [child EXCEPT !.pc = "ended"] ELSE [child EXCEPT !.slot = @ + 1]
    /\ UNCHANGED <<settings, main, file, boots, faults, outright>>

ChildDies ==
    /\ ChildRuns /\ Fault
    /\ child' = [child EXCEPT !.pc = "ended"]
    /\ outright' = TRUE
    /\ UNCHANGED <<settings, main, workers, file, boots>>

WorkerEnds(s) ==
    /\ \/ workers[s] = "told" /\ UNCHANGED faults
       \/ workers[s] = "alive" /\ Fault
    /\ workers' = [workers EXCEPT ![s] = "dead"]
    /\ UNCHANGED <<settings, main, child, file, boots, outright>>

Next ==
    \/ Boot \/ MaintChildStartup \/ StartupPass \/ ScansEnd \/ PassEnds \/ CoreStatus
    \/ Terminate \/ MaintChildShutdown \/ MaintChildStopped \/ CoreLeaves \/ CoreDies
    \/ ChildReady \/ SpawnPoolWorkers \/ Handlers \/ Loop \/ ShutdownPoolWorkers \/ ChildDies
    \/ \E s \in SlotSet : WorkerEnds(s)

Spec == Init /\ [][Next]_vars

(***************************************************************************)
(* Properties                                                              *)
(***************************************************************************)
\* A worker goes on without the child that started it only when the child was
\* killed, or told to stop before it had a handler; and a core that leaves in
\* order leaves no child behind.
OrphansExplained ==
    /\ \A s \in SlotSet : workers[s] = "alive" /\ child.pc = "ended" => outright
    /\ core = "leaving" => ~ChildRuns

\* While the child loops, the status file is of this container and lists every
\* worker that is alive (GET /core/status reads it).
WorkersAreListed ==
    child.pc = "looping" =>
        file.boot = boots /\ {s \in SlotSet : workers[s] = "alive"} \subseteq file.pids

\* The pass over all files and the child, which looks at the same rows, run
\* together only where the settings say so (server.py:237-250).
NotBoth == pass \in {"scanning", "checking"} /\ ChildRuns => settings.explicit = "on"
-----------------------------------------------------------------------------
(***************************************************************************)
(* The inductive invariant behind OrphansExplained, WorkersAreListed and   *)
(* NotBoth (CoreProofs)                                                    *)
(***************************************************************************)
TypeOK ==
    /\ settings \in [will : BOOLEAN, explicit : {"unset", "on", "off"}]
    /\ core \in {"down", "starting", "up", "stopping", "waiting", "leaving"}
    /\ held \in BOOLEAN
    /\ pass \in {"none", "asleep", "scanning", "checking", "done"}
    /\ child \in [pc : {"none", "starting", "spawning", "looping", "ending", "ended"}, slot : Nat]
    /\ workers \in [SlotSet -> {"none", "alive", "told", "dead"}]
    /\ file \in [boot : Nat, pids : SUBSET SlotSet]
    /\ boots \in Nat /\ faults \in Nat /\ outright \in BOOLEAN

NoneAlive == \A s \in SlotSet : workers[s] # "alive"

\* A core that is not up yet has no child; one that runs has a child only if it
\* holds it and was to start it, and none when it leaves.
ChildIsHeld ==
    /\ core \in {"down", "starting"} => child.pc = "none"
    /\ ChildRuns => held /\ settings.will /\ core # "leaving"

\* Workers are started last, and are all told when the shutdown begins.
WorkersHaveChild ==
    /\ child.pc \in {"none", "starting"} => NoneAlive
    /\ child.pc = "ending" /\ child.slot > 0 => NoneAlive
    /\ child.pc = "ended" => NoneAlive \/ outright

\* The pass over all files runs only where the settings ask for it.
PassIsAsked ==
    pass \in {"scanning", "checking"} => startup_file_maintenance_enabled(settings)

IInv == TypeOK /\ ChildIsHeld /\ WorkersHaveChild /\ WorkersAreListed /\ PassIsAsked
=============================================================================
