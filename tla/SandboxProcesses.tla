-------------------------- MODULE SandboxProcesses --------------------------
(***************************************************************************)
(* The processes of the sandbox server (projects/mcp_server.py): a         *)
(* registry of entries under a threading.Lock, a reader task per process,  *)
(* and the handlers spawn, io, kill, wait and clean-up.  All of them are   *)
(* coroutines of one event loop, so a step is what runs between two        *)
(* awaits.  The lock is not reentrant and blocks its thread, which is the  *)
(* loop's: a coroutine that awaits while it holds the lock leaves the loop *)
(* to another one, and if that one wants the lock nothing runs any more.   *)
(*                                                                         *)
(* Output is counted in reads of 4096 bytes.  Times are ages in ticks.     *)
(***************************************************************************)
EXTENDS Integers, FiniteSets

CONSTANTS
    Guids,        \* process guids; each is used once
    Projects,
    NoEntry,      \* a guid that is not in the registry (a model value)
    MaxPerProject,\* PROCESS_MAX_PER_PROJECT
    MaxBuffer,    \* PROCESS_IO_MAX_BYTES, in reads
    PipeSize,     \* what the stdout pipe of a process holds, in reads
    Ttl,          \* ttl_seconds of an entry, in ticks
    HardTimeout,  \* PROCESS_HARD_TIMEOUT, in ticks
    MaxWaits      \* bound: wait handlers at a time

ASSUME SandboxAssumption ==
    /\ MaxPerProject \in Nat /\ MaxBuffer \in Nat /\ PipeSize \in Nat
    /\ Ttl \in Nat /\ HardTimeout \in Nat /\ MaxWaits \in Nat

VARIABLES
    registry,  \* PROCESS_REGISTRY
    os,        \* what the operating system knows of each process
    pipe,      \* output in the stdout pipe, in reads
    reader,    \* the reader task: "none", "on" or "off"
    spawning,  \* guids whose spawn is inside create_subprocess
    holder,    \* guids whose io awaits drain and holds the lock
    waiting,   \* what the wait handler of a guid waits for, or "none"
    loop,      \* "free", "busy" in a blocking call, or "stuck" for good once its
               \* thread waits for the lock
    evicted    \* history: guids cleaned up while they were spawning

procVars == <<registry, os, pipe, reader, spawning, holder, waiting, loop, evicted>>

Statuses == {"starting", "running", "finished", "error"}
\* "silted": it has filled the stderr pipe, which nobody reads.
OsStates == {"none", "running", "silted", "ended"}
Alive(g) == os[g] \in {"running", "silted"}
Conditions == {"any_output", "finished"}

Entry == [project : Projects, status : Statuses, buffer : 0..MaxBuffer,
          age : 0..(HardTimeout + 1), idle : 0..(Ttl + 1)]

Registered(g) == registry[g] # NoEntry
OfProject(p) == {g \in Guids : Registered(g) /\ registry[g].project = p}

\* No entry is the value of a guid that has none.
ASSUME EntryAssumption == NoEntry \notin Entry

\* A coroutine is resumed and runs A, which begins with taking the lock.
Locked(A) ==
    /\ loop = "free"
    /\ \/ holder = {} /\ A
       \/ /\ holder # {}
          /\ loop' = "stuck"
          /\ UNCHANGED <<registry, os, pipe, reader, spawning, holder, waiting, evicted>>

(***************************************************************************)
(* spawn_process.                                                          *)
(***************************************************************************)
\* The check of the limit and the insertion, under the lock.
SpawnStart(g, p) ==
    /\ registry[g] = NoEntry /\ os[g] = "none" /\ g \notin spawning
    /\ Cardinality(OfProject(p)) < MaxPerProject
    /\ registry' = [registry EXCEPT ![g] = [project |-> p, status |-> "starting", buffer |-> 0,
                                            age |-> 0, idle |-> 0]]
    /\ spawning' = spawning \cup {g}
    /\ UNCHANGED <<os, pipe, reader, holder, waiting, loop, evicted>>

\* create_subprocess forks while spawn_process awaits.
Fork(g) ==
    /\ g \in spawning /\ os[g] = "none"
    /\ os' = [os EXCEPT ![g] = "running"]
    /\ UNCHANGED <<registry, pipe, reader, spawning, holder, waiting, loop, evicted>>

\* Back from a successful create_subprocess.  The entry may be gone: both the
\* assignment and the handler of its KeyError raise, and nobody kills the child.
SpawnDone(g) ==
    /\ g \in spawning /\ os[g] # "none"
    /\ \/ /\ Registered(g)
          /\ registry' = [registry EXCEPT ![g].status = "running"]
          /\ reader' = [reader EXCEPT ![g] = "on"]
       \/ /\ ~Registered(g)
          /\ UNCHANGED <<registry, reader>>
    /\ spawning' = spawning \ {g}
    /\ UNCHANGED <<os, pipe, holder, waiting, loop, evicted>>

\* create_subprocess raises (no such directory): the entry stays, as "error".
SpawnFails(g) ==
    /\ g \in spawning /\ os[g] = "none"
    /\ registry' = IF Registered(g) THEN [registry EXCEPT ![g].status = "error"] ELSE registry
    /\ os' = [os EXCEPT ![g] = "ended"]
    /\ spawning' = spawning \ {g}
    /\ UNCHANGED <<pipe, reader, holder, waiting, loop, evicted>>

(***************************************************************************)
(* _read_process_output: one turn of its loop, from the read on.           *)
(***************************************************************************)
Chunk(g) == IF pipe[g] > 0 THEN 1 ELSE 0

\* Mutant: a read that times out, or returns nothing, ends the task.
ReadTurn_stopsWhenEmpty(g) ==
    /\ reader[g] = "on"
    /\ IF Registered(g) /\ Chunk(g) = 1
       THEN /\ registry' = [registry EXCEPT
                   ![g].buffer = IF @ < MaxBuffer THEN @ + 1 ELSE @,
                   ![g].idle = IF registry[g].buffer < MaxBuffer THEN 0 ELSE @,
                   ![g].status = IF os[g] = "ended" THEN "finished" ELSE @]
            /\ pipe' = [pipe EXCEPT ![g] = @ - 1]
            /\ reader' = IF os[g] = "ended" THEN [reader EXCEPT ![g] = "off"] ELSE reader
       ELSE /\ reader' = [reader EXCEPT ![g] = "off"]
            /\ UNCHANGED <<registry, pipe>>
    /\ UNCHANGED <<os, spawning, holder, waiting, loop, evicted>>

\* Mutant: the buffer has no limit.
ReadTurn_noLimit(g) ==
    /\ reader[g] = "on" /\ Registered(g)
    /\ pipe' = [pipe EXCEPT ![g] = pipe[g] - Chunk(g)]
    /\ registry' = [registry EXCEPT ![g].buffer = @ + Chunk(g),
                                    ![g].status = IF os[g] = "ended" THEN "finished" ELSE @]
    /\ reader' = IF os[g] = "ended" THEN [reader EXCEPT ![g] = "off"] ELSE reader
    /\ UNCHANGED <<os, spawning, holder, waiting, loop, evicted>>

\* A chunk that comes when the buffer is full is dropped.  When the process
\* has ended, what is left in the pipe after this one chunk is never read.
ReadTurn(g) ==
    /\ reader[g] = "on"
    /\ pipe' = [pipe EXCEPT ![g] = pipe[g] - Chunk(g)]
    /\ \/ /\ Registered(g)
          /\ LET e == registry[g]
                 kept == Chunk(g) = 1 /\ e.buffer < MaxBuffer
                 ended == os[g] = "ended"
             IN /\ registry' = [registry EXCEPT ![g] =
                       [e EXCEPT !.buffer = IF kept THEN e.buffer + 1 ELSE e.buffer,
                                 !.idle = IF kept THEN 0 ELSE e.idle,
                                 !.status = IF ended THEN "finished" ELSE e.status]]
                /\ reader' = [reader EXCEPT ![g] = IF ended THEN "off" ELSE "on"]
       \/ /\ ~Registered(g)
          /\ reader' = [reader EXCEPT ![g] = "off"]
          /\ UNCHANGED registry
    /\ UNCHANGED <<os, spawning, holder, waiting, loop, evicted>>

\* entry["subprocess"] is set from SpawnDone on.
HasSubprocess(g) == Registered(g) /\ registry[g].status \in {"running", "finished"}

\* A failed spawn leaves its message as stderr.
HasOutput(g) == registry[g].buffer > 0 \/ registry[g].status = "error"

(***************************************************************************)
(* process_io, process_kill, process_wait, cleanup_stale_processes.        *)
(***************************************************************************)
Touch(g) == registry' = [registry EXCEPT ![g].idle = 0]

\* Without input, or with input that the pipe takes at once.
Io(g) ==
    /\ Registered(g)
    /\ Touch(g)
    /\ UNCHANGED <<os, pipe, reader, spawning, holder, waiting, loop, evicted>>

\* The child does not read and the transport's buffer is over its high-water
\* mark: drain awaits, inside "with PROCESS_REGISTRY_LOCK".
IoDrains(g) ==
    /\ Registered(g)
    /\ registry[g].status = "running"
    /\ Alive(g)
    /\ holder' = {g}
    /\ UNCHANGED <<registry, os, pipe, reader, spawning, waiting, loop, evicted>>

\* The child has read, or has ended (drain raises, which is caught).
IoDrained(g) ==
    /\ loop = "free" /\ g \in holder
    /\ os[g] # "silted"
    /\ holder' = {}
    /\ Touch(g)
    /\ UNCHANGED <<os, pipe, reader, spawning, waiting, loop, evicted>>

\* Mutant: the signal is taken for the end of the process.
Kill_finished(g) ==
    /\ Registered(g)
    /\ registry[g].status = "running"
    /\ Alive(g)
    /\ registry' = [registry EXCEPT ![g].status = "finished"]
    /\ UNCHANGED <<os, pipe, reader, spawning, holder, waiting, loop, evicted>>

\* Whatever signal is named, SIGTERM is sent: asyncio.subprocess has none of
\* the names.  The process may catch it.
Kill(g) ==
    /\ Registered(g)
    /\ registry[g].status = "running"
    /\ Alive(g)
    /\ os' = [os EXCEPT ![g] = "ended"]
    /\ UNCHANGED <<registry, pipe, reader, spawning, holder, waiting, loop, evicted>>

Wait(g, c) ==
    /\ Registered(g) /\ waiting[g] = "none"
    /\ Cardinality({h \in Guids : waiting[h] # "none"}) < MaxWaits
    /\ waiting' = [waiting EXCEPT ![g] = c]
    /\ UNCHANGED <<registry, os, pipe, reader, spawning, holder, loop, evicted>>

\* One turn of the loop: satisfied, the entry is gone, or (after the sleep)
\* the timeout.  "finished" asks for returncode, not for the status.
WaitTurn(g) ==
    /\ waiting[g] # "none"
    /\ \/ ~Registered(g)
       \/ Registered(g) /\ waiting[g] = "any_output" /\ HasOutput(g)
       \/ waiting[g] = "finished" /\ ~(HasSubprocess(g) /\ Alive(g))
    /\ waiting' = [waiting EXCEPT ![g] = "none"]
    /\ UNCHANGED <<registry, os, pipe, reader, spawning, holder, loop, evicted>>

WaitTimesOut(g) ==
    /\ loop = "free" /\ waiting[g] # "none"
    /\ waiting' = [waiting EXCEPT ![g] = "none"]
    /\ UNCHANGED <<registry, os, pipe, reader, spawning, holder, loop, evicted>>

Stale(g) == /\ Registered(g)
            /\ registry[g].age > HardTimeout \/ registry[g].idle > Ttl

\* Mutants: entries are dropped and their processes left alone; the hard
\* timeout is not looked at.
Cleanup_noKill ==
    /\ \E g \in Guids : Stale(g)
    /\ registry' = [g \in Guids |-> IF Stale(g) THEN NoEntry ELSE registry[g]]
    /\ evicted' = evicted \cup {g \in spawning : Stale(g)}
    /\ UNCHANGED <<os, pipe, reader, spawning, holder, waiting, loop>>

Idle(g) == Registered(g) /\ registry[g].idle > Ttl
Cleanup_ttlOnly ==
    /\ \E g \in Guids : Idle(g)
    /\ registry' = [g \in Guids |-> IF Idle(g) THEN NoEntry ELSE registry[g]]
    /\ os' = [g \in Guids |-> IF Idle(g) /\ HasSubprocess(g) THEN "ended" ELSE os[g]]
    /\ evicted' = evicted \cup {g \in spawning : Idle(g)}
    /\ UNCHANGED <<pipe, reader, spawning, holder, waiting, loop>>

Cleanup ==
    /\ \E g \in Guids : Stale(g)
    /\ registry' = [g \in Guids |-> IF Stale(g) THEN NoEntry ELSE registry[g]]
    /\ os' = [g \in Guids |-> IF Stale(g) /\ HasSubprocess(g) THEN "ended" ELSE os[g]]
    /\ evicted' = evicted \cup {g \in spawning : Stale(g)}
    /\ UNCHANGED <<pipe, reader, spawning, holder, waiting, loop>>

(***************************************************************************)
(* The processes themselves, and time.                                     *)
(***************************************************************************)
Write(g) ==
    /\ os[g] = "running" /\ pipe[g] < PipeSize
    /\ pipe' = [pipe EXCEPT ![g] = pipe[g] + 1]
    /\ UNCHANGED <<registry, os, reader, spawning, holder, waiting, loop, evicted>>

Silt(g) ==
    /\ os[g] = "running"
    /\ os' = [os EXCEPT ![g] = "silted"]
    /\ UNCHANGED <<registry, pipe, reader, spawning, holder, waiting, loop, evicted>>

Exit(g) ==
    /\ os[g] = "running"
    /\ os' = [os EXCEPT ![g] = "ended"]
    /\ UNCHANGED <<registry, pipe, reader, spawning, holder, waiting, loop, evicted>>

Least(a, b) == IF a < b THEN a ELSE b

Tick ==
    /\ \E g \in Guids : Registered(g) /\ registry[g].age <= HardTimeout
    /\ registry' = [g \in Guids |->
                      IF Registered(g)
                      THEN [registry[g] EXCEPT !.age = Least(registry[g].age + 1, HardTimeout + 1),
                                               !.idle = Least(registry[g].idle + 1, Ttl + 1)]
                      ELSE NoEntry]
    /\ UNCHANGED <<os, pipe, reader, spawning, holder, waiting, loop, evicted>>

ProcInit ==
    /\ registry = [g \in Guids |-> NoEntry]
    /\ os = [g \in Guids |-> "none"]
    /\ pipe = [g \in Guids |-> 0]
    /\ reader = [g \in Guids |-> "none"]
    /\ spawning = {}
    /\ holder = {}
    /\ waiting = [g \in Guids |-> "none"]
    /\ loop = "free"
    /\ evicted = {}

\* What happens on the event loop, and what does not.
Handlers ==
    \/ \E g \in Guids, p \in Projects : Locked(SpawnStart(g, p))
    \/ \E g \in Guids : Locked(SpawnDone(g))
    \/ \E g \in Guids : Locked(SpawnFails(g))
    \/ \E g \in Guids : Locked(ReadTurn(g))
    \/ \E g \in Guids : Locked(Io(g))
    \/ \E g \in Guids : Locked(IoDrains(g))
    \/ \E g \in Guids : IoDrained(g)
    \/ \E g \in Guids : Locked(Kill(g))
    \/ \E g \in Guids, c \in Conditions : Locked(Wait(g, c))
    \/ \E g \in Guids : Locked(WaitTurn(g))
    \/ \E g \in Guids : WaitTimesOut(g)
    \/ Locked(Cleanup)

World == \/ \E g \in Guids : Fork(g)
         \/ \E g \in Guids : Write(g)
         \/ \E g \in Guids : Silt(g)
         \/ \E g \in Guids : Exit(g)
         \/ Tick

TypeOK ==
    /\ registry \in [Guids -> Entry \cup {NoEntry}]
    /\ os \in [Guids -> OsStates]
    /\ pipe \in [Guids -> 0..PipeSize]
    /\ reader \in [Guids -> {"none", "on", "off"}]
    /\ spawning \subseteq Guids
    /\ holder \subseteq Guids
    /\ waiting \in [Guids -> Conditions \cup {"none"}]
    /\ loop \in {"free", "busy", "stuck"}
    /\ evicted \subseteq Guids

\* The server drops an entry only together with its process: a process that
\* lives is in the registry, or its spawn is under way, or the clean-up took
\* its entry while the spawn was under way.
NoOrphans ==
    \A g \in Guids : Alive(g) => Registered(g) \/ g \in spawning \/ g \in evicted

\* A process that the registry shows as running has a reader, through reads
\* that time out, a full buffer, an end of file and kills: its output and its
\* end are noticed.
Watched ==
    \A g \in Guids : Registered(g) /\ registry[g].status = "running" => reader[g] = "on"

\* The answer of a wait for "finished" with an exit code, and the status
\* "finished", are about a process that has ended.
FinishedHasEnded ==
    \A g \in Guids : Registered(g) /\ registry[g].status = "finished"
                        => os[g] = "ended" /\ reader[g] = "off"
=============================================================================
