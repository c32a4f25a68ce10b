---------------------------- MODULE HostProcesses ----------------------------
(***************************************************************************)
(* Processes on the machine of the MCP bridge (cqds_host.py).  A spawn     *)
(* gives a process an entry in the registry, tasks that pump its output    *)
(* into a buffer of bounded size, and a task that kills it at its TTL.     *)
(* Calls, pumps and that task share one event loop; an action is what one  *)
(* of them does between two awaits.  A call may be cancelled by the client *)
(* at any of its awaits.                                                   *)
(*                                                                         *)
(* One stream stands for stdout and stderr.  io and status read, list      *)
(* reads, and the log of the life cycle is written and never read; the     *)
(* children of a shell, which no signal here reaches, are left out.        *)
(***************************************************************************)
EXTENDS Integers, FiniteSets

CONSTANTS
    Procs, Calls, None,
    MaxProcs,   \* _MAX_HOST_PROCS
    MaxBuff     \* _MAX_HOST_PROC_BUFF, in chunks

VARIABLES
    proc,       \* of each process: its state, its buffer, its pumps, its TTL
    registry,   \* host_proc_registry
    call,       \* the calls
    abandoned   \* history: processes whose kill was cancelled

vars == <<proc, registry, call, abandoned>>

NoProc == [os |-> "none", acc |-> 0, pumps |-> FALSE, ttl |-> FALSE]
\* news, heard (history): output came since the wait began, and before its last poll.
NoCall == [pc |-> "idle", p |-> None, base |-> 0, news |-> FALSE, heard |-> FALSE]

Init ==
    /\ proc = [p \in Procs |-> NoProc] /\ registry = {}
    /\ call = [c \in Calls |-> NoCall] /\ abandoned = {}

At(c, pc) == call[c].pc = pc
\* proc.returncode is None.
Alive(p) == proc[p].os \in {"runs", "dying"}

(***************************************************************************)
(* Spawn                                                                   *)
(***************************************************************************)
\* Mutant: one too many.
Full_late(registered) == Cardinality(registered) > MaxProcs

Full(registered) == Cardinality(registered) >= MaxProcs

\* The number is looked at before the process is awaited.
Spawn(c, p) ==
    /\ At(c, "idle") /\ proc[p].os = "none" /\ ~Full(registry)
    /\ proc' = [proc EXCEPT ![p] = [proc[p] EXCEPT !.os = "creating"]]
    /\ call' = [call EXCEPT ![c] = [NoCall EXCEPT !.pc = "creating", !.p = p]]
    /\ UNCHANGED <<registry, abandoned>>

\* From here to the entry there is no await.
Spawned(c) ==
    /\ At(c, "creating")
    /\ proc' = [proc EXCEPT ![call[c].p] = [NoProc EXCEPT !.os = "runs", !.pumps = TRUE, !.ttl = TRUE]]
    /\ registry' = registry \cup {call[c].p}
    /\ call' = [call EXCEPT ![c] = NoCall]
    /\ UNCHANGED abandoned

\* It fails, or is cancelled: asyncio closes what it has begun.
SpawnFails(c) ==
    /\ At(c, "creating")
    /\ proc' = [proc EXCEPT ![call[c].p] = NoProc]
    /\ call' = [call EXCEPT ![c] = NoCall]
    /\ UNCHANGED <<registry, abandoned>>

(***************************************************************************)
(* The process and its tasks                                               *)
(***************************************************************************)
\* By itself or of a signal; its entry stays.
Exits(p) ==
    /\ Alive(p)
    /\ proc' = [proc EXCEPT ![p] = [proc[p] EXCEPT !.os = "ended", !.ttl = FALSE]]
    /\ UNCHANGED <<registry, call, abandoned>>

\* Mutant: a full buffer is emptied.
Kept_none(acc) == IF acc > MaxBuff THEN 0 ELSE acc

\* The oldest go.
Kept(acc) == IF acc > MaxBuff THEN MaxBuff ELSE acc

\* A chunk; what a pipe held is pumped after the end too.
_host_pump_stream(p) ==
    /\ proc[p].pumps
    /\ proc' = [proc EXCEPT ![p] = [proc[p] EXCEPT !.acc = Kept(proc[p].acc + 1)]]
    /\ call' = [c \in Calls |-> IF At(c, "wait") /\ call[c].p = p THEN [call[c] EXCEPT !.news = TRUE]
                              ELSE call[c]]
    /\ UNCHANGED <<registry, abandoned>>

\* SIGKILL.
Killed(p) == [p EXCEPT !.os = IF p.os = "runs" THEN "dying" ELSE p.os]

\* _host_supervise_process, which then waits for the end.
TtlExpires(p) ==
    /\ proc[p].ttl
    /\ proc' = [proc EXCEPT ![p] = [Killed(proc[p]) EXCEPT !.ttl = FALSE]]
    /\ UNCHANGED <<registry, call, abandoned>>

(***************************************************************************)
(* Kill                                                                    *)
(***************************************************************************)
\* The tasks are cancelled before the process is told.
Kill(c, p) ==
    /\ At(c, "idle") /\ p \in registry
    /\ LET told == [proc[p] EXCEPT !.pumps = FALSE, !.ttl = FALSE] IN
       IF Alive(p)
          THEN /\ proc' = [proc EXCEPT ![p] = told] \/ proc' = [proc EXCEPT ![p] = Killed(told)]
               /\ call' = [call EXCEPT ![c] = [NoCall EXCEPT !.pc = "told", !.p = p]]
               /\ UNCHANGED registry
          ELSE /\ proc' = [proc EXCEPT ![p] = told]
               /\ registry' = registry \ {p}
               /\ UNCHANGED call
    /\ UNCHANGED abandoned

\* The finally clause takes the entry out, with its buffer.
Pops(c) ==
    /\ registry' = registry \ {call[c].p}
    /\ call' = [call EXCEPT ![c] = NoCall]

KillWaited(c) ==
    /\ call[c].pc \in {"told", "killing"} /\ proc[call[c].p].os = "ended"
    /\ Pops(c)
    /\ UNCHANGED <<proc, abandoned>>

\* Mutant: a process that takes longer is left.
AfterWait_leaves(p) == p

\* Eight seconds later.
AfterWait(p) == Killed(p)

KillTimesOut(c) ==
    /\ At(c, "told") /\ Alive(call[c].p)
    /\ proc' = [proc EXCEPT ![call[c].p] = AfterWait(proc[call[c].p])]
    /\ call' = [call EXCEPT ![c] = [call[c] EXCEPT !.pc = "killing"]]
    /\ UNCHANGED <<registry, abandoned>>

\* The client gives up: the entry goes, the process perhaps not.
KillCancelled(c) ==
    /\ call[c].pc \in {"told", "killing"}
    /\ abandoned' = IF At(c, "told") THEN abandoned \cup {call[c].p} ELSE abandoned
    /\ Pops(c)
    /\ UNCHANGED proc

(***************************************************************************)
(* Wait                                                                    *)
(***************************************************************************)
\* For output; one for the end differs in what a poll answers to.
Wait(c, p) ==
    /\ At(c, "idle") /\ p \in registry
    /\ call' = [call EXCEPT ![c] =
          [NoCall EXCEPT !.pc = "wait", !.p = p, !.base = proc[p].acc]]
    /\ UNCHANGED <<proc, registry, abandoned>>

\* Every 0.05 s.  The record outlives its entry.
Poll(c) ==
    /\ At(c, "wait")
    /\ LET p == proc[call[c].p] IN
       call' = [call EXCEPT ![c] =
          IF p.os = "ended" \/ p.acc > call[c].base THEN NoCall
          ELSE [call[c] EXCEPT !.heard = call[c].news]]
    /\ UNCHANGED <<proc, registry, abandoned>>

\* It answers timed_out without another look.
Deadline(c) ==
    /\ At(c, "wait")
    /\ call' = [call EXCEPT ![c] = [call[c] EXCEPT !.pc = "timed_out"]]
    /\ UNCHANGED <<proc, registry, abandoned>>

\* The answer, or a cancellation.
WaitEnds(c) ==
    /\ call[c].pc \in {"wait", "timed_out"}
    /\ call' = [call EXCEPT ![c] = NoCall]
    /\ UNCHANGED <<proc, registry, abandoned>>

Next ==
    \/ \E p \in Procs :
        \/ Exits(p) \/ _host_pump_stream(p) \/ TtlExpires(p)
        \/ \E c \in Calls : Spawn(c, p) \/ Kill(c, p) \/ Wait(c, p)
    \/ \E c \in Calls :
        \/ Spawned(c) \/ SpawnFails(c) \/ KillWaited(c) \/ KillTimesOut(c) \/ KillCancelled(c)
        \/ Poll(c) \/ Deadline(c) \/ WaitEnds(c)

Spec == Init /\ [][Next]_vars

(***************************************************************************)
(* Properties                                                              *)
(***************************************************************************)
\* A process that has an entry and runs will be stopped: its TTL is awaited, or
\* a kill has it.  One without an entry runs only after a kill was cancelled
\* before its eight seconds were over.
Supervised ==
    \A p \in Procs : proc[p].os = "runs" =>
        \/ p \in registry /\ proc[p].ttl
        \/ \E c \in Calls : At(c, "told") /\ call[c].p = p
        \/ p \in abandoned

\* The registry has at most MaxProcs entries and those of the spawns that were
\* under way together when the last was free.
SpawnsBounded ==
    Cardinality(registry) + Cardinality({c \in Calls : At(c, "creating")}) <=
        MaxProcs - 1 + Cardinality(Calls)

\* A wait for output that ran out had seen none at its last poll, unless the
\* buffer was full before it began, whose length no output changes any more.
TimedOutHeardNothing ==
    \A c \in Calls : At(c, "timed_out") /\ call[c].heard =>
        call[c].base = MaxBuff
-----------------------------------------------------------------------------
(***************************************************************************)
(* The inductive invariant behind Supervised, SpawnsBounded and            *)
(* TimedOutHeardNothing (ClientsProofs)                                    *)
(***************************************************************************)

TypeOK ==
    /\ proc \in [Procs -> [os : {"none", "creating", "runs", "dying", "ended"}, acc : 0..MaxBuff,
                           pumps : BOOLEAN, ttl : BOOLEAN]]
    /\ call \in [Calls -> [pc : {"idle", "creating", "told", "killing", "wait", "timed_out"},
                           p : Procs \cup {None}, base : 0..MaxBuff, news : BOOLEAN, heard : BOOLEAN]]
    /\ registry \subseteq Procs /\ abandoned \subseteq Procs
    /\ IsFiniteSet(registry)

\* A process that is being created belongs to one call, which waits for it alone.
Creating ==
    /\ \A c \in Calls : call[c].pc # "idle" => call[c].p \in Procs
    /\ \A c \in Calls : At(c, "creating") => proc[call[c].p].os = "creating"
    /\ \A c, d \in Calls : At(c, "creating") /\ At(d, "creating") /\ call[c].p = call[d].p => c = d
    /\ \A c \in Calls : At(c, "killing") => proc[call[c].p].os \in {"dying", "ended"}
    /\ \A c \in Calls : call[c].pc \in {"told", "wait", "timed_out"} =>
          proc[call[c].p].os \in {"runs", "dying", "ended"}
    /\ \A p \in registry : proc[p].os \in {"runs", "dying", "ended"}

\* What came since a wait began is in the buffer, or the buffer is full.
NewsIsHeld ==
    \A c \in Calls : call[c].pc \in {"wait", "timed_out"} =>
        /\ call[c].base <= proc[call[c].p].acc
        /\ call[c].news => call[c].base < proc[call[c].p].acc \/ call[c].base = MaxBuff
        /\ call[c].heard => call[c].base = MaxBuff

IInv == TypeOK /\ Creating /\ NewsIsHeld /\ Supervised /\ SpawnsBounded
=============================================================================
