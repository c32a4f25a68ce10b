---------------------------- MODULE SandboxServer ----------------------------
(***************************************************************************)
(* The sandbox server with both things it does: the processes of           *)
(* SandboxProcesses, and execute() (agent/lib/execute_commands.py), which  *)
(* runs a shell command to its end.  execute() runs in two servers, the    *)
(* sandbox and the core, on projects they share; it polls the child and    *)
(* awaits between polls, but what it does in between blocks its loop.      *)
(*                                                                         *)
(* One project, hence one cmds.sh, and one request per member of Requests. *)
(***************************************************************************)
EXTENDS SandboxProcesses

CONSTANTS
    Requests,   \* calls of execute(); the text of a command is its request
    NoScript,   \* cmds.sh does not exist (a model value)
    MaxWork     \* bound: processes and requests of one behaviour

ASSUME ServerAssumption == MaxWork \in Nat

VARIABLES
    script,     \* the text in cmds.sh
    phase,      \* the request: new, polling, reading (in readline), answered, lost
    child,      \* its child: none, launched, runs, prompts (a line begun), ended
    ran,        \* the text the child found in cmds.sh, or "none"
    server,     \* the server the request came to
    coreLoop,   \* the core's event loop: free or busy
    alone       \* history: requests that met no other one and did not time out

execVars == <<script, phase, child, ran, server, coreLoop, alone>>
vars == <<procVars, execVars>>

Servers == {"sandbox", "core"}
LoopOf(s) == IF s = "sandbox" THEN loop ELSE coreLoop
SetLoop(s, v) ==
    IF s = "sandbox" THEN loop' = v /\ UNCHANGED coreLoop
                     ELSE coreLoop' = v /\ UNCHANGED loop
ProcButLoop == <<registry, os, pipe, reader, spawning, holder, waiting, evicted>>

Open == {r \in Requests : phase[r] \in {"polling", "reading"}}
Work == {g \in Guids : os[g] # "none" \/ g \in spawning} \cup {r \in Requests : phase[r] # "new"}

(***************************************************************************)
(* execute().                                                              *)
(***************************************************************************)
\* Mutant: a script that is there is taken to be the right one.
Execute_keeps(r, s) ==
    /\ phase[r] = "new" /\ LoopOf(s) = "free"
    /\ Cardinality(Work) < MaxWork
    /\ script' = IF script = NoScript THEN r ELSE script
    /\ phase' = [phase EXCEPT ![r] = "polling"]
    /\ child' = [child EXCEPT ![r] = "launched"]
    /\ server' = [server EXCEPT ![r] = s]
    /\ alone' = IF Open = {} THEN alone \cup {r} ELSE alone \ Open
    /\ UNCHANGED <<procVars, ran, coreLoop>>

\* Up to the first await: the script is written and the child launched.
Execute(r, s) ==
    /\ phase[r] = "new" /\ LoopOf(s) = "free"
    /\ Cardinality(Work) < MaxWork
    /\ script' = r
    /\ phase' = [phase EXCEPT ![r] = "polling"]
    /\ child' = [child EXCEPT ![r] = "launched"]
    /\ server' = [server EXCEPT ![r] = s]
    /\ alone' = IF Open = {} THEN alone \cup {r} ELSE alone \ Open
    /\ UNCHANGED <<procVars, ran, coreLoop>>

\* A turn that finds part of a line: select says the pipe is readable, and
\* readline waits for the rest of the line with the whole server behind it.
\* A turn that finds nothing, or whole lines, changes nothing here.
ReadLine(r) ==
    /\ phase[r] = "polling" /\ LoopOf(server[r]) = "free"
    /\ child[r] = "prompts"
    /\ phase' = [phase EXCEPT ![r] = "reading"]
    /\ SetLoop(server[r], "busy")
    /\ UNCHANGED <<ProcButLoop, script, child, ran, server, alone>>

LineEnds(r) ==
    /\ phase[r] = "reading" /\ child[r] # "prompts"
    /\ phase' = [phase EXCEPT ![r] = "polling"]
    /\ SetLoop(server[r], "free")
    /\ UNCHANGED <<ProcButLoop, script, child, ran, server, alone>>

\* The loop is left when the child has ended.  The script is removed, whoever
\* wrote it.
Finish(r) ==
    /\ phase[r] = "polling" /\ LoopOf(server[r]) = "free"
    /\ child[r] = "ended"
    /\ phase' = [phase EXCEPT ![r] = "answered"]
    /\ script' = NoScript
    /\ UNCHANGED <<procVars, child, ran, server, coreLoop, alone>>

\* Mutant: the time is counted from the child's start.
TimesOut_started(r) ==
    /\ phase[r] = "polling" /\ LoopOf(server[r]) = "free"
    /\ child[r] \in {"runs", "prompts"}
    /\ phase' = [phase EXCEPT ![r] = "answered"]
    /\ script' = NoScript
    /\ alone' = alone \ {r}
    /\ UNCHANGED <<procVars, child, ran, server, coreLoop>>

\* Or when the time is over.  The message of log.info formats the exit code,
\* which is None, with %d and raises; the handler answers "error", and the
\* branch that would end the child is not reached.
TimesOut(r) ==
    /\ phase[r] = "polling" /\ LoopOf(server[r]) = "free"
    /\ child[r] # "ended"
    /\ phase' = [phase EXCEPT ![r] = "answered"]
    /\ script' = NoScript
    /\ alone' = alone \ {r}
    /\ UNCHANGED <<procVars, child, ran, server, coreLoop>>

(***************************************************************************)
(* The children (su agent -c cmds.sh), and a restart of a container, which *)
(* takes what runs in it along and leaves cmds.sh.                         *)
(***************************************************************************)
\* bash opens the script some time after Popen.
OpenScript(r) ==
    /\ child[r] = "launched"
    /\ ran' = [ran EXCEPT ![r] = script]
    /\ child' = [child EXCEPT ![r] = IF script = NoScript THEN "ended" ELSE "runs"]
    /\ UNCHANGED <<procVars, script, phase, server, coreLoop, alone>>

Prompt(r) ==
    /\ child[r] = "runs"
    /\ child' = [child EXCEPT ![r] = "prompts"]
    /\ UNCHANGED <<procVars, script, phase, ran, server, coreLoop, alone>>

\* A child that does not wait for an answer to what it has written goes on.
GoOn(r) ==
    /\ child[r] = "prompts"
    /\ child' = [child EXCEPT ![r] = "runs"]
    /\ UNCHANGED <<procVars, script, phase, ran, server, coreLoop, alone>>

ChildEnds(r) ==
    /\ child[r] \in {"runs", "prompts"}
    /\ child' = [child EXCEPT ![r] = "ended"]
    /\ UNCHANGED <<procVars, script, phase, ran, server, coreLoop, alone>>

Of(s) == {r \in Requests : phase[r] # "new" /\ server[r] = s}
LoseRequests(s) ==
    /\ phase' = [r \in Requests |-> IF r \in Of(s) \cap Open THEN "lost" ELSE phase[r]]
    /\ child' = [r \in Requests |-> IF r \in Of(s) THEN "ended" ELSE child[r]]
    /\ UNCHANGED <<script, ran, server, alone>>

CrashCore ==
    /\ LoseRequests("core")
    /\ coreLoop' = "free"
    /\ UNCHANGED procVars

CrashSandbox ==
    /\ LoseRequests("sandbox")
    /\ registry' = [g \in Guids |-> NoEntry]
    /\ os' = [g \in Guids |-> IF os[g] # "none" \/ g \in spawning THEN "ended" ELSE "none"]
    /\ reader' = [g \in Guids |-> IF reader[g] = "none" THEN "none" ELSE "off"]
    /\ spawning' = {} /\ holder' = {} /\ loop' = "free"
    /\ waiting' = [g \in Guids |-> "none"]
    /\ UNCHANGED <<pipe, evicted, coreLoop>>

(***************************************************************************)
(* Specification.                                                          *)
(***************************************************************************)
Init ==
    /\ ProcInit
    /\ script = NoScript
    /\ phase = [r \in Requests |-> "new"]
    /\ child = [r \in Requests |-> "none"]
    /\ ran = [r \in Requests |-> "none"]
    /\ server = [r \in Requests |-> "core"]
    /\ coreLoop = "free"
    /\ alone = {}

Processes == /\ Handlers \/ World
             /\ UNCHANGED execVars
             /\ Cardinality(Work') <= MaxWork

Exec == \/ \E r \in Requests, s \in Servers : Execute(r, s)
        \/ \E r \in Requests : ReadLine(r)
        \/ \E r \in Requests : LineEnds(r)
        \/ \E r \in Requests : Finish(r)
        \/ \E r \in Requests : TimesOut(r)
        \/ \E r \in Requests : OpenScript(r)
        \/ \E r \in Requests : Prompt(r)
        \/ \E r \in Requests : GoOn(r)
        \/ \E r \in Requests : ChildEnds(r)

Next == Processes \/ Exec \/ CrashCore \/ CrashSandbox

Spec == Init /\ [][Next]_vars

\* Time passes, the clean-up wakes up every minute, and the loops run what is
\* due.  Nothing is assumed of the processes and of the clients.
Fairness ==
    /\ WF_vars(Tick /\ UNCHANGED execVars)
    /\ WF_vars(Locked(Cleanup) /\ UNCHANGED execVars)
    /\ \A r \in Requests : WF_vars(LineEnds(r)) /\ WF_vars(Finish(r) \/ TimesOut(r))

FairSpec == Spec /\ Fairness

(***************************************************************************)
(* Properties.                                                             *)
(***************************************************************************)
ExecTypeOK ==
    /\ script \in Requests \cup {NoScript}
    /\ phase \in [Requests -> {"new", "polling", "reading", "answered", "lost"}]
    /\ child \in [Requests -> {"none", "launched", "runs", "prompts", "ended"}]
    /\ ran \in [Requests -> Requests \cup {NoScript, "none"}]
    /\ server \in [Requests -> Servers]
    /\ coreLoop \in {"free", "busy"}
    /\ alone \subseteq Requests

ServerTypeOK == TypeOK /\ ExecTypeOK

\* A command whose execution met no other one of its project and did not time
\* out ran its own text: whatever timed-out or crashed executions left behind
\* in cmds.sh, and whichever server they ran on.
OwnText == \A r \in alone : ran[r] \in {r, "none"}

\* A server whose loop is not held by a line that does not end answers every
\* request, also when the command never ends.
Answered ==
    \A r \in Requests :
        phase[r] = "polling" ~> (phase[r] \notin {"polling", "reading"} \/ LoopOf(server[r]) # "free")

\* An entry leaves the registry at the latest at the hard timeout, however
\* busy its clients keep it, unless the loop is held.
Released ==
    \A g \in Guids : Registered(g) ~> (~Registered(g) \/ loop # "free")

(***************************************************************************)
(* The inductive invariant.  What a status says of the rest of the entry's *)
(* process, and how far a request that met no other one has come.          *)
(***************************************************************************)
\* spawn_process is under way exactly for the entries that are starting, and
\* none of them has a reader yet.
StartingIsSpawning ==
    /\ \A g \in spawning : Registered(g) => registry[g].status = "starting"
    /\ \A g \in Guids : Registered(g) /\ registry[g].status = "starting" => g \in spawning
    /\ \A g \in Guids : g \in spawning \/ os[g] = "none" => reader[g] = "none"

\* An entry that failed to start has no process.
ErrorHasNone ==
    \A g \in Guids : Registered(g) /\ registry[g].status = "error" => os[g] = "ended"

\* A spawn that has lost its entry lost it to the clean-up.
LostToCleanup == \A g \in spawning : Registered(g) \/ g \in evicted

\* process_io awaits drain for an entry: the lock it holds keeps the clean-up out.
HolderHasEntry == \A g \in holder : Registered(g)

ProcInv == /\ TypeOK /\ NoOrphans /\ Watched /\ FinishedHasEnded
           /\ StartingIsSpawning /\ ErrorHasNone /\ LostToCleanup /\ HolderHasEntry

\* A request is alone while it is the only one open, and its child finds its
\* own text in cmds.sh.
AloneIsOpenAlone ==
    /\ \A r \in alone : phase[r] # "new" /\ (r \in Open => Open = {r})
    /\ \A r \in alone : child[r] = "launched" => r \in Open /\ script = r
    /\ \A r \in Requests : phase[r] = "new" => child[r] = "none" /\ ran[r] = "none"

ExecInv == ExecTypeOK /\ AloneIsOpenAlone /\ OwnText

IInv == ProcInv /\ ExecInv
=============================================================================
