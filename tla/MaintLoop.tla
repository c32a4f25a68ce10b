------------------------------ MODULE MaintLoop ------------------------------
(***************************************************************************)
(* The loop of core_maint_loop.py for one project: inotifywait under       *)
(* /app/projects, a tick of the project at an event, a tick although there *)
(* was none for CORE_MAINT_INOTIFY_FORCE_ACTIVE_SEC, and polls of the      *)
(* subtrees in which the self-test saw no events.  A tick is run in place  *)
(* or handed to the pool, which takes one job of a project at a time       *)
(* (MaintPool).  What a tick does to the links is in FileLinks: here it is *)
(* its find, which sees the changes made until then.                       *)
(*                                                                         *)
(* Time passes in waits that see no event: a round is                      *)
(* CORE_MAINT_INOTIFY_TIMEOUT_SEC.  inotifywait is started anew for each   *)
(* wait; what changes between two waits, or before its watches are set, is *)
(* not reported.                                                           *)
(***************************************************************************)
EXTENDS Integers, FiniteSets

CONSTANTS
    Subtrees,       \* the project's tree and the mount points directly in it
    Root,
    Force, ForceDegraded,   \* CORE_MAINT_INOTIFY_FORCE_*_SEC, in rounds
    Poll, PollDegraded,     \* CORE_MAINT_POLL_FAILED_*_SEC
    Grace, StaleAfter,      \* CORE_MAINT_MCP_HEARTBEAT_*_SEC
    MaxChanges, MaxFaults   \* bounds of the model

VARIABLES
    blind,      \* subtrees whose changes inotify does not report
    mode,       \* _effective_maint_mode
    failed,     \* _maint_failed_subtrees
    pooled,     \* CORE_MAINT_POOL_WORKERS > 1
    selected,   \* _select_active_projects lists the project
    pc,         \* where the loop is
    event,      \* inotifywait has seen one
    forceAge, pollAge,   \* rounds since last_force_active, last_failed_poll
    age, beatAge,        \* rounds since the start, and since the last heartbeat of an MCP server
    job,        \* the project's job, in the pool or in place
    dirty,      \* files that came ("new") or went ("gone") since the last find that compared them, by subtree
    late,       \* history: rounds a change has waited for the next find, or the try of one
    loopChanges, loopFaults

config == <<blind, mode, failed, pooled>>
timers == <<forceAge, pollAge, age, beatAge>>
bounds == <<loopChanges, loopFaults>>
vars == <<blind, mode, failed, pooled, selected, pc, event, forceAge, pollAge, age, beatAge,
          job, dirty, late, loopChanges, loopFaults>>

Never == StaleAfter + 1     \* no heartbeat yet
AtMost(n, bound) == IF n < bound THEN n ELSE bound

(***************************************************************************)
(* The start                                                               *)
(***************************************************************************)
\* _inotify_probe_dir: a file is created and removed; the watch may be set too late.
ProbeOk(s, slow) == s \notin blind /\ s \notin slow

\* _run_inotify_selftest: the mount points are tried when the root reports; when
\* it does not, the mode is active, unless another project's root does report.
SelfTest(slow, others) ==
    IF ProbeOk(Root, slow)
       THEN [mode |-> "inotify", failed |-> {s \in Subtrees : ~ProbeOk(s, slow)}]
       ELSE IF others THEN [mode |-> "inotify", failed |-> {Root}]
       ELSE [mode |-> "active", failed |-> {}]

\* The mode asked for (inotify without the self-test), or what the self-test leaves of it.
Init ==
    /\ blind \in SUBSET Subtrees
    /\ \E slow \in SUBSET Subtrees : \E others \in BOOLEAN :
       \E m \in {[mode |-> "active", failed |-> {}], [mode |-> "inotify", failed |-> {}],
                 SelfTest(slow, others)} :
          mode = m.mode /\ failed = m.failed
    /\ pooled \in BOOLEAN /\ selected \in BOOLEAN
    /\ pc = "top" /\ event = FALSE
    /\ forceAge = 0 /\ pollAge = 0 /\ age = 0 /\ beatAge = Never
    /\ job = "none" /\ dirty = {} /\ late = [s \in Subtrees |-> 0]
    /\ loopChanges = 0 /\ loopFaults = 0

Fault == loopFaults < MaxFaults /\ loopFaults' = loopFaults + 1

\* What the polls look at: find takes all below a subtree.
PolledTrees == IF Root \in failed THEN Subtrees ELSE failed

\* A round: the changes of a selected project that has no job wait another one;
\* what is polled does not need the selection.
Waits(s) ==
    /\ \E kind \in {"new", "gone"} : <<s, kind>> \in dirty
    /\ s \in PolledTrees \/ (selected /\ job = "none")
RoundPassed ==
    /\ age' = AtMost(age + 1, Grace) /\ beatAge' = AtMost(beatAge + 1, Never)
    /\ forceAge' = AtMost(forceAge + 1, Force) /\ pollAge' = AtMost(pollAge + 1, Poll)
    /\ late' = [s \in Subtrees |-> IF Waits(s) THEN AtMost(late[s] + 1, Force + 1) ELSE late[s]]

(***************************************************************************)
(* The disk, and the choice of projects                                    *)
(***************************************************************************)
Change(s, kind) ==
    /\ loopChanges < MaxChanges
    /\ loopChanges' = loopChanges + 1
    /\ dirty' = dirty \cup {<<s, kind>>}
    /\ event' = (event \/ (pc = "wait" /\ s \notin blind))
    /\ UNCHANGED <<config, selected, pc, timers, job, late, loopFaults>>

\* A session opens the project or turns to another one; a project that comes
\* back waits from then on.
Select ==
    /\ Fault
    /\ selected' = ~selected
    /\ late' = [s \in Subtrees |-> IF s \in PolledTrees THEN late[s] ELSE 0]
    /\ UNCHANGED <<config, pc, event, timers, job, dirty, loopChanges>>

(***************************************************************************)
(* The loop                                                                *)
(***************************************************************************)
ActiveRound ==
    /\ pc = "top" /\ mode = "active"
    /\ pc' = "tick"
    /\ UNCHANGED <<config, selected, event, timers, job, dirty, late, bounds>>

StartWait ==
    /\ pc = "top" /\ mode = "inotify"
    /\ pc' = "arm" /\ event' = FALSE
    /\ UNCHANGED <<config, selected, timers, job, dirty, late, bounds>>

WatchesSet ==
    /\ pc = "arm"
    /\ pc' = "wait"
    /\ UNCHANGED <<config, selected, event, timers, job, dirty, late, bounds>>

\* A change of the project was reported, or one elsewhere under /app/projects;
\* the file an MCP server touches is one of those.
WaitSees(heartbeat) ==
    /\ pc = "wait"
    /\ pc' = "poll" /\ event' = TRUE
    /\ beatAge' = IF heartbeat THEN 0 ELSE beatAge
    /\ UNCHANGED <<config, selected, forceAge, pollAge, age, job, dirty, late, bounds>>

WaitTimesOut ==
    /\ pc = "wait" /\ ~event
    /\ pc' = "poll"
    /\ RoundPassed
    /\ UNCHANGED <<config, selected, event, job, dirty, bounds>>

\* inotifywait fails: taken for an event.
WaitRaises ==
    /\ pc \in {"arm", "wait"} /\ Fault
    /\ pc' = "poll" /\ event' = TRUE
    /\ UNCHANGED <<config, selected, timers, job, dirty, late, loopChanges>>

\* _inotify_heartbeat_stale, and the shorter intervals it makes.
HeartbeatStale == age = Grace /\ beatAge >= StaleAfter
PollEvery == IF HeartbeatStale THEN AtMost(PollDegraded, Poll) ELSE Poll
ForceEvery == IF HeartbeatStale THEN AtMost(ForceDegraded, Force) ELSE Force

PollDue == failed # {} /\ pollAge >= PollEvery

\* Mutant: events alone make ticks.
ForceDue_never == FALSE

ForceDue == forceAge >= ForceEvery

\* _fetch_db_links_prefix: the links below the subtree's path.  That of the
\* root is "." (str of Path(".")), with which no link begins: the files that
\* find gives are all new then, and those that are gone are not missed.
ComparedKinds(s) == IF s = Root THEN {"new"} ELSE {"new", "gone"}

\* run_poll_failed_subtrees: the find of each of them is tried, whatever the
\* others give (lost: those whose find failed).
Polled(lost) ==
    /\ dirty' = {d \in dirty :
          \A s \in failed \ lost : (s = d[1] \/ s = Root) => d[2] \notin ComparedKinds(s)}
    /\ late' = [s \in Subtrees |-> IF s \in PolledTrees THEN 0 ELSE late[s]]
    /\ pollAge' = 0

PollStep ==
    /\ pc = "poll"
    /\ IF PollDue
          THEN \/ /\ Polled({})
                  /\ UNCHANGED loopFaults
               \/ /\ Fault
                  /\ \E s \in failed : Polled({s})
          ELSE UNCHANGED <<dirty, late, pollAge, loopFaults>>
    /\ pc' = "decide"
    /\ UNCHANGED <<config, selected, event, forceAge, age, beatAge, job, loopChanges>>

\* The database fails in a poll: the exception leaves the round, the event with it.
PollRaises ==
    /\ pc = "poll" /\ PollDue /\ Fault
    /\ pc' = "top"
    /\ late' = [s \in Subtrees |-> 0]
    /\ UNCHANGED <<config, selected, event, timers, job, dirty, loopChanges>>

\* An event, or none for too long: a tick; with failed subtrees, in the latter
\* case, another poll of those instead.
Decide ==
    /\ pc = "decide"
    /\ IF event \/ (ForceDue /\ failed = {})
          THEN /\ pc' = "tick"
               /\ UNCHANGED <<dirty, late, pollAge, forceAge>>
          ELSE /\ pc' = "top"
               /\ IF ForceDue THEN Polled({}) /\ forceAge' = 0
                  ELSE UNCHANGED <<dirty, late, pollAge, forceAge>>
    /\ UNCHANGED <<config, selected, event, age, beatAge, job, bounds>>

\* run_tick: nothing for a project that is not selected; a job for the pool
\* unless the project has one; or the work itself.
RunTick ==
    /\ pc = "tick"
    /\ job' = IF selected /\ job = "none" THEN "queued" ELSE job
    /\ pc' = IF selected /\ ~pooled THEN "inside" ELSE "top"
    /\ forceAge' = IF pc' = "top" THEN 0 ELSE forceAge
    /\ UNCHANGED <<config, selected, event, pollAge, age, beatAge, dirty, late, bounds>>

\* The database fails: the event is gone.
RunTickRaises ==
    /\ pc = "tick" /\ Fault
    /\ pc' = "top"
    /\ late' = [s \in Subtrees |-> 0]
    /\ UNCHANGED <<config, selected, event, timers, job, dirty, loopChanges>>

(***************************************************************************)
(* The tick of the project, in place or in a worker                        *)
(***************************************************************************)
\* _find_files_snapshot from the project's directory down.
Find ==
    /\ job = "queued"
    /\ job' = "found"
    /\ dirty' = {} /\ late' = [s \in Subtrees |-> 0]
    /\ UNCHANGED <<config, selected, pc, event, timers, bounds>>

TickEnds ==
    /\ job = "found"
    /\ job' = "none"
    /\ IF pc = "inside" THEN pc' = "top" /\ forceAge' = 0 ELSE UNCHANGED <<pc, forceAge>>
    /\ UNCHANGED <<config, selected, event, pollAge, age, beatAge, dirty, late, bounds>>

\* find fails or takes too long, or its worker is lost: the job is failed, or
\* the exception leaves the round and last_force_active stays.
TickFails ==
    /\ job # "none" /\ Fault
    /\ job' = "none"
    /\ late' = [s \in Subtrees |-> IF s \in PolledTrees THEN late[s] ELSE 0]
    /\ pc' = IF pc = "inside" THEN "top" ELSE pc
    /\ UNCHANGED <<config, selected, event, timers, dirty, loopChanges>>

Next ==
    \/ \E s \in Subtrees : \E kind \in {"new", "gone"} : Change(s, kind)
    \/ Select
    \/ ActiveRound \/ StartWait \/ WatchesSet
    \/ \E heartbeat \in BOOLEAN : WaitSees(heartbeat)
    \/ WaitTimesOut \/ WaitRaises \/ PollStep \/ PollRaises \/ Decide
    \/ RunTick \/ RunTickRaises \/ Find \/ TickEnds \/ TickFails

Spec == Init /\ [][Next]_vars

(***************************************************************************)
(* Properties                                                              *)
(***************************************************************************)
\* No change waits longer than Force rounds for a find to be tried, whatever
\* inotify reports, misses between two waits, or loses with a tick that failed,
\* and whatever job of before the change the pool still holds; in what is polled,
\* not longer than Poll.  With failed subtrees the others have no such bound:
\* nothing but an event makes a tick then.
ChangeIsTried ==
    \A s \in Subtrees :
        /\ failed = {} => late[s] <= Force
        /\ s \in PolledTrees => late[s] <= Poll
-----------------------------------------------------------------------------
(***************************************************************************)
(* The inductive invariant behind ChangeIsTried (CoreProofs)               *)
(***************************************************************************)
TypeOK ==
    /\ failed \subseteq Subtrees
    /\ mode \in {"active", "inotify"} /\ pooled \in BOOLEAN /\ selected \in BOOLEAN
    /\ pc \in {"top", "arm", "wait", "poll", "decide", "tick", "inside"}
    /\ event \in BOOLEAN
    /\ forceAge \in Nat /\ pollAge \in Nat
    /\ job \in {"none", "queued", "found"}
    /\ late \in [Subtrees -> Nat]

\* What only a tick finds waits no longer than the loop has gone without one,
\* and a wait begins before that is too long.
WaitsForTick(s) ==
    /\ late[s] <= Force
    /\ job = "found" \/ ~selected => late[s] = 0
    /\ job = "none" => late[s] <= forceAge /\ (pc \in {"top", "arm", "wait"} => late[s] < Force)

\* What is polled waits no longer than since the last poll.
WaitsForPoll(s) ==
    /\ late[s] <= pollAge /\ late[s] <= Poll
    /\ pc # "poll" => late[s] < Poll

IInv ==
    /\ TypeOK
    /\ \A s \in Subtrees : /\ failed = {} => WaitsForTick(s)
                           /\ s \in PolledTrees => WaitsForPoll(s)
=============================================================================
