--------------------------- MODULE BackgroundTasks ---------------------------
(***************************************************************************)
(* The registry of background tasks that the core keeps in memory          *)
(* (agent/lib/background_task_registry.py): session ids in the order of    *)
(* their use, and each session's tasks, whose ids count their creation.    *)
(* Clients create, read and take tasks over HTTP (routes/core_routes.py),  *)
(* and GET /project/code_index?cache_only takes finished ones              *)
(* (routes/project_routes.py).  Every method runs under the registry's     *)
(* lock, so it is one step.  All tasks are of one kind and one project.    *)
(*                                                                         *)
(* set_result and set_error are there for the work behind a task; no route *)
(* of the core calls them.                                                 *)
(***************************************************************************)
EXTENDS Integers, SequencesExt, FiniteSets

CONSTANTS
    Sessions,     \* session cookies
    MaxTasks,     \* _MAX_TASKS_PER_SESSION
    MaxSessions,  \* _MAX_SESSIONS
    Ttl,          \* _TTL_SEC
    MaxCreated,   \* bound: tasks
    MaxUses,      \* bound: uses after which no more tasks are finished
    MaxNow        \* bound: seconds

VARIABLES
    order,    \* keys of _sessions
    bucket,   \* _sessions: the tasks of each session
    created,  \* task ids handed out
    now,      \* time.time()
    uses,     \* history: calls so far that count as a use of a session
    used      \* history: the number of the last of them, for each session

vars == <<order, bucket, created, now, uses, used>>

\* _prune_session_tasks: what is too old goes, then the oldest while there are too
\* many.  create adds one task after it, so there is never more than one too many.
Alive(rec) == now - rec.updated <= Ttl
Living(b) == {rec \in b : Alive(rec)}
NotAfter(rec, other) ==
    rec.updated < other.updated \/ (rec.updated = other.updated /\ rec.id <= other.id)
Oldest(b) == CHOOSE rec \in b : \A other \in b : NotAfter(rec, other)
\* Mutant: the task created last goes.
prune_session_tasks_newest(b) ==
    IF Cardinality(Living(b)) > MaxTasks
    THEN Living(b) \ {CHOOSE rec \in Living(b) : \A other \in Living(b) : other.id <= rec.id}
    ELSE Living(b)
prune_session_tasks(b) ==
    IF Cardinality(Living(b)) > MaxTasks THEN Living(b) \ {Oldest(Living(b))} ELSE Living(b)

\* A key leaves a dict; the others keep their order.
Without(s, sids) ==
    IF s \in ToSet(sids) THEN RemoveAt(sids, CHOOSE i \in DOMAIN sids : sids[i] = s) ELSE sids

\* Mutant: the session keeps its place.
touch_session_order_not(s, sids) == sids
\* The session goes to the end, if it is there.
touch_session_order(s, sids) ==
    IF s \in ToSet(sids) THEN Append(Without(s, sids), s) ELSE sids

Use(s) == uses' = uses + 1 /\ used' = [used EXCEPT ![s] = uses + 1]

\* POST /core/background_tasks.  The session that has not been used longest goes,
\* which may be the one that creates: its tasks are gone then.
create(s) ==
    /\ created < MaxCreated
    /\ created' = created + 1
    /\ LET out  == IF Len(order) > MaxSessions THEN {Head(order)} ELSE {}
           sids == IF Len(order) > MaxSessions THEN Tail(order) ELSE order
           mine == IF s \in out THEN {} ELSE prune_session_tasks(bucket[s])
       IN  /\ order' = IF s \in ToSet(sids) THEN touch_session_order(s, sids) ELSE Append(sids, s)
           /\ bucket' = [r \in Sessions |->
                 IF r = s THEN mine \cup {[id |-> created', status |-> "pending", updated |-> now]}
                 ELSE IF r \in out THEN {} ELSE bucket[r]]
    /\ Use(s)
    /\ UNCHANGED now

\* set_result and set_error.
Finish(s, status) ==
    /\ uses < MaxUses
    /\ \E rec \in bucket[s] :
          bucket' = [bucket EXCEPT ![s] = (bucket[s] \ {rec}) \cup
                        {[id |-> rec.id, status |-> status, updated |-> now]}]
    /\ order' = touch_session_order(s, order)
    /\ Use(s)
    /\ UNCHANGED <<created, now>>
set_result(s) == Finish(s, "ready")
set_error(s) == Finish(s, "error")

\* GET of a task that is there prunes the others too.
get(s) ==
    /\ bucket[s] # {}
    /\ bucket' = [bucket EXCEPT ![s] = prune_session_tasks(bucket[s])]
    /\ UNCHANGED <<order, created, now, uses, used>>

\* DELETE, and the finished task that cache_only takes: the last task takes the
\* session with it.
Taken(s, rec) ==
    /\ bucket' = [bucket EXCEPT ![s] = bucket[s] \ {rec}]
    /\ UNCHANGED <<created, now>>
Emptied(s, sids) == IF bucket'[s] = {} THEN Without(s, sids) ELSE sids

pop(s) ==
    \E rec \in bucket[s] : Taken(s, rec) /\ order' = Emptied(s, order) /\ UNCHANGED <<uses, used>>

\* cache_only: the first finished task in the order of creation.
pop_ready_result(s) ==
    \E rec \in bucket[s] :
        /\ rec.status = "ready"
        /\ \A other \in bucket[s] : other.status = "ready" => rec.id <= other.id
        /\ Taken(s, rec)
        /\ order' = Emptied(s, touch_session_order(s, order))
        /\ Use(s)

Tick == now < MaxNow /\ now' = now + 1 /\ UNCHANGED <<order, bucket, created, uses, used>>
-----------------------------------------------------------------------------
Init ==
    /\ order = <<>>
    /\ bucket = [s \in Sessions |-> {}]
    /\ created = 0 /\ now = 0
    /\ uses = 0 /\ used = [s \in Sessions |-> 0]

Taking == \E s \in Sessions : pop(s) \/ pop_ready_result(s)
Next == \/ \E s \in Sessions : create(s) \/ set_result(s) \/ set_error(s) \/ get(s)
        \/ Taking
        \/ Tick

Spec == Init /\ [][Next]_vars
-----------------------------------------------------------------------------
Task == [id : 1..created, status : {"pending", "ready", "error"}, updated : 0..now]

TypeOK ==
    /\ order \in Seq(Sessions)
    /\ created \in Nat /\ now \in Nat /\ uses \in Nat
    /\ bucket \in [Sessions -> SUBSET Task]
    /\ used \in [Sessions -> 0..uses]

(***************************************************************************)
(* The inductive invariant of OnlyOldestGoes                               *)
(***************************************************************************)
\* The keys are in the order of their last uses.
OrderedByUse == \A i, j \in DOMAIN order : i < j => used[order[i]] < used[order[j]]

\* A task is in its session once, and there is never more than one too many.
OneEach == \A s \in Sessions : \A rec, other \in bucket[s] : rec.id = other.id => rec = other
OneTooMany == \A s \in Sessions : IsFiniteSet(bucket[s]) /\ Cardinality(bucket[s]) <= MaxTasks + 1

IInv == TypeOK /\ OrderedByUse /\ OneEach /\ OneTooMany

\* A task that nobody took is there until it is too old, or its session has
\* MaxTasks others that were touched after it, or MaxSessions other sessions were
\* used after its own (background_task_registry.py:31-73).
Newer(rec, b) == {r \in b : r.id # rec.id /\ r.updated >= rec.updated}
UsedLater(s) == {r \in ToSet(order) : used[r] > used[s]}
OnlyOldestGoes ==
    \A s \in Sessions : \A rec \in bucket[s] :
         \/ \E r \in bucket'[s] : r.id = rec.id
         \/ Taking
         \/ ~Alive(rec)
         \/ Cardinality(Newer(rec, bucket[s])) >= MaxTasks
         \/ Cardinality(UsedLater(s)) >= MaxSessions
=============================================================================
