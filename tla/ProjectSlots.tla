---------------------------- MODULE ProjectSlots ----------------------------
(***************************************************************************)
(* What the maintenance pool promises, without its table: every project    *)
(* has one slot.  A slot is free, waiting for a worker, or held by exactly *)
(* one worker; only the holder gives it back, and it returns to waiting    *)
(* when its holder is lost.  (agent/lib/maint_pool.py:1, the queue's       *)
(* header comment, and docs/CORE_BACKGROUND_WORKERS.md:34-42.)             *)
(***************************************************************************)
CONSTANTS Projects, Workers

VARIABLES slot,      \* slot[p]: "free", "waiting" or "held"
          executing  \* executing[w]: the set of projects worker w works on

vars == <<slot, executing>>

Init == /\ slot = [p \in Projects |-> "free"]
        /\ executing = [w \in Workers |-> {}]

Idle(w) == executing[w] = {}

Orphaned(p) == /\ slot[p] = "held"
               /\ \A w \in Workers : p \notin executing[w]

\* A job is queued for a project whose slot is free.
Request(p) == /\ slot[p] = "free"
              /\ slot' = [slot EXCEPT ![p] = "waiting"]
              /\ UNCHANGED executing

\* A worker returns the slots in S, whose holders are lost, to the queue and
\* takes p; it may also take nothing.
Take(w, p, S) ==
    /\ Idle(w)
    /\ \A q \in S : Orphaned(q)
    /\ slot[p] = "waiting" \/ p \in S
    /\ slot' = [q \in Projects |-> IF q = p THEN "held"
                                   ELSE IF q \in S THEN "waiting"
                                   ELSE slot[q]]
    /\ executing' = [executing EXCEPT ![w] = {p}]

Reclaim(S) == /\ S # {}
              /\ \A q \in S : Orphaned(q)
              /\ slot' = [q \in Projects |-> IF q \in S THEN "waiting" ELSE slot[q]]
              /\ UNCHANGED executing

\* The holder finishes, with or without success.
Release(w, p) == /\ executing[w] = {p}
                 /\ slot' = [slot EXCEPT ![p] = "free"]
                 /\ executing' = [executing EXCEPT ![w] = {}]

\* Some workers are lost; their slots stay held until they are reclaimed.
Lose(W) == /\ executing' = [w \in Workers |-> IF w \in W THEN {} ELSE executing[w]]
           /\ UNCHANGED slot

Next == \/ \E p \in Projects : Request(p)
        \/ \E w \in Workers, p \in Projects, S \in SUBSET Projects : Take(w, p, S)
        \/ \E S \in SUBSET Projects : Reclaim(S)
        \/ \E w \in Workers, p \in Projects : Release(w, p)
        \/ \E W \in SUBSET Workers : Lose(W)

Spec == Init /\ [][Next]_vars
=============================================================================
