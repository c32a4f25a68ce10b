----------------------------- MODULE ProjectsProofs -----------------------------
(***************************************************************************)
(* Proofs about the components that work on the files of a project and run *)
(* its processes, for every value of their settings and bounds.  Each      *)
(* component's inductive invariant is in its own module; here are its      *)
(* three facts, and, at the end, the theorems about the module that runs   *)
(* all of them.                                                            *)
(***************************************************************************)
EXTENDS MCProjects, Integers, Sequences, FiniteSets, FiniteSetTheorems, SequenceTheorems,
        TLAPS, WellFoundedInduction

\* A set of numbers that is not empty has a least one.
LEMMA LeastExists ==
  ASSUME NEW S \in SUBSET Nat, S # {}
  PROVE  \E i \in S : \A j \in S : i <= j
  <1>1. PICK x \in S : \A y \in S : ~ (<<y, x>> \in OpToRel(<, Nat))
    BY NatLessThanWellFounded, WFMin
  <1>2. ASSUME NEW y \in S PROVE x <= y
    <2>1. x \in Nat /\ y \in Nat
      OBVIOUS
    <2>2. y < x => <<y, x>> \in OpToRel(<, Nat)
      BY <2>1 DEF OpToRel
    <2>3. ~ (y < x)
      BY <1>1, <2>2
    <2>4. QED
      BY <2>1, <2>3
  <1>3. QED
    BY <1>2

\* An element of a sequence over a set is in the set.
LEMMA ElementOf ==
  ASSUME NEW S, NEW s \in Seq(S), NEW i \in DOMAIN s
  PROVE  s[i] \in S
  OBVIOUS

-----------------------------------------------------------------------------
(***************************************************************************)
(* Scan state of a project (dicts v1, store v2, tasks v3, threads v4, loop *)
(* v5, unseen v6, lost v7, outlived v8, spent v9)                          *)
(***************************************************************************)
\* At first nobody scans, and the one dict says the files are stale.
LEMMA ScansInit == Scans!Init => Scans!IInv
  <1> SUFFICES ASSUME Scans!Init PROVE Scans!IInv
    OBVIOUS
  <1>1. v1 = <<[running |-> FALSE, stale |-> TRUE, error |-> FALSE]>> /\ v2 = 1 /\ v5 = Scans!Free /\ v6 = FALSE
        /\ \A a \in Scans!Walkers : v4[a] = Scans!NoThread
    BY DEF Scans!Init, Scans!Walkers
  <1>2. Scans!TypeOK
    <2>1. v3 = [t \in Clients |-> "none"] /\ v4 = [a \in Scans!Walkers |-> Scans!NoThread] /\ v7 = FALSE /\ v8 = FALSE
      BY DEF Scans!Init, Scans!Walkers
    <2>2. v1 \in Seq([running : BOOLEAN, stale : BOOLEAN, error : BOOLEAN]) /\ v2 \in DOMAIN v1
      BY <1>1
    <2>3. v5 \in [by : Clients \cup {None, "refresh", "other", "put"}, dict : Nat]
      BY <1>1 DEF Scans!Free
    <2>4. v4 \in [Scans!Walkers -> [pc : Scans!Places, dict : Nat]]
      BY <2>1 DEF Scans!NoThread, Scans!Places
    <2>5. QED
      BY <1>1, <2>1, <2>2, <2>3, <2>4 DEF Scans!TypeOK
  <1>3. None \notin Clients /\ "loop" \in Scans!Walkers
    BY NamesAssumption DEF Scans!Walkers
  <1>4. QED
    BY <1>1, <1>2, <1>3 DEF Scans!IInv, Scans!HeldDicts, Scans!ThreadsHaveScans, Scans!RunningHasTask, Scans!UnseenIsStale,
                      Scans!State, Scans!Free, Scans!NoThread, Scans!Walkers

\* The dict in the store is changed in place, and no other.
LEMMA ScansUpdated ==
  ASSUME Scans!TypeOK, NEW d \in [running : BOOLEAN, stale : BOOLEAN, error : BOOLEAN], Scans!Updated(d)
  PROVE  /\ v1' \in Seq([running : BOOLEAN, stale : BOOLEAN, error : BOOLEAN])
         /\ DOMAIN v1' = DOMAIN v1
         /\ v1'[v2] = d
         /\ \A i \in DOMAIN v1 : i # v2 => v1'[i] = v1[i]
  BY DEF Scans!TypeOK, Scans!Updated

\* The dict in the store is a dict; so is the one that a change of a file makes of it.
LEMMA ScansDict ==
  ASSUME Scans!TypeOK
  PROVE  /\ Scans!State \in [running : BOOLEAN, stale : BOOLEAN, error : BOOLEAN]
         /\ Scans!Stale(Scans!State) \in [running : BOOLEAN, stale : BOOLEAN, error : BOOLEAN]
         /\ Scans!Stale(Scans!State).stale
         /\ Scans!Stale(Scans!State).running = Scans!State.running
  <1>1. v1[v2] \in [running : BOOLEAN, stale : BOOLEAN, error : BOOLEAN]
    BY ElementOf DEF Scans!TypeOK
  <1>2. QED
    BY <1>1 DEF Scans!State, Scans!Stale

\* Where the event loop takes the dict of the store to put it back, the threads
\* go on, and what it says of a running scan is true, the invariant is kept.
LEMMA ScansHeld ==
  ASSUME Scans!IInv, NEW d \in [running : BOOLEAN, stale : BOOLEAN, error : BOOLEAN], Scans!Updated(d),
         v2' = v2, v7' = v7, v6' \in BOOLEAN, v8' \in BOOLEAN, v8 => v8',
         v5' \in [by : Clients \cup {None, "refresh", "other", "put"}, dict : Nat],
         v5'.dict \in {0, v2}, v4' \in [Scans!Walkers -> [pc : Scans!Places, dict : Nat]],
         \A a \in Scans!Walkers : v4'[a] \in {v4[a], Scans!NoThread},
         v3' \in [Clients -> {"none", "scheduled", "scanning", "done"}], Scans!ThreadsHaveScans',
         \/ Scans!TaskUnderWay' \/ v8'
         \/ ~ d.running /\ \A a \in Scans!Walkers : v4'[a].dict \notin {0, v2} /\ v1[v4'[a].dict].running => a \in Clients
         \/ (Scans!TaskUnderWay' = Scans!TaskUnderWay /\ (d.running => Scans!State.running)),
         v6' => d.stale \/ (v6 /\ d.stale = Scans!State.stale)
  PROVE  Scans!IInv'
  <1>1. /\ v1' \in Seq([running : BOOLEAN, stale : BOOLEAN, error : BOOLEAN])
        /\ DOMAIN v1' = DOMAIN v1
        /\ v1'[v2] = d
        /\ \A i \in DOMAIN v1 : i # v2 => v1'[i] = v1[i]
    BY ScansUpdated DEF Scans!IInv
  <1>2. Scans!TypeOK'
    BY <1>1 DEF Scans!IInv, Scans!TypeOK
  <1>3. Scans!HeldDicts'
    BY <1>1 DEF Scans!IInv, Scans!HeldDicts, Scans!TypeOK, Scans!NoThread
  <1>4. Scans!RunningHasTask'
    <2>1. CASE Scans!TaskUnderWay'
      BY <2>1 DEF Scans!RunningHasTask
    <2>0. CASE v8'
      BY <2>0 DEF Scans!RunningHasTask
    <2>2. CASE ~ d.running /\ \A a \in Scans!Walkers : v4'[a].dict \notin {0, v2} /\ v1[v4'[a].dict].running => a \in Clients
      <3>1. ~ Scans!State'.running
        BY <1>1, <2>2 DEF Scans!State
      <3>2. ASSUME NEW a \in Scans!Walkers, v4'[a].dict # 0, v1'[v4'[a].dict].running PROVE Scans!TaskUnderWay'
        <4>1. v4'[a].pc # "none" /\ v4'[a].dict \in DOMAIN v1
          BY <1>1, <1>3, <3>2 DEF Scans!HeldDicts
        <4>2. v4'[a].dict # v2 /\ v1[v4'[a].dict].running
          BY <1>1, <2>2, <3>2, <4>1
        <4>3. a \in Clients
          BY <2>2, <3>2, <4>2
        <4>4. QED
          BY <4>1, <4>3 DEF Scans!ThreadsHaveScans, Scans!TaskUnderWay
      <3>3. QED
        BY <1>1, <2>2, <3>1, <3>2 DEF Scans!RunningHasTask
    <2>3. CASE Scans!TaskUnderWay' = Scans!TaskUnderWay /\ (d.running => Scans!State.running) /\ ~ v8'
      <3>0. ~ v8
        BY <2>3
      <3>1. ASSUME NEW i \in DOMAIN v1, v1'[i].running PROVE v1[i].running
        BY <1>1, <2>3, <3>1 DEF Scans!State
      <3>2. Scans!State'.running => Scans!TaskUnderWay'
        BY <1>1, <2>3, <3>0 DEF Scans!State, Scans!IInv, Scans!RunningHasTask
      <3>3. v5'.dict # 0 /\ v1'[v5'.dict].running => Scans!TaskUnderWay'
        BY <3>2 DEF Scans!State
      <3>4. ASSUME NEW a \in Scans!Walkers, v4'[a].dict # 0, v1'[v4'[a].dict].running PROVE Scans!TaskUnderWay'
        <4>1. v4'[a] = v4[a]
          BY <3>4 DEF Scans!NoThread
        <4>2. v4[a].dict \in DOMAIN v1
          BY <3>4, <4>1 DEF Scans!IInv, Scans!HeldDicts
        <4>3. v1[v4[a].dict].running
          BY <3>1, <3>4, <4>1, <4>2
        <4>4. QED
          BY <2>3, <3>0, <3>4, <4>1, <4>3 DEF Scans!IInv, Scans!RunningHasTask
      <3>5. QED
        BY <3>2, <3>3, <3>4 DEF Scans!RunningHasTask
    <2>4. QED
      BY <2>0, <2>1, <2>2, <2>3
  <1>5. Scans!UnseenIsStale'
    BY <1>1 DEF Scans!IInv, Scans!UnseenIsStale, Scans!State
  <1>6. QED
    BY <1>2, <1>3, <1>4, <1>5 DEF Scans!IInv

\* Every step of a scan, of a mark and of a dict that is put back keeps the invariant.
LEMMA ScansStep == Scans!IInv /\ [Scans!Next]_(Scans!vars) => Scans!IInv'
  <1> SUFFICES ASSUME Scans!IInv, [Scans!Next]_(Scans!vars) PROVE Scans!IInv'
    OBVIOUS
  <1> DEFINE Dict == [running : BOOLEAN, stale : BOOLEAN, error : BOOLEAN]
             Holders == [by : Clients \cup {None, "refresh", "other", "put"}, dict : Nat]
             Threads == [Scans!Walkers -> [pc : Scans!Places, dict : Nat]]
  <1>0. /\ v1 \in Seq(Dict) /\ v2 \in DOMAIN v1 /\ v2 \in Nat \ {0}
        /\ v3 \in [Clients -> {"none", "scheduled", "scanning", "done"}]
        /\ v4 \in Threads /\ v5 \in Holders
        /\ v6 \in BOOLEAN /\ v7 \in BOOLEAN /\ v8 \in BOOLEAN /\ Scans!State \in Dict
    BY ScansDict DEF Scans!IInv, Scans!TypeOK
  <1>00. /\ None \notin Clients \cup {"refresh", "other", "put"} /\ "loop" \notin Clients /\ "put" \notin Clients
         /\ "refresh" \notin Clients /\ "other" \notin Clients
         /\ "loop" \in Scans!Walkers /\ Clients \subseteq Scans!Walkers
    BY NamesAssumption DEF Scans!Walkers
  <1> HIDE DEF Dict, Holders, Threads
  <1>1. ASSUME NEW t \in Clients, Scans!scan_refresh(t) PROVE Scans!IInv'
    <2> DEFINE d == [Scans!State EXCEPT !.running = TRUE, !.error = FALSE]
    <2>1. d \in Dict /\ d.stale = Scans!State.stale
      BY <1>0 DEF Dict
    <2> HIDE DEF d
    <2>2. /\ v5 = Scans!Free /\ v3[t] = "none" /\ v3' = [v3 EXCEPT ![t] = "scheduled"] /\ Scans!Updated(d)
          /\ v5' = [by |-> t, dict |-> v2] /\ UNCHANGED <<v2, v4, v6, v7, v8>>
      BY <1>1 DEF Scans!scan_refresh, d
    <2>3. v3' \in [Clients -> {"none", "scheduled", "scanning", "done"}] /\ v5' \in Holders /\ v5'.dict = v2
      BY <1>0, <2>2 DEF Holders
    <2>4. Scans!TaskUnderWay'
      BY <1>0, <2>2 DEF Scans!TaskUnderWay
    <2>5. Scans!ThreadsHaveScans'
      BY <1>0, <1>00, <2>2 DEF Scans!IInv, Scans!ThreadsHaveScans, Scans!Free
    <2>6. QED
      BY <1>0, <2>1, <2>2, <2>3, <2>4, <2>5, ScansHeld DEF Dict, Holders, Threads
  <1>2. ASSUME NEW t \in Clients, Scans!scan_after_create(t) PROVE Scans!IInv'
    <2>1. /\ v5 = Scans!Free /\ v3[t] = "none" /\ v3' = [v3 EXCEPT ![t] = "scheduled"]
          /\ UNCHANGED <<v1, v2, v4, v5, v6, v7, v8>>
      BY <1>2 DEF Scans!scan_after_create
    <2>2. v3' \in [Clients -> {"none", "scheduled", "scanning", "done"}] /\ Scans!TaskUnderWay'
      BY <1>0, <2>1 DEF Scans!TaskUnderWay
    <2>3. Scans!ThreadsHaveScans'
      BY <1>0, <1>00, <2>1 DEF Scans!IInv, Scans!ThreadsHaveScans, Scans!Free
    <2>4. QED
      BY <2>1, <2>2, <2>3 DEF Scans!IInv, Scans!TypeOK, Scans!HeldDicts, Scans!RunningHasTask, Scans!UnseenIsStale, Scans!State
  <1>3. ASSUME NEW t \in Clients, Scans!Start(t) PROVE Scans!IInv'
    <2> DEFINE d == [Scans!State EXCEPT !.running = TRUE, !.error = FALSE]
    <2>1. d \in Dict /\ d.stale = Scans!State.stale
      BY <1>0 DEF Dict
    <2> HIDE DEF d
    <2>2. /\ v5 = Scans!Free /\ v3[t] = "scheduled" /\ v3' = [v3 EXCEPT ![t] = "scanning"] /\ Scans!Updated(d)
          /\ v5' = [by |-> t, dict |-> v2] /\ UNCHANGED <<v2, v4, v6, v7, v8>>
      BY <1>3 DEF Scans!Start, d
    <2>3. v3' \in [Clients -> {"none", "scheduled", "scanning", "done"}] /\ v5' \in Holders /\ v5'.dict = v2
      BY <1>0, <2>2 DEF Holders
    <2>4. Scans!TaskUnderWay'
      BY <1>0, <2>2 DEF Scans!TaskUnderWay
    <2>5. v4[t] = Scans!NoThread
      <3>1. v4[t].pc = "none" /\ v4[t] \in [pc : Scans!Places, dict : Nat]
        BY <1>0, <1>00, <2>2 DEF Scans!IInv, Scans!ThreadsHaveScans, Threads
      <3>2. v4[t].dict = 0
        BY <1>00, <3>1 DEF Scans!IInv, Scans!HeldDicts
      <3>3. QED
        BY <3>1, <3>2 DEF Scans!NoThread
    <2>6. Scans!ThreadsHaveScans'
      <3>1. \A u \in Clients : v4[u].pc # "none" => v3'[u] = "scanning"
        BY <1>0, <2>2 DEF Scans!IInv, Scans!ThreadsHaveScans
      <3>2. v4["loop"].pc = "none" /\ v5'.by = t /\ v5'.dict # 0
        BY <1>0, <1>00, <2>2 DEF Scans!IInv, Scans!ThreadsHaveScans, Scans!Free
      <3>3. QED
        BY <2>2, <2>5, <3>1, <3>2 DEF Scans!ThreadsHaveScans
    <2>7. QED
      BY <1>0, <2>1, <2>2, <2>3, <2>4, <2>6, ScansHeld DEF Dict, Holders, Threads
  <1>4. CASE Scans!PutBack
    <2>1. /\ v5.dict \in DOMAIN v1 /\ v2' = v5.dict /\ v7' = (v7 \/ v5.dict # v2) /\ v5' = Scans!Free
          /\ UNCHANGED <<v1, v3, v6, v8>>
      BY <1>4 DEF Scans!PutBack, Scans!Put, Scans!IInv, Scans!HeldDicts
    <2>2. v4' = v4 \/ (v5.by \in Clients /\ v3[v5.by] = "scanning" /\ v4' = [v4 EXCEPT ![v5.by].pc = "started"])
      BY <1>4 DEF Scans!PutBack
    <2>3. v5' \in Holders /\ v5'.by = None /\ v5'.dict = 0
      BY <2>1 DEF Scans!Free, Holders
    <2>4. v7' \in BOOLEAN
      BY <2>1
    <2>5. \A a \in Scans!Walkers :
             \/ v4'[a] = v4[a]
             \/ a \in Clients /\ v3[a] = "scanning" /\ v4'[a].pc = "started" /\ v4'[a].dict = 0
      <3>1. CASE v4' = v4
        BY <3>1
      <3>2. CASE v5.by \in Clients /\ v3[v5.by] = "scanning" /\ v4' = [v4 EXCEPT ![v5.by].pc = "started"]
        <4>1. v4[v5.by] = Scans!NoThread
          BY <3>2 DEF Scans!IInv, Scans!ThreadsHaveScans
        <4>2. v4'[v5.by].pc = "started" /\ v4'[v5.by].dict = 0
          BY <1>0, <1>00, <3>2, <4>1 DEF Scans!NoThread, Threads
        <4>3. QED
          BY <1>0, <3>2, <4>2 DEF Threads
      <3>3. QED
        BY <2>2, <3>1, <3>2
    <2>6. v4' \in Threads
      BY <1>0, <2>2, SMTT(30) DEF Threads, Scans!Places
    <2>7. Scans!TypeOK'
      BY <1>0, <2>1, <2>3, <2>4, <2>6 DEF Scans!TypeOK, Dict, Holders, Threads
    <2>8. Scans!HeldDicts'
      BY <2>1, <2>3, <2>5 DEF Scans!IInv, Scans!HeldDicts
    <2>9. Scans!ThreadsHaveScans'
      <3>1. \A t \in Clients : v4'[t].pc # "none" => v3'[t] = "scanning"
        BY <1>00, <2>1, <2>5 DEF Scans!IInv, Scans!ThreadsHaveScans
      <3>2. v4'["loop"] = v4["loop"]
        BY <1>00, <2>5
      <3>3. v4["loop"].pc = "none"
        BY <1>0, <2>1 DEF Scans!IInv, Scans!ThreadsHaveScans
      <3>4. QED
        BY <1>00, <2>3, <3>1, <3>2, <3>3 DEF Scans!ThreadsHaveScans
    <2>10. Scans!RunningHasTask'
      <3>1. Scans!TaskUnderWay' = Scans!TaskUnderWay
        BY <2>1 DEF Scans!TaskUnderWay
      <3>2. Scans!State' = v1[v5.dict] /\ v5.dict # 0
        BY <1>0, <2>1 DEF Scans!State
      <3>3. QED
        BY <2>1, <2>3, <2>5, <3>1, <3>2 DEF Scans!IInv, Scans!RunningHasTask
    <2>11. Scans!UnseenIsStale'
      BY <2>1 DEF Scans!IInv, Scans!UnseenIsStale, Scans!State
    <2>12. QED
      BY <2>7, <2>8, <2>9, <2>10, <2>11 DEF Scans!IInv
  <1>5. ASSUME NEW t \in Clients, Scans!End(t) PROVE Scans!IInv'
    <2> DEFINE d == Scans!Ended(Scans!State, v4[t].pc = "failed")
    <2>1. d \in Dict /\ ~ d.running /\ (Scans!State.stale => d.stale)
      BY <1>0 DEF Dict, Scans!Ended
    <2> HIDE DEF d
    <2>2. /\ v5 = Scans!Free /\ v4[t].pc \in {"ended", "failed"} /\ v3' = [v3 EXCEPT ![t] = "done"]
          /\ v4' = [v4 EXCEPT ![t] = Scans!NoThread] /\ Scans!Updated(d)
          /\ v5' = [by |-> t, dict |-> v2] /\ UNCHANGED <<v2, v6, v7>>
      BY <1>5 DEF Scans!End, d
    <2>10. v8' = (v8 \/ Scans!PoolHoldsRunning)
      BY <1>5 DEF Scans!End
    <2>11. v8' \in BOOLEAN /\ (v8 => v8')
      BY <2>10
    <2>3. /\ v3' \in [Clients -> {"none", "scheduled", "scanning", "done"}] /\ v5' \in Holders /\ v5'.dict = v2
          /\ v4' \in Threads
      BY <1>0, <1>00, <2>2 DEF Holders, Threads, Scans!NoThread, Scans!Places
    <2>4. \A a \in Scans!Walkers : v4'[a] \in {v4[a], Scans!NoThread}
      BY <1>0, <2>2 DEF Threads
    <2>5. v4["loop"].pc = "none"
      BY <1>0, <1>00, <2>2 DEF Scans!IInv, Scans!ThreadsHaveScans, Scans!Free
    <2>6. Scans!ThreadsHaveScans'
      <3>1. ASSUME NEW u \in Clients, v4'[u].pc # "none" PROVE v3'[u] = "scanning"
        <4>1. u # t /\ v4'[u] = v4[u]
          BY <1>0, <1>00, <2>2, <3>1 DEF Scans!NoThread, Threads
        <4>2. QED
          BY <1>0, <2>2, <3>1, <4>1 DEF Scans!IInv, Scans!ThreadsHaveScans
      <3>2. v4'["loop"].pc = "none" /\ v5'.by = t /\ v3'[t] = "done"
        BY <1>0, <1>00, <2>2, <2>4, <2>5 DEF Scans!NoThread
      <3>3. QED
        BY <3>1, <3>2 DEF Scans!ThreadsHaveScans
    <2>7. v8' \/ \A a \in Scans!Walkers : v4'[a].dict \notin {0, v2} /\ v1[v4'[a].dict].running => a \in Clients
      <3>1. v4["loop"].dict = 0
        BY <1>00, <2>5 DEF Scans!IInv, Scans!HeldDicts
      <3>2. v8' \/ ~ Scans!PoolHoldsRunning
        BY <2>10
      <3>3. ASSUME ~ Scans!PoolHoldsRunning, NEW a \in Scans!Walkers, v4'[a].dict \notin {0, v2},
                   v1[v4'[a].dict].running
            PROVE  a \in Clients
        <4>1. v4'[a] = v4[a]
          BY <2>4, <3>3 DEF Scans!NoThread
        <4>2. QED
          BY <3>1, <3>3, <4>1 DEF Scans!PoolHoldsRunning, Scans!Walkers
      <3>4. QED
        BY <3>2, <3>3
    <2>8. v6' => d.stale \/ (v6 /\ d.stale = Scans!State.stale)
      BY <1>0, <2>1, <2>2 DEF Dict
    <2>9. QED
      BY <1>0, <2>1, <2>2, <2>3, <2>4, <2>6, <2>7, <2>8, <2>11, ScansHeld DEF Dict, Holders, Threads
  <1>6. ASSUME NEW for \in {"refresh", "other"}, Scans!LoopScan(for) PROVE Scans!IInv'
    <2>1. /\ v5 = Scans!Free /\ v5' = [by |-> for, dict |-> 0] /\ v4' = [v4 EXCEPT !["loop"].pc = "started"]
          /\ UNCHANGED <<v1, v2, v3, v6, v7, v8>>
      BY <1>6 DEF Scans!LoopScan
    <2>2. v4["loop"].pc = "none" /\ v4["loop"].dict = 0
      BY <1>0, <1>00, <2>1 DEF Scans!IInv, Scans!ThreadsHaveScans, Scans!HeldDicts, Scans!Free
    <2>3. v4' \in Threads /\ v5' \in Holders
      BY <1>0, <2>1 DEF Threads, Holders, Scans!Places
    <2>4. v4'["loop"].pc = "started" /\ v4'["loop"].dict = 0 /\ \A t \in Clients : v4'[t] = v4[t]
      BY <1>0, <1>00, <2>1, <2>2 DEF Threads
    <2>5. Scans!TypeOK'
      BY <1>0, <2>1, <2>3 DEF Scans!TypeOK, Dict, Holders, Threads
    <2>6. QED
      BY <1>00, <2>1, <2>4, <2>5 DEF Scans!IInv, Scans!HeldDicts, Scans!ThreadsHaveScans, Scans!RunningHasTask,
           Scans!TaskUnderWay, Scans!UnseenIsStale, Scans!State, Scans!Walkers
  <1>7. CASE Scans!LoopScanEnds
    <2>1. /\ v4["loop"].pc \in {"ended", "failed"} /\ v4' = [v4 EXCEPT !["loop"] = Scans!NoThread]
          /\ UNCHANGED <<v2, v3, v6, v7, v8>>
      BY <1>7 DEF Scans!LoopScanEnds
    <2>2. v4' \in Threads /\ (\A a \in Scans!Walkers : v4'[a] \in {v4[a], Scans!NoThread})
          /\ v4'["loop"] = Scans!NoThread /\ \A t \in Clients : v4'[t] = v4[t]
      BY <1>0, <1>00, <2>1 DEF Threads, Scans!NoThread, Scans!Places
    <2>3. Scans!TaskUnderWay' = Scans!TaskUnderWay
      BY <2>1 DEF Scans!TaskUnderWay
    <2>4. CASE v5.by = "refresh" /\ v4["loop"].pc = "ended"
      <3> DEFINE d == [Scans!State EXCEPT !.running = FALSE, !.error = FALSE]
      <3>1. d \in Dict /\ d.stale = Scans!State.stale /\ ~ d.running
        BY <1>0 DEF Dict
      <3> HIDE DEF d
      <3>2. Scans!Updated(d) /\ v5' = [by |-> "put", dict |-> v2]
        BY <1>7, <2>4 DEF Scans!LoopScanEnds, d
      <3>3. v5' \in Holders /\ v5'.dict = v2
        BY <1>0, <3>2 DEF Holders
      <3>4. Scans!ThreadsHaveScans'
        BY <1>00, <2>1, <2>2, <3>2 DEF Scans!IInv, Scans!ThreadsHaveScans, Scans!NoThread
      <3>5. QED
        BY <1>0, <2>1, <2>2, <2>3, <3>1, <3>2, <3>3, <3>4, ScansHeld DEF Dict, Holders, Threads
    <2>5. CASE ~ (v5.by = "refresh" /\ v4["loop"].pc = "ended")
      <3>1. v5' = Scans!Free /\ v1' = v1
        BY <1>7, <2>5 DEF Scans!LoopScanEnds
      <3>2. v5' \in Holders /\ v5'.dict = 0 /\ v5'.by = None
        BY <3>1 DEF Scans!Free, Holders
      <3>3. Scans!TypeOK'
        BY <1>0, <2>1, <2>2, <3>1, <3>2 DEF Scans!TypeOK, Dict, Holders, Threads
      <3>4. QED
        BY <1>00, <2>1, <2>2, <2>3, <3>1, <3>2, <3>3
           DEF Scans!IInv, Scans!HeldDicts, Scans!ThreadsHaveScans, Scans!RunningHasTask,
               Scans!UnseenIsStale, Scans!State, Scans!NoThread
    <2>6. QED
      BY <2>4, <2>5
  <1>8. CASE Scans!FileChanged
    <2> DEFINE d == Scans!Stale(Scans!State)
    <2>1. d \in Dict /\ d.stale /\ d.running = Scans!State.running
      BY ScansDict DEF Dict, Scans!IInv
    <2> HIDE DEF d
    <2>2. /\ v5 = Scans!Free /\ Scans!Updated(d) /\ v6' = TRUE /\ v5' = [by |-> "put", dict |-> v2]
          /\ UNCHANGED <<v2, v3, v4, v7, v8>>
      BY <1>8 DEF Scans!FileChanged, d
    <2>3. v5' \in Holders /\ v5'.dict = v2
      BY <1>0, <2>2 DEF Holders
    <2>4. Scans!ThreadsHaveScans'
      BY <1>0, <1>00, <2>2 DEF Scans!IInv, Scans!ThreadsHaveScans, Scans!Free
    <2>5. Scans!TaskUnderWay' = Scans!TaskUnderWay
      BY <2>2 DEF Scans!TaskUnderWay
    <2>6. QED
      BY <1>0, <2>1, <2>2, <2>3, <2>4, <2>5, ScansHeld DEF Dict, Holders, Threads
  <1>9. ASSUME NEW a \in Scans!Walkers, Scans!Fails(a) PROVE Scans!IInv'
    <2>1. PICK pc \in {"failed", "ended"} : v4[a].pc = "started" /\ v4' = [v4 EXCEPT ![a].pc = pc]
      BY <1>9 DEF Scans!Fails
    <2>2. UNCHANGED <<v1, v2, v3, v5, v6, v7, v8>>
      BY <1>9 DEF Scans!Fails
    <2>3. v4' \in Threads /\ v4'[a].pc = pc /\ v4'[a].dict = v4[a].dict
          /\ \A b \in Scans!Walkers : b # a => v4'[b] = v4[b]
      BY <1>0, <2>1 DEF Threads, Scans!Places
    <2>4. v4[a].dict = 0
      BY <2>1 DEF Scans!IInv, Scans!HeldDicts
    <2>5. Scans!TypeOK'
      BY <1>0, <2>2, <2>3 DEF Scans!TypeOK, Dict, Holders, Threads
    <2>6. Scans!HeldDicts' /\ Scans!RunningHasTask' /\ Scans!UnseenIsStale'
      BY <2>2, <2>3, <2>4 DEF Scans!IInv, Scans!HeldDicts, Scans!RunningHasTask, Scans!TaskUnderWay,
           Scans!UnseenIsStale, Scans!State
    <2>7. Scans!ThreadsHaveScans'
      BY <1>00, <2>1, <2>2, <2>3 DEF Scans!IInv, Scans!ThreadsHaveScans, Scans!NoThread
    <2>8. QED
      BY <2>5, <2>6, <2>7 DEF Scans!IInv
  <1>10. ASSUME NEW a \in Scans!Walkers, Scans!Found(a) PROVE Scans!IInv'
    <2> DEFINE d == Scans!Stale(Scans!State)
    <2>1. d \in Dict /\ d.stale /\ d.running = Scans!State.running
      BY ScansDict DEF Dict, Scans!IInv
    <2> HIDE DEF d
    <2>2. /\ v4[a].pc \in {"started", "walking"} /\ Scans!Updated(d) /\ v6' = TRUE
          /\ v4' = [v4 EXCEPT ![a] = [pc |-> "marking", dict |-> v2]]
          /\ UNCHANGED <<v2, v3, v5, v7, v8>>
      BY <1>10 DEF Scans!Found, d
    <2>3. v4' \in Threads /\ v4'[a].pc = "marking" /\ v4'[a].dict = v2 /\ \A b \in Scans!Walkers : b # a => v4'[b] = v4[b]
      BY <1>0, <2>2 DEF Threads, Scans!Places
    <2>4. /\ v1' \in Seq(Dict) /\ DOMAIN v1' = DOMAIN v1 /\ v1'[v2] = d
          /\ \A i \in DOMAIN v1 : i # v2 => v1'[i] = v1[i]
      BY <2>1, <2>2, ScansUpdated DEF Scans!IInv, Dict
    <2>5. Scans!TypeOK'
      BY <1>0, <2>2, <2>3, <2>4 DEF Scans!TypeOK, Dict, Holders, Threads
    <2>6. Scans!HeldDicts'
      BY <1>0, <2>2, <2>3, <2>4 DEF Scans!IInv, Scans!HeldDicts
    <2>7. Scans!ThreadsHaveScans'
      BY <1>00, <2>2, <2>3 DEF Scans!IInv, Scans!ThreadsHaveScans, Scans!NoThread
    <2>8. \A i \in DOMAIN v1 : v1'[i].running => v1[i].running
      BY <2>1, <2>4 DEF Scans!State
    <2>9. Scans!RunningHasTask'
      <3>0. CASE v8
        BY <2>2, <3>0 DEF Scans!RunningHasTask
      <3> SUFFICES ASSUME ~ v8 PROVE Scans!RunningHasTask'
        BY <3>0
      <3>1. Scans!TaskUnderWay' = Scans!TaskUnderWay
        BY <2>2 DEF Scans!TaskUnderWay
      <3>2. Scans!State'.running => Scans!TaskUnderWay
        BY <1>0, <2>2, <2>8 DEF Scans!State, Scans!IInv, Scans!RunningHasTask
      <3>3. v5'.dict # 0 /\ v1'[v5'.dict].running => Scans!TaskUnderWay
        BY <2>2, <2>8 DEF Scans!IInv, Scans!RunningHasTask, Scans!HeldDicts
      <3>4. ASSUME NEW b \in Scans!Walkers, v4'[b].dict # 0, v1'[v4'[b].dict].running PROVE Scans!TaskUnderWay
        <4>1. CASE b = a
          BY <2>2, <2>3, <3>2, <3>4, <4>1 DEF Scans!State
        <4>2. CASE b # a
          BY <2>3, <2>8, <3>4, <4>2 DEF Scans!IInv, Scans!RunningHasTask, Scans!HeldDicts
        <4>3. QED
          BY <4>1, <4>2
      <3>5. QED
        BY <3>1, <3>2, <3>3, <3>4 DEF Scans!RunningHasTask
    <2>10. Scans!UnseenIsStale'
      BY <2>1, <2>2, <2>4 DEF Scans!UnseenIsStale, Scans!State
    <2>11. QED
      BY <2>5, <2>6, <2>7, <2>9, <2>10 DEF Scans!IInv
  <1>11. ASSUME NEW a \in Scans!Walkers, Scans!Marked(a) PROVE Scans!IInv'
    <2>1. /\ v4[a].pc = "marking" /\ v2' = v4[a].dict /\ v7' = (v7 \/ v4[a].dict # v2)
          /\ v4' = [v4 EXCEPT ![a] = [pc |-> "walking", dict |-> 0]] /\ UNCHANGED <<v1, v3, v5, v6, v8>>
      BY <1>11 DEF Scans!Marked, Scans!Put
    <2>2. v4' \in Threads /\ v4'[a].pc = "walking" /\ v4'[a].dict = 0 /\ \A b \in Scans!Walkers : b # a => v4'[b] = v4[b]
      BY <1>0, <2>1 DEF Threads, Scans!Places
    <2>3. v4[a].dict \in DOMAIN v1
      BY <2>1 DEF Scans!IInv, Scans!HeldDicts
    <2>4. v7' \in BOOLEAN
      BY <2>1
    <2>5. Scans!TypeOK'
      BY <1>0, <2>1, <2>2, <2>3, <2>4 DEF Scans!TypeOK, Dict, Holders, Threads
    <2>6. Scans!HeldDicts'
      BY <2>1, <2>2 DEF Scans!IInv, Scans!HeldDicts
    <2>7. Scans!ThreadsHaveScans'
      BY <1>00, <2>1, <2>2 DEF Scans!IInv, Scans!ThreadsHaveScans, Scans!NoThread
    <2>8. Scans!RunningHasTask'
      <3>1. Scans!TaskUnderWay' = Scans!TaskUnderWay
        BY <2>1 DEF Scans!TaskUnderWay
      <3>2. Scans!State' = v1[v4[a].dict] /\ v4[a].dict # 0
        BY <1>0, <2>1, <2>3 DEF Scans!State
      <3>3. QED
        BY <2>1, <2>2, <3>1, <3>2 DEF Scans!IInv, Scans!RunningHasTask
    <2>9. Scans!UnseenIsStale'
      BY <2>1 DEF Scans!IInv, Scans!UnseenIsStale, Scans!State
    <2>10. QED
      BY <2>5, <2>6, <2>7, <2>8, <2>9 DEF Scans!IInv
  <1>12. ASSUME NEW a \in Scans!Walkers, Scans!mark_scan_fresh(a) PROVE Scans!IInv'
    <2> DEFINE fresh == [running |-> FALSE, stale |-> FALSE, error |-> FALSE]
    <2>1. /\ v4[a].pc \in {"started", "walking"} /\ v1' = Append(v1, fresh) /\ v2' = Len(v1) + 1 /\ v6' = FALSE
          /\ v4' = [v4 EXCEPT ![a].pc = "ended"] /\ UNCHANGED <<v3, v5, v7, v8>>
      BY <1>12 DEF Scans!mark_scan_fresh
    <2>2. v4' \in Threads /\ v4'[a].pc = "ended" /\ v4'[a].dict = v4[a].dict /\ \A b \in Scans!Walkers : b # a => v4'[b] = v4[b]
      BY <1>0, <2>1 DEF Threads, Scans!Places
    <2>3. fresh \in Dict /\ ~ fresh.running
      BY DEF Dict
    <2> HIDE DEF fresh
    <2>4. /\ v1' \in Seq(Dict) /\ v2' \in DOMAIN v1' /\ v1'[v2'] = fresh
          /\ \A i \in DOMAIN v1 : i \in DOMAIN v1' /\ v1'[i] = v1[i]
      BY <1>0, <2>1, <2>3
    <2>5. Scans!TypeOK'
      BY <1>0, <2>1, <2>2, <2>4 DEF Scans!TypeOK, Dict, Holders, Threads
    <2>6. v4[a].dict = 0
      BY <2>1 DEF Scans!IInv, Scans!HeldDicts
    <2>7. Scans!HeldDicts'
      BY <2>1, <2>2, <2>4, <2>6 DEF Scans!IInv, Scans!HeldDicts
    <2>8. Scans!ThreadsHaveScans'
      BY <1>00, <2>1, <2>2 DEF Scans!IInv, Scans!ThreadsHaveScans, Scans!NoThread
    <2>9. Scans!RunningHasTask'
      <3>1. Scans!TaskUnderWay' = Scans!TaskUnderWay /\ ~ Scans!State'.running
        BY <2>1, <2>3, <2>4 DEF Scans!TaskUnderWay, Scans!State
      <3>2. QED
        BY <2>1, <2>2, <2>4, <2>6, <3>1 DEF Scans!IInv, Scans!HeldDicts, Scans!RunningHasTask
    <2>10. Scans!UnseenIsStale'
      BY <2>1 DEF Scans!UnseenIsStale
    <2>11. QED
      BY <2>5, <2>7, <2>8, <2>9, <2>10 DEF Scans!IInv
  <1>15. CASE Scans!PoolScan
    <2>1. v4["pool"] = Scans!NoThread /\ v4' = [v4 EXCEPT !["pool"].pc = "started"]
          /\ UNCHANGED <<v1, v2, v3, v5, v6, v7, v8>>
      BY <1>15 DEF Scans!PoolScan
    <2>2. "pool" \in Scans!Walkers /\ "pool" \notin Clients
      BY NamesAssumption DEF Scans!Walkers
    <2>3. v4' \in Threads /\ v4'["pool"].pc = "started" /\ v4'["pool"].dict = 0
          /\ \A b \in Scans!Walkers : b # "pool" => v4'[b] = v4[b]
      BY <1>0, <2>1, <2>2 DEF Threads, Scans!Places, Scans!NoThread
    <2>4. Scans!TypeOK'
      BY <1>0, <2>1, <2>3 DEF Scans!TypeOK, Dict, Holders, Threads
    <2>5. Scans!HeldDicts' /\ Scans!RunningHasTask' /\ Scans!UnseenIsStale'
      BY <2>1, <2>3 DEF Scans!IInv, Scans!HeldDicts, Scans!RunningHasTask, Scans!TaskUnderWay,
           Scans!UnseenIsStale, Scans!State
    <2>6. Scans!ThreadsHaveScans'
      BY <1>00, <2>1, <2>2, <2>3 DEF Scans!IInv, Scans!ThreadsHaveScans
    <2>7. QED
      BY <2>4, <2>5, <2>6 DEF Scans!IInv
  <1>16. CASE Scans!PoolScanEnds
    <2>1. v4' = [v4 EXCEPT !["pool"] = Scans!NoThread] /\ UNCHANGED <<v1, v2, v3, v5, v6, v7, v8>>
      BY <1>16 DEF Scans!PoolScanEnds
    <2>2. "pool" \in Scans!Walkers /\ "pool" \notin Clients
      BY NamesAssumption DEF Scans!Walkers
    <2>3. v4' \in Threads /\ v4'["pool"].pc = "none" /\ v4'["pool"].dict = 0
          /\ \A b \in Scans!Walkers : b # "pool" => v4'[b] = v4[b]
      BY <1>0, <2>1, <2>2 DEF Threads, Scans!Places, Scans!NoThread
    <2>4. Scans!TypeOK'
      BY <1>0, <2>1, <2>3 DEF Scans!TypeOK, Dict, Holders, Threads
    <2>5. Scans!HeldDicts' /\ Scans!RunningHasTask' /\ Scans!UnseenIsStale'
      BY <2>1, <2>3 DEF Scans!IInv, Scans!HeldDicts, Scans!RunningHasTask, Scans!TaskUnderWay,
           Scans!UnseenIsStale, Scans!State
    <2>6. Scans!ThreadsHaveScans'
      BY <1>00, <2>1, <2>2, <2>3 DEF Scans!IInv, Scans!ThreadsHaveScans
    <2>7. QED
      BY <2>4, <2>5, <2>6 DEF Scans!IInv
  <1>13. CASE UNCHANGED Scans!vars
    BY <1>13 DEF Scans!vars, Scans!IInv, Scans!TypeOK, Scans!HeldDicts, Scans!ThreadsHaveScans, Scans!RunningHasTask,
         Scans!TaskUnderWay, Scans!UnseenIsStale, Scans!State
  <1>14. QED
    BY <1>1, <1>2, <1>3, <1>4, <1>5, <1>6, <1>7, <1>8, <1>9, <1>10, <1>11, <1>12, <1>13, <1>15, <1>16
       DEF Scans!Next, Scans!Walkers

\* An invariant state that says running has a task, and one without a problem
\* has no file that was marked since.
LEMMA ScansTrue == Scans!IInv => Scans!RunningWillEnd /\ Scans!OkMeansSeen
  <1> SUFFICES ASSUME Scans!IInv PROVE Scans!RunningWillEnd /\ Scans!OkMeansSeen
    OBVIOUS
  <1>1. Scans!RunningWillEnd
    BY DEF Scans!IInv, Scans!RunningHasTask, Scans!TaskUnderWay, Scans!RunningWillEnd
  <1>2. Scans!Problems(Scans!State) = {} => ~ Scans!State.stale
    BY DEF Scans!Problems
  <1>3. QED
    BY <1>1, <1>2 DEF Scans!IInv, Scans!UnseenIsStale, Scans!OkMeansSeen

-----------------------------------------------------------------------------
(***************************************************************************)
(* Backups of project files (disk v1, linked v2, backups v3, second v4, op *)
(* v5, taken v6, spent v7, texts v8, failures v9)                          *)
(***************************************************************************)
\* At first there is no backup.
LEMMA VersionsInit == Versions!Init => Versions!IInv
  <1> SUFFICES ASSUME Versions!Init PROVE Versions!IInv
    OBVIOUS
  <1>1. Versions!TypeOK
    BY DEF Versions!Init, Versions!TypeOK, Versions!Texts, Versions!NoOp
  <1>2. v6 = << >>
    BY DEF Versions!Init
  <1>3. QED
    BY <1>1, <1>2 DEF Versions!IInv, Versions!BackupsKept

\* A backup that is taken has the text, and takes the place of at most one of
\* the same name and second.
LEMMA VersionsTook ==
  ASSUME Versions!IInv, NEW n \in Names, v3' = Versions!WithBackup(n), v6' = Versions!Took(n), v7' = v7
  PROVE  /\ \A k \in DOMAIN v3' : v3'[k] \in Versions!Texts
         /\ v6' \in Seq([name : Names, at : Nat, text : Versions!Texts])
         /\ Versions!BackupsKept'
  <1> DEFINE key == <<n, v4>>
             b == [name |-> n, at |-> v4, text |-> v1[n]]
  <1>1. v1[n] \in Versions!Texts /\ v4 \in Nat /\ v6 \in Seq([name : Names, at : Nat, text : Versions!Texts])
    BY DEF Versions!IInv, Versions!TypeOK
  <1>2. DOMAIN v3' = DOMAIN v3 \cup {key} /\ v3'[key] = v1[n] /\ \A k \in DOMAIN v3 : k # key => v3'[k] = v3[k]
    BY DEF Versions!WithBackup
  <1>3. v6' \in Seq([name : Names, at : Nat, text : Versions!Texts])
    BY <1>1 DEF Versions!Took
  <1>4. /\ DOMAIN v6' = DOMAIN v6 \cup {Len(v6) + 1} /\ Len(v6) + 1 \notin DOMAIN v6
        /\ v6'[Len(v6) + 1] = b /\ \A i \in DOMAIN v6 : v6'[i] = v6[i]
    BY <1>1 DEF Versions!Took
  <1>5. ASSUME NEW i \in DOMAIN v6'
        PROVE  \/ <<v6'[i].name, v6'[i].at>> \in DOMAIN v3' /\ v3'[<<v6'[i].name, v6'[i].at>>] = v6'[i].text
               \/ \E j \in DOMAIN v6' : j # i /\ v6'[j].name = v6'[i].name /\ v6'[j].at = v6'[i].at
               \/ <<v6'[i].name, v6'[i].at>> \in v7'
    <2>1. CASE i = Len(v6) + 1
      BY <1>2, <1>4, <2>1
    <2>2. CASE i \in DOMAIN v6 /\ <<v6[i].name, v6[i].at>> = key
      BY <1>4, <2>2
    <2>3. CASE i \in DOMAIN v6 /\ <<v6[i].name, v6[i].at>> # key
      BY <1>2, <1>4, <2>3 DEF Versions!IInv, Versions!BackupsKept
    <2>4. QED
      BY <1>4, <2>1, <2>2, <2>3
  <1>6. \A k \in DOMAIN v3' : v3'[k] \in Versions!Texts
    BY <1>1, <1>2 DEF Versions!IInv, Versions!TypeOK
  <1>7. QED
    BY <1>3, <1>5, <1>6 DEF Versions!BackupsKept

\* Every step of a handler, of the disk and of the clock keeps the backups.
LEMMA VersionsStep == Versions!IInv /\ [Versions!Next]_(Versions!vars) => Versions!IInv'
  <1> SUFFICES ASSUME Versions!IInv, [Versions!Next]_(Versions!vars) PROVE Versions!IInv'
    OBVIOUS
  <1>0. /\ v1 \in [Names -> Versions!Texts] /\ v4 \in Nat /\ v5.text \in Versions!Texts
        /\ v5.kind # "none" => v5.name \in Names
        /\ \A t \in 0..MaxTexts : t \in Versions!Texts
        /\ None \in Versions!Texts
    BY DEF Versions!IInv, Versions!TypeOK, Versions!Texts
  <1> USE DEF Versions!files, Versions!past, Versions!counted
  <1>1. ASSUME UNCHANGED <<v3, v6, v7>>, v1' \in [Names -> Versions!Texts], v4' \in Nat,
               v5' = v5 \/ v5' = Versions!NoOp
                 \/ (v5'.kind = "backup" /\ v5'.name \in Names /\ v5'.text \in Versions!Texts)
        PROVE  Versions!IInv'
    <2>1. v5'.kind \in {"none", "backup", "write"} /\ v5'.text \in Versions!Texts /\ (v5'.kind # "none" => v5'.name \in Names)
      BY <1>0, <1>1 DEF Versions!IInv, Versions!TypeOK, Versions!NoOp
    <2>2. Versions!TypeOK'
      BY <1>1, <2>1 DEF Versions!IInv, Versions!TypeOK
    <2>3. QED
      BY <1>1, <2>2 DEF Versions!IInv, Versions!BackupsKept
  <1>2. ASSUME NEW n \in Names, NEW t \in 0..MaxTexts, Versions!StartEdit(n, t) PROVE Versions!IInv'
    <2>1. v5'.kind = "backup" /\ v5'.name = n /\ v5'.text = t /\ UNCHANGED <<v1, v3, v4, v6, v7>>
      BY <1>2 DEF Versions!StartEdit
    <2>2. QED
      BY <1>0, <1>1, <2>1
  <1>3. ASSUME NEW n \in Names, NEW t \in 0..MaxTexts, Versions!Create(n, t) PROVE Versions!IInv'
    <2>1. v1' \in {v1, [v1 EXCEPT ![n] = t]} /\ UNCHANGED <<v3, v4, v5, v6, v7>>
      BY <1>3 DEF Versions!Create
    <2>2. QED
      BY <1>0, <1>1, <2>1
  <1>4. ASSUME NEW n \in Names, NEW k \in Versions!Seen(n), Versions!StartUndo(n, k) PROVE Versions!IInv'
    <2>1. v5'.kind = "backup" /\ v5'.name = n /\ v5'.text = v3[k] /\ UNCHANGED <<v1, v3, v4, v6, v7>>
      BY <1>4 DEF Versions!StartUndo
    <2>2. v3[k] \in Versions!Texts
      BY DEF Versions!Seen, Versions!IInv, Versions!TypeOK
    <2>3. QED
      BY <1>0, <1>1, <2>1, <2>2
  <1>5. ASSUME NEW n \in Names, Versions!unlink(n) \/ Versions!MoveToItself(n) PROVE Versions!IInv'
    BY <1>0, <1>1, <1>5 DEF Versions!unlink, Versions!MoveToItself
  <1>6. ASSUME NEW n \in Names, NEW t \in (1..MaxTexts) \cup {None}, Versions!Outside(n, t) PROVE Versions!IInv'
    <2>1. v1' = [v1 EXCEPT ![n] = t] /\ t \in Versions!Texts /\ UNCHANGED <<v3, v4, v5, v6, v7>>
      BY <1>6 DEF Versions!Outside, Versions!Texts
    <2>2. QED
      BY <1>0, <1>1, <2>1
  <1>7. ASSUME NEW n \in Names, NEW m \in Names, NEW overwrite \in BOOLEAN, NEW renamed \in BOOLEAN,
               Versions!Move(n, m, overwrite, renamed)
        PROVE  Versions!IInv'
    <2>1. v3' = Versions!WithBackup(n) /\ v6' = Versions!Took(n) /\ UNCHANGED <<v4, v5, v7>>
          /\ v1' \in {v1, [v1 EXCEPT ![m] = v1[n], ![n] = None]}
      BY <1>7 DEF Versions!Move
    <2>2. v1' \in [Names -> Versions!Texts]
      BY <1>0, <2>1
    <2>3. Versions!TypeOK'
      BY <2>1, <2>2, VersionsTook DEF Versions!IInv, Versions!TypeOK
    <2>4. QED
      BY <2>1, <2>3, VersionsTook DEF Versions!IInv
  <1>8. CASE Versions!Backup
    <2>1. v5.kind = "backup" /\ v5.name \in Names /\ UNCHANGED <<v1, v4, v7>>
      BY <1>0, <1>8 DEF Versions!Backup
    <2>2. CASE v5.name \in v2 /\ v1[v5.name] # None
      <3>1. v3' = Versions!WithBackup(v5.name) /\ v6' = Versions!Took(v5.name) /\ v5' = [v5 EXCEPT !.kind = "write"]
        BY <1>8, <2>2 DEF Versions!Backup
      <3>2. v5'.kind = "write" /\ v5'.name = v5.name /\ v5'.text = v5.text
        BY <3>1 DEF Versions!IInv, Versions!TypeOK
      <3>3. Versions!TypeOK'
        BY <2>1, <3>1, <3>2, VersionsTook DEF Versions!IInv, Versions!TypeOK
      <3>4. QED
        BY <2>1, <3>1, <3>3, VersionsTook DEF Versions!IInv
    <2>3. CASE ~ (v5.name \in v2 /\ v1[v5.name] # None)
      BY <1>0, <1>1, <1>8, <2>1, <2>3 DEF Versions!Backup
    <2>4. QED
      BY <2>2, <2>3
  <1>9. CASE Versions!Write \/ Versions!WriteFails
    <2>1. PICK gone : v3' = [k \in DOMAIN v3 \ gone |-> v3[k]] /\ v7' = v7 \cup gone
      <3>1. CASE Versions!Write
        BY <3>1 DEF Versions!Write
      <3>2. CASE Versions!WriteFails
        <4>1. Versions!Unlinked(FALSE) = {}
          BY DEF Versions!Unlinked
        <4>2. v3' = [k \in DOMAIN v3 \ {} |-> v3[k]] /\ v7' = v7 \cup {}
          BY <3>2, <4>1 DEF Versions!WriteFails
        <4>3. QED
          BY <4>2
      <3>3. QED
        BY <1>9, <3>1, <3>2
    <2>2. /\ v5.kind = "write" /\ v1' \in {v1, Versions!Written(v5.text)} /\ v5' = Versions!NoOp /\ UNCHANGED <<v4, v6>>
      BY <1>9 DEF Versions!Write, Versions!WriteFails
    <2>3. v1' \in [Names -> Versions!Texts]
      BY <1>0, <2>2 DEF Versions!Written
    <2>4. Versions!TypeOK'
      BY <1>0, <2>1, <2>2, <2>3 DEF Versions!IInv, Versions!TypeOK, Versions!NoOp
    <2>5. Versions!BackupsKept'
      <3>1. ASSUME NEW key, key \in DOMAIN v3 PROVE (key \in DOMAIN v3' /\ v3'[key] = v3[key]) \/ key \in v7'
        BY <2>1, <3>1
      <3>2. \A key \in v7 : key \in v7'
        BY <2>1
      <3>3. QED
        BY <2>2, <3>1, <3>2 DEF Versions!IInv, Versions!BackupsKept
    <2>6. QED
      BY <2>4, <2>5 DEF Versions!IInv
  <1>10. CASE Versions!Restart \/ Versions!NextSecond
    BY <1>0, <1>1, <1>10 DEF Versions!Restart, Versions!NextSecond
  <1>11. CASE UNCHANGED Versions!vars
    BY <1>0, <1>1, <1>11 DEF Versions!vars
  <1>12. QED
    BY <1>2, <1>3, <1>4, <1>5, <1>6, <1>7, <1>8, <1>9, <1>10, <1>11
       DEF Versions!Next, Versions!code_file, Versions!replace_in_file, Versions!move_tag, Versions!move_route

-----------------------------------------------------------------------------
(***************************************************************************)
(* File links                                                              *)
(***************************************************************************)
\* What a step may do to the rows: a deleted row stays deleted, a loss is not
\* forgotten, and a row whose file is missing has lost it.
LinksGoOn ==
    /\ v2' \in Seq(Links!RowType \cup {Links!Gone})
    /\ Len(v2) <= Len(v2')
    /\ \A i \in 1..Len(v2) : v2[i] = Links!Gone => v2'[i] = Links!Gone
    /\ \A i \in 1..Len(v2) : v2'[i] # Links!Gone /\ v2[i].lost => v2'[i].lost
    /\ \A i \in 1..Len(v2') : v2'[i] # Links!Gone /\ v2'[i].name.file \notin v1' => v2'[i].lost

\* A row that did not lose its file has all its ttl or keeps its name and ttl.
LinksFresh ==
    \A i \in 1..Len(v2') :
        \/ v2'[i] = Links!Gone \/ v2'[i].lost \/ v2'[i].ttl = LinkTtl
        \/ i \in 1..Len(v2) /\ v2[i] # Links!Gone /\ v2'[i].name = v2[i].name /\ v2'[i].ttl = v2[i].ttl

\* A row that is not deleted has a name, a ttl and a history.
LEMMA LinksRow ==
  ASSUME Links!TypeOK, NEW i \in 1..Len(v2)
  PROVE  /\ v2[i] \in Links!RowType \cup {Links!Gone}
         /\ v2[i] # Links!Gone => v2[i] \in Links!RowType
  BY DEF Links!TypeOK

\* The names of links are none of the values that stand for no name.
LEMMA LinksNames ==
  /\ Links!NoName \notin Links!LinkNames
  /\ \A n \in Links!LinkNames : n.file \in Clients /\ n.by \in {"tick", "scan"}
  <1>1. ASSUME NEW n \in Links!LinkNames PROVE n.file \in Clients /\ n.by \in {"tick", "scan"}
    <2>1. PICK f \in Clients : n = Links!Rel(f) \/ n = Links!Full(f)
      BY DEF Links!LinkNames
    <2>2. n.file = f /\ n.by \in {"tick", "scan"}
      BY <2>1 DEF Links!Rel, Links!Full
    <2>3. QED
      BY <2>2
  <1>2. Links!NoName.file \notin Clients
    BY NamesAssumption DEF Links!NoName
  <1>3. QED
    BY <1>1, <1>2

\* No row that is there is equal to a deleted one.
LEMMA LinksNotGone == Links!Gone \notin Links!RowType
  <1>1. Links!Gone.name = Links!NoName
    BY DEF Links!Gone
  <1>2. \A row \in Links!RowType : row.name \in Links!LinkNames
    BY DEF Links!RowType
  <1>3. QED
    BY <1>1, <1>2, LinksNames

\* UPDATE ... SET missing_ttl: a ttl that is all of it, or goes to a row that lost
\* its file, is none that a tick need not explain.
LEMMA LinksTtl ==
  ASSUME Links!TypeOK, Links!MissingIsLost, NEW i \in 1..Len(v2), NEW ttl \in 0..LinkTtl,
         v2' = Links!WithTtl(i, ttl), v1' = v1
  PROVE  /\ LinksGoOn /\ Len(v2') = Len(v2)
         /\ (ttl = LinkTtl \/ v2[i] = Links!Gone \/ v2[i].lost) => LinksFresh
  <1>1. v2 \in Seq(Links!RowType \cup {Links!Gone})
    BY DEF Links!TypeOK
  <1>2. CASE v2[i] = Links!Gone
    <2>1. v2' = v2
      BY <1>1, <1>2 DEF Links!WithTtl
    <2>2. QED
      BY <1>1, <2>1, LinksRow DEF LinksGoOn, LinksFresh, Links!MissingIsLost, Links!Live, Links!RowIds
  <1>3. CASE v2[i] # Links!Gone
    <2> DEFINE new == [v2[i] EXCEPT !.ttl = ttl]
    <2>1. v2[i] \in Links!RowType
      BY <1>3, LinksRow
    <2>2. new \in Links!RowType /\ new.name = v2[i].name /\ new.lost = v2[i].lost /\ new.ttl = ttl
      BY <2>1 DEF Links!RowType
    <2>3. v2' = [v2 EXCEPT ![i] = new]
      BY <1>3 DEF Links!WithTtl
    <2> HIDE DEF new
    <2>4. /\ v2' \in Seq(Links!RowType \cup {Links!Gone}) /\ Len(v2') = Len(v2)
          /\ v2'[i] = new
          /\ \A j \in 1..Len(v2) : j # i => v2'[j] = v2[j]
      BY <1>1, <2>2, <2>3
    <2>5. LinksGoOn
      <3>1. ASSUME NEW j \in 1..Len(v2), v2'[j] # Links!Gone, v2'[j].name.file \notin v1' PROVE v2'[j].lost
        BY <1>3, <2>2, <2>4, <3>1 DEF Links!MissingIsLost, Links!Live, Links!RowIds
      <3>2. \A j \in 1..Len(v2) : v2'[j] # Links!Gone /\ v2[j].lost => v2'[j].lost
        BY <2>2, <2>4
      <3>3. \A j \in 1..Len(v2) : v2[j] = Links!Gone => v2'[j] = Links!Gone
        BY <1>3, <2>4
      <3>4. QED
        BY <2>4, <3>1, <3>2, <3>3 DEF LinksGoOn
    <2>6. ASSUME ttl = LinkTtl \/ v2[i] = Links!Gone \/ v2[i].lost PROVE LinksFresh
      <3>1. ASSUME NEW j \in 1..Len(v2), j # i, v2'[j] # Links!Gone
            PROVE  v2[j] # Links!Gone /\ v2'[j].name = v2[j].name /\ v2'[j].ttl = v2[j].ttl
        BY <2>4, <3>1
      <3>2. v2'[i].lost \/ v2'[i].ttl = LinkTtl
        BY <1>3, <2>2, <2>4, <2>6
      <3>3. QED
        BY <2>4, <3>1, <3>2 DEF LinksFresh
    <2>7. QED
      BY <2>4, <2>5, <2>6
  <1>4. QED
    BY <1>2, <1>3

\* DELETE of a row.
LEMMA LinksDeleted ==
  ASSUME Links!TypeOK, Links!MissingIsLost, NEW i \in 1..Len(v2),
         v2' = [v2 EXCEPT ![i] = Links!Gone], v1' = v1
  PROVE  LinksGoOn /\ Len(v2') = Len(v2) /\ LinksFresh
  <1>1. v2 \in Seq(Links!RowType \cup {Links!Gone})
    BY DEF Links!TypeOK
  <1>2. /\ v2' \in Seq(Links!RowType \cup {Links!Gone}) /\ Len(v2') = Len(v2)
        /\ v2'[i] = Links!Gone
        /\ \A j \in 1..Len(v2) : j # i => v2'[j] = v2[j]
    BY <1>1
  <1>3. LinksGoOn
    BY <1>1, <1>2 DEF LinksGoOn, Links!MissingIsLost, Links!Live, Links!RowIds
  <1>4. LinksFresh
    BY <1>1, <1>2 DEF LinksFresh
  <1>5. QED
    BY <1>2, <1>3, <1>4

\* Rows whose file goes lose it; nothing else of a row changes.
LEMMA LinksDisk ==
  ASSUME Links!TypeOK, Links!MissingIsLost, NEW d \in SUBSET Clients, Links!SetDisk(d)
  PROVE  LinksGoOn /\ Len(v2') = Len(v2) /\ LinksFresh /\ v1' \subseteq Clients
  <1>1. v2 \in Seq(Links!RowType \cup {Links!Gone})
    BY DEF Links!TypeOK
  <1>2. v2' = [i \in 1..Len(v2) |-> IF v2[i] # Links!Gone /\ v2[i].name.file \notin d
                                   THEN [v2[i] EXCEPT !.lost = TRUE] ELSE v2[i]]
    BY DEF Links!SetDisk, Links!RowIds, Links!Live
  <1>3. ASSUME NEW i \in 1..Len(v2)
        PROVE  /\ v2'[i] \in Links!RowType \cup {Links!Gone}
               /\ v2[i] = Links!Gone => v2'[i] = Links!Gone
               /\ v2[i] # Links!Gone =>
                     /\ v2'[i] # Links!Gone
                     /\ v2'[i].name = v2[i].name /\ v2'[i].ttl = v2[i].ttl
                     /\ v2[i].lost => v2'[i].lost
                     /\ v2[i].name.file \notin d => v2'[i].lost
    <2>1. CASE v2[i] = Links!Gone
      BY <1>2, <2>1
    <2>2. CASE v2[i] # Links!Gone /\ v2[i].name.file \notin d
      <3>1. v2[i] \in Links!RowType
        BY <2>2, LinksRow
      <3> DEFINE new == [v2[i] EXCEPT !.lost = TRUE]
      <3>2. new \in Links!RowType /\ new.name = v2[i].name /\ new.ttl = v2[i].ttl /\ new.lost = TRUE
        BY <3>1 DEF Links!RowType
      <3>3. v2'[i] = new
        BY <1>2, <2>2
      <3> HIDE DEF new
      <3>4. QED
        BY <2>2, <3>2, <3>3, LinksNotGone
    <2>3. CASE v2[i] # Links!Gone /\ v2[i].name.file \in d
      <3>1. v2'[i] = v2[i]
        BY <1>2, <2>3
      <3>2. QED
        BY <2>3, <3>1, LinksRow
    <2>4. QED
      BY <2>1, <2>2, <2>3
  <1>4. v2' \in Seq(Links!RowType \cup {Links!Gone}) /\ Len(v2') = Len(v2)
    BY <1>1, <1>2, <1>3
  <1>5. v1' = d
    BY DEF Links!SetDisk
  <1>6. LinksGoOn
    <2>1. \A i \in 1..Len(v2) : v2[i] = Links!Gone => v2'[i] = Links!Gone
      BY <1>3
    <2>2. \A i \in 1..Len(v2) : v2'[i] # Links!Gone /\ v2[i].lost => v2'[i].lost
      BY <1>3
    <2>3. \A i \in 1..Len(v2) : v2'[i] # Links!Gone /\ v2'[i].name.file \notin d => v2'[i].lost
      BY <1>3
    <2>4. QED
      BY <1>4, <1>5, <2>1, <2>2, <2>3 DEF LinksGoOn
  <1>7. LinksFresh
    BY <1>3, <1>4 DEF LinksFresh
  <1>8. QED
    BY <1>4, <1>5, <1>6, <1>7

\* add_file: the row that was found is healed, or a new one is appended; the party
\* is in no add_file then.
LEMMA LinksAdded ==
  ASSUME Links!TypeOK, Links!MissingIsLost, NEW p \in {"tick"} \cup Walks \cup {"api"},
         Links!FinishAdd(p), v1' = v1
  PROVE  /\ LinksGoOn /\ LinksFresh
         /\ v5[p].name \in Links!LinkNames
         /\ v5' = [v5 EXCEPT ![p] = Links!NoAdd]
  <1> DEFINE n == v5[p].name
             i == v5[p].found
  <1>1. /\ n \in Links!LinkNames /\ i \in 1..Len(v2) \cup {0}
    BY DEF Links!TypeOK, Links!FinishAdd, Links!InAdd, Links!RowIds, Links!NoRow
  <1>2. v5' = [v5 EXCEPT ![p] = Links!NoAdd]
    BY DEF Links!FinishAdd
  <1>3. CASE i # 0
    <2>1. v2' = Links!WithTtl(i, LinkTtl)
      BY <1>3 DEF Links!FinishAdd, Links!NoRow
    <2>2. LinkTtl \in 0..LinkTtl
      BY LinksAssumption
    <2>3. i \in 1..Len(v2)
      BY <1>1, <1>3
    <2>4. LinksGoOn /\ LinksFresh
      BY <2>1, <2>2, <2>3, LinksTtl
    <2>5. QED
      BY <1>1, <1>2, <2>4
  <1>4. CASE i = 0
    <2> DEFINE new == [name |-> n, ttl |-> LinkTtl, lost |-> n.file \notin v1]
    <2>1. v2' = Append(v2, new)
      BY <1>4 DEF Links!FinishAdd, Links!NoRow
    <2>2. new \in Links!RowType
      BY <1>1, LinksAssumption DEF Links!RowType
    <2>3. new.name = n /\ new.ttl = LinkTtl /\ (n.file \notin v1 => new.lost)
      OBVIOUS
    <2> HIDE DEF new, n
    <2>4. v2 \in Seq(Links!RowType \cup {Links!Gone})
      BY DEF Links!TypeOK
    <2>5. /\ v2' \in Seq(Links!RowType \cup {Links!Gone})
          /\ Len(v2') = Len(v2) + 1
          /\ v2'[Len(v2) + 1] = new
          /\ \A j \in 1..Len(v2) : v2'[j] = v2[j]
      BY <2>1, <2>2, <2>4
    <2>6. LinksGoOn
      BY <2>3, <2>4, <2>5 DEF LinksGoOn, Links!MissingIsLost, Links!Live, Links!RowIds
    <2>7. LinksFresh
      BY <2>3, <2>4, <2>5 DEF LinksFresh
    <2>8. QED
      BY <1>1, <1>2, <2>6, <2>7 DEF n
  <1>5. QED
    BY <1>3, <1>4

\* The name a party looks for, and the row it found.
LEMMA LinksBegins ==
  ASSUME Links!TypeOK, NEW p \in {"tick"} \cup Walks \cup {"api"}, NEW n \in Links!LinkNames,
         Links!BeginAdd(p, n)
  PROVE  /\ v5' \in [{"tick"} \cup Walks \cup {"api"} -> [name : Links!LinkNames \cup {Links!NoName}, found : Nat]]
         /\ \A q \in {"tick"} \cup Walks \cup {"api"} : v5'[q] # Links!NoAdd =>
               v5'[q].name \in Links!LinkNames /\ v5'[q].found \in 1..Len(v2) \cup {0}
  <1>1. PICK i \in Links!Named(n) \cup {0} : v5' = [v5 EXCEPT ![p] = [name |-> n, found |-> i]]
    BY DEF Links!BeginAdd, Links!NoRow
  <1>2. i \in 1..Len(v2) \cup {0} /\ i \in Nat
    BY DEF Links!Named, Links!Live, Links!RowIds, Links!TypeOK
  <1>3. QED
    BY <1>1, <1>2 DEF Links!TypeOK, Links!InAdd, Links!RowIds, Links!NoRow

\* The parts of the types that do not speak of the rows themselves.
LinksOthers(adding, view, api, len) ==
    /\ adding \in [{"tick"} \cup Walks \cup {"api"} -> [name : Links!LinkNames \cup {Links!NoName}, found : Nat]]
    /\ \A q \in {"tick"} \cup Walks \cup {"api"} : adding[q] # Links!NoAdd =>
          adding[q].name \in Links!LinkNames /\ adding[q].found \in 1..len \cup {0}
    /\ view \in [id : 1..len, ttl : 0..LinkTtl] \cup {Links!NoView}
    /\ api.op \in {"none", "upload", "update", "move", "moved"}
    /\ api.op \in {"update", "move", "moved"} => api.id \in 1..len /\ api.name \in Links!LinkNames

\* They are what the type invariant says of them.
LEMMA LinksTyped ==
  Links!TypeOK <=>
    /\ v1 \subseteq Clients
    /\ v2 \in Seq(Links!RowType \cup {Links!Gone})
    /\ v3 \in [{"tick"} -> Links!TickType]
    /\ \A l \in v3["tick"].links : l.id \in 1..Len(v2)
    /\ v4 \in [Walks -> SUBSET Clients]
    /\ LinksOthers(v5, v6, v7, Len(v2))
  BY DEF Links!TypeOK, LinksOthers, Links!RowIds, Links!NoRow, Links!InAdd

\* They stay so when rows are added.
LEMMA LinksLonger ==
  ASSUME NEW adding, NEW view, NEW api, NEW m \in Nat, NEW n \in Nat, m <= n,
         LinksOthers(adding, view, api, m)
  PROVE  LinksOthers(adding, view, api, n)
  <1>1. 1..m \subseteq 1..n
    OBVIOUS
  <1>2. QED
    BY <1>1 DEF LinksOthers

\* A party that is in no add_file any more.
LEMMA LinksLeaves ==
  ASSUME NEW adding, NEW view, NEW api, NEW n \in Nat, NEW p \in {"tick"} \cup Walks \cup {"api"},
         LinksOthers(adding, view, api, n)
  PROVE  LinksOthers([adding EXCEPT ![p] = Links!NoAdd], view, api, n)
  <1>1. Links!NoAdd \in [name : Links!LinkNames \cup {Links!NoName}, found : Nat]
    BY DEF Links!NoAdd, Links!NoRow
  <1>2. QED
    BY <1>1 DEF LinksOthers

\* What holds after any step that goes on with the rows.
LEMMA LinksRest ==
  ASSUME Links!IInv, LinksGoOn, v1' \subseteq Clients, v3' \in [{"tick"} -> Links!TickType],
         \A l \in v3'["tick"].links : l.id \in 1..Len(v2),
         v4' \in [Walks -> SUBSET Clients], LinksOthers(v5', v6', v7', Len(v2')),
         v6' = v6 \/ v6' = Links!NoView
  PROVE  Links!TypeOK' /\ Links!MissingIsLost' /\ Links!ProbedIsLost'
  <1> USE DEF LinksGoOn
  <1>1. Links!TypeOK
    BY DEF Links!IInv
  <1>2. Links!TypeOK'
    <2>1. v2 \in Seq(Links!RowType \cup {Links!Gone})
      BY <1>1, LinksTyped
    <2>2. Len(v2) \in Nat /\ Len(v2') \in Nat
      BY <2>1
    <2>3. \A l \in v3'["tick"].links : l.id \in 1..Len(v2')
      BY <2>1, <2>2
    <2>4. QED
      BY <2>1, <2>3, LinksTyped DEF LinksOthers, Links!TypeOK, Links!RowIds, Links!NoRow, Links!InAdd
  <1>3. Links!MissingIsLost'
    BY DEF Links!MissingIsLost, Links!Live, Links!RowIds
  <1>4. Links!ProbedIsLost'
    <2>1. CASE v6' = Links!NoView
      BY <2>1 DEF Links!ProbedIsLost, Links!NoView
    <2>2. CASE v6' = v6 /\ v6.id # 0
      <3>1. v6.id \in 1..Len(v2)
        BY <1>1, <2>2 DEF Links!TypeOK, Links!RowIds, Links!NoRow, Links!NoView
      <3>2. v2[v6.id] = Links!Gone \/ v2[v6.id].lost
        BY <2>2 DEF Links!IInv, Links!ProbedIsLost, Links!NoRow
      <3>3. QED
        BY <2>2, <3>1, <3>2 DEF Links!ProbedIsLost
    <2>3. CASE v6' = v6 /\ v6.id = 0
      BY <2>3 DEF Links!ProbedIsLost, Links!NoRow
    <2>4. QED
      BY <2>1, <2>2, <2>3
  <1>5. QED
    BY <1>2, <1>3, <1>4

\* A step of anybody but the tick: what the tick has found or read stays explained.
LEMMA LinksKept ==
  ASSUME Links!IInv, LinksGoOn, LinksFresh, v1' \subseteq Clients, v3' = v3,
         v4' \in [Walks -> SUBSET Clients], LinksOthers(v5', v6', v7', Len(v2')),
         v6' = v6 \/ v6' = Links!NoView
  PROVE  Links!IInv'
  <1> USE DEF LinksGoOn
  <1>1. Links!TypeOK
    BY DEF Links!IInv
  <1>2. /\ v3' \in [{"tick"} -> Links!TickType]
        /\ \A l \in v3'["tick"].links : l.id \in 1..Len(v2)
    BY <1>1, LinksTyped
  <1>3. Links!TypeOK' /\ Links!MissingIsLost' /\ Links!ProbedIsLost'
    BY <1>2, LinksRest
  <1>6. Links!NotFound'
    <2> SUFFICES ASSUME v3["tick"].pc = "links", NEW i \in 1..Len(v2'), v2'[i] # Links!Gone,
                        v2'[i].name.by = "tick", v2'[i].name.file \notin v3["tick"].fs
                 PROVE  v2'[i].lost \/ v2'[i].ttl = LinkTtl
      BY DEF Links!NotFound, Links!Live, Links!RowIds
    <2>1. CASE i \in 1..Len(v2) /\ v2[i] # Links!Gone /\ v2'[i].name = v2[i].name /\ v2'[i].ttl = v2[i].ttl
      <3>1. v2[i].lost \/ v2[i].ttl = LinkTtl
        BY <2>1 DEF Links!IInv, Links!NotFound, Links!Live, Links!RowIds
      <3>2. QED
        BY <2>1, <3>1
    <2>2. QED
      BY <2>1 DEF LinksFresh
  <1>7. Links!NotFoundInWork'
    <2> SUFFICES ASSUME v3["tick"].pc = "work", NEW l \in v3["tick"].links,
                        l.name.by = "tick", l.name.file \notin v3["tick"].fs
                 PROVE  v2'[l.id] = Links!Gone \/ v2'[l.id].lost \/ l.ttl = LinkTtl
      BY DEF Links!NotFoundInWork
    <2>1. v2[l.id] = Links!Gone \/ v2[l.id].lost \/ l.ttl = LinkTtl
      BY DEF Links!IInv, Links!NotFoundInWork
    <2>2. l.id \in 1..Len(v2)
      BY <1>1 DEF Links!TypeOK, Links!RowIds
    <2>3. QED
      BY <2>1, <2>2
  <1>8. QED
    BY <1>3, <1>6, <1>7 DEF Links!IInv

\* A tick that has worked off a name knows of the others what it knew.
LEMMA LinksWorks ==
  ASSUME Links!IInv, LinksGoOn, v1' = v1, v4' = v4, v6' = v6,
         LinksOthers(v5', v6', v7', Len(v2')),
         v3["tick"].pc = "work", NEW n, Links!Done("tick", n)
  PROVE  Links!IInv'
  <1> DEFINE t == v3["tick"]
             new == [t EXCEPT !.todo = t.todo \ {n}]
  <1>1. Links!TypeOK
    BY DEF Links!IInv
  <1>2. t \in Links!TickType /\ (\A l \in t.links : l.id \in 1..Len(v2))
    BY <1>1, LinksTyped
  <1>3. new \in Links!TickType /\ new.pc = "work" /\ new.links = t.links /\ new.fs = t.fs
    BY <1>2 DEF Links!TickType
  <1>4. v3' = [v3 EXCEPT !["tick"] = new]
    BY DEF Links!Done
  <1> HIDE DEF new
  <1>5. v3' \in [{"tick"} -> Links!TickType] /\ v3'["tick"] = new
    BY <1>1, <1>3, <1>4 DEF Links!TypeOK
  <1>6. Links!TypeOK' /\ Links!MissingIsLost' /\ Links!ProbedIsLost'
    <2>1. v1' \subseteq Clients /\ v4' \in [Walks -> SUBSET Clients]
      BY <1>1 DEF Links!TypeOK
    <2>2. \A l \in v3'["tick"].links : l.id \in 1..Len(v2)
      BY <1>2, <1>3, <1>5
    <2>3. QED
      BY <1>5, <2>1, <2>2, LinksRest
  <1>7. Links!NotFound'
    BY <1>3, <1>5 DEF Links!NotFound
  <1>8. Links!NotFoundInWork'
    <2> SUFFICES ASSUME NEW l \in t.links, l.name.by = "tick", l.name.file \notin t.fs
                 PROVE  v2'[l.id] = Links!Gone \/ v2'[l.id].lost \/ l.ttl = LinkTtl
      BY <1>3, <1>5 DEF Links!NotFoundInWork
    <2>1. v2[l.id] = Links!Gone \/ v2[l.id].lost \/ l.ttl = LinkTtl
      BY DEF Links!IInv, Links!NotFoundInWork
    <2>2. QED
      BY <1>2, <2>1 DEF LinksGoOn
  <1>9. QED
    BY <1>6, <1>7, <1>8 DEF Links!IInv

\* At first there is no row and nothing is under way.
LEMMA LinksInit == Links!Init => Links!IInv
  <1> SUFFICES ASSUME Links!Init PROVE Links!IInv
    OBVIOUS
  <1> USE DEF Links!Init, Links!NoTick, Links!NoAdd, Links!NoView, Links!NoRequest, Links!NoRow
  <1>1. v3 \in [{"tick"} -> Links!TickType] /\ v3["tick"].links = {} /\ v3["tick"].pc = "idle"
    BY DEF Links!TickType
  <1>2. LinksOthers(v5, v6, v7, Len(v2))
    <2>1. Len(v2) = 0 /\ 0 \in 0..LinkTtl
      BY LinksAssumption
    <2>2. v6 = Links!NoView
      OBVIOUS
    <2>3. v5 \in [{"tick"} \cup Walks \cup {"api"} -> [name : Links!LinkNames \cup {Links!NoName}, found : Nat]]
      OBVIOUS
    <2>4. QED
      BY <2>1, <2>2, <2>3 DEF LinksOthers
  <1>3. Links!TypeOK
    BY <1>1, <1>2, LinksTyped
  <1>4. QED
    BY <1>1, <1>3 DEF Links!IInv, Links!MissingIsLost, Links!ProbedIsLost, Links!NotFound,
                      Links!NotFoundInWork, Links!Live, Links!RowIds

\* A step that leaves the rows and the disk as they are.
LEMMA LinksSame ==
  ASSUME Links!TypeOK, Links!MissingIsLost, v1' = v1, v2' = v2
  PROVE  LinksGoOn /\ LinksFresh /\ Len(v2') = Len(v2) /\ v1' \subseteq Clients
  <1>1. LinksGoOn
    BY DEF LinksGoOn, Links!TypeOK, Links!MissingIsLost, Links!Live, Links!RowIds
  <1>2. LinksFresh
    BY DEF LinksFresh
  <1>3. QED
    BY <1>1, <1>2 DEF Links!TypeOK

\* What the tick deletes it spells itself, and its find did not have it: it is
\* gone already, has lost its file, or has all its ttl.
LEMMA LinksPurge ==
  ASSUME LinkTtl > 1, Links!IInv
  PROVE  Links!PurgeStep
  <1> SUFFICES ASSUME NEW l \in v3["tick"].links, Links!Degrade("tick", l), l.name.by = "tick",
                      v2[l.id] # Links!Gone, v2'[l.id] = Links!Gone
               PROVE  v2[l.id].lost
    BY DEF Links!PurgeStep
  <1>1. l.name.file \notin v3["tick"].fs
    <2>1. l.name \in Links!LinkNames
      BY DEF Links!IInv, Links!TypeOK, Links!TickType, Links!LinkType
    <2>2. l.name # Links!Rel(l.name.file) \/ l.name.file \notin v3["tick"].fs
      BY DEF Links!Degrade, Links!db_only
    <2>3. PICK f \in Clients : l.name = Links!Rel(f) \/ l.name = Links!Full(f)
      BY <2>1 DEF Links!LinkNames
    <2>4. l.name = Links!Rel(f) /\ l.name.file = f
      BY <2>3 DEF Links!Rel, Links!Full
    <2>5. QED
      BY <2>2, <2>4
  <1>2. v2[l.id].lost \/ l.ttl = LinkTtl
    BY <1>1 DEF Links!IInv, Links!NotFoundInWork, Links!Degrade
  <1>3. CASE l.ttl = LinkTtl
    <2>1. Links!Lowered(l.ttl) # 0
      BY <1>3, LinksAssumption DEF Links!Lowered
    <2>2. v2' = Links!WithTtl(l.id, Links!Lowered(l.ttl))
      BY <2>1 DEF Links!Degrade
    <2>3. v2'[l.id] = [v2[l.id] EXCEPT !.ttl = Links!Lowered(l.ttl)]
      BY <2>2 DEF Links!WithTtl, Links!IInv, Links!TypeOK, Links!RowIds
    <2>4. v2[l.id] \in Links!RowType
      BY LinksRow DEF Links!IInv, Links!TypeOK, Links!RowIds
    <2>5. v2'[l.id].name = v2[l.id].name /\ v2[l.id].name \in Links!LinkNames
      BY <2>3, <2>4 DEF Links!RowType
    <2>6. Links!Gone.name = Links!NoName
      BY DEF Links!Gone
    <2>7. QED
      BY <2>5, <2>6, LinksNames
  <1>4. QED
    BY <1>2, <1>3

\* The steps of the tick.
LEMMA LinksTicks ==
  ASSUME Links!IInv, Links!Tick("tick") \/ Links!TickCrash("tick")
  PROVE  Links!IInv'
  <1>1. Links!TypeOK /\ Links!MissingIsLost
    BY DEF Links!IInv
  <1>2. /\ v3["tick"] \in Links!TickType
        /\ LinksOthers(v5, v6, v7, Len(v2))
        /\ v1 \subseteq Clients /\ v4 \in [Walks -> SUBSET Clients]
        /\ v3 \in [{"tick"} -> Links!TickType]
        /\ \A l \in v3["tick"].links : l.id \in 1..Len(v2)
        /\ v2 \in Seq(Links!RowType \cup {Links!Gone})
    BY <1>1, LinksTyped
  <1>3. Links!NoTick \in Links!TickType /\ Links!NoTick.links = {} /\ Links!NoTick.pc = "idle"
    BY DEF Links!NoTick, Links!TickType
  <1>4. CASE Links!TickFind("tick")
    <2> DEFINE new == [Links!NoTick EXCEPT !.pc = "links", !.fs = v1]
    <2>1. new \in Links!TickType /\ new.links = {} /\ new.pc = "links" /\ new.fs = v1
      BY <1>2 DEF Links!TickType, Links!NoTick
    <2>2. v3' = [v3 EXCEPT !["tick"] = new] /\ UNCHANGED <<v1, v2, v4, v5, v6, v7>>
      BY <1>4 DEF Links!TickFind
    <2> HIDE DEF new
    <2>3. v3' \in [{"tick"} -> Links!TickType] /\ v3'["tick"] = new
      BY <1>2, <2>1, <2>2
    <2>4. LinksGoOn
      BY <1>1, <2>2, LinksSame
    <2>5. Links!TypeOK' /\ Links!MissingIsLost' /\ Links!ProbedIsLost'
      BY <1>2, <2>1, <2>2, <2>3, <2>4, LinksRest
    <2>6. Links!NotFound'
      BY <1>1, <2>1, <2>2, <2>3 DEF Links!NotFound, Links!MissingIsLost, Links!Live, Links!RowIds
    <2>7. Links!NotFoundInWork'
      BY <2>1, <2>3 DEF Links!NotFoundInWork
    <2>8. QED
      BY <2>5, <2>6, <2>7 DEF Links!IInv
  <1>5. CASE Links!TickLinks("tick")
    <2>1. PICK ids \in SUBSET Links!Live : v3' = [v3 EXCEPT !["tick"] =
                [pc |-> "work", fs |-> v3["tick"].fs,
                 links |-> {[name |-> v2[i].name, id |-> i, ttl |-> v2[i].ttl] : i \in ids},
                 todo |-> {v2[i].name : i \in ids} \cup {Links!Rel(f) : f \in v3["tick"].fs}]]
      BY <1>5 DEF Links!TickLinks
    <2> DEFINE links == {[name |-> v2[i].name, id |-> i, ttl |-> v2[i].ttl] : i \in ids}
               todo == {v2[i].name : i \in ids} \cup {Links!Rel(f) : f \in v3["tick"].fs}
               new == [pc |-> "work", fs |-> v3["tick"].fs, links |-> links, todo |-> todo]
    <2>2. UNCHANGED <<v1, v2, v4, v5, v6, v7>> /\ v3["tick"].pc = "links"
      BY <1>5 DEF Links!TickLinks
    <2>3. ASSUME NEW i \in ids
          PROVE  /\ i \in 1..Len(v2) /\ i \in Nat \ {0}
                 /\ v2[i] \in Links!RowType /\ v2[i] # Links!Gone
                 /\ v2[i].name \in Links!LinkNames /\ v2[i].ttl \in 0..LinkTtl
      <3>1. i \in 1..Len(v2) /\ v2[i] # Links!Gone
        BY DEF Links!Live, Links!RowIds
      <3>2. v2[i] \in Links!RowType
        BY <1>1, <3>1, LinksRow
      <3>3. Len(v2) \in Nat
        BY <1>2
      <3>4. QED
        BY <3>1, <3>2, <3>3 DEF Links!RowType
    <2>4. ASSUME NEW l \in links
          PROVE  /\ l \in Links!LinkType /\ l.id \in 1..Len(v2) /\ v2[l.id] # Links!Gone
                 /\ l.name = v2[l.id].name /\ l.ttl = v2[l.id].ttl
      <3>1. PICK i \in ids : l = [name |-> v2[i].name, id |-> i, ttl |-> v2[i].ttl]
        OBVIOUS
      <3>2. QED
        BY <2>3, <3>1 DEF Links!LinkType
    <2>5. todo \in SUBSET Links!LinkNames
      <3>1. \A f \in v3["tick"].fs : Links!Rel(f) \in Links!LinkNames
        BY <1>2 DEF Links!TickType, Links!LinkNames
      <3>2. QED
        BY <2>3, <3>1
    <2>6. new \in Links!TickType /\ new.links = links /\ new.pc = "work" /\ new.fs = v3["tick"].fs
      <3>1. links \in SUBSET Links!LinkType
        BY <2>4
      <3>2. v3["tick"].fs \in SUBSET Clients
        BY <1>2 DEF Links!TickType
      <3> HIDE DEF links, todo
      <3>3. QED
        BY <2>5, <3>1, <3>2 DEF Links!TickType
    <2>7. v3' = [v3 EXCEPT !["tick"] = new]
      BY <2>1
    <2> HIDE DEF new, links, todo
    <2>8. v3' \in [{"tick"} -> Links!TickType] /\ v3'["tick"] = new
      BY <1>2, <2>6, <2>7
    <2>9. LinksGoOn
      BY <1>1, <2>2, LinksSame
    <2>10. \A l \in v3'["tick"].links : l.id \in 1..Len(v2)
      BY <2>4, <2>6, <2>8
    <2>11. Links!TypeOK' /\ Links!MissingIsLost' /\ Links!ProbedIsLost'
      BY <1>2, <2>2, <2>8, <2>9, <2>10, LinksRest
    <2>12. Links!NotFound'
      BY <2>6, <2>8 DEF Links!NotFound
    <2>13. Links!NotFoundInWork'
      <3> SUFFICES ASSUME NEW l \in links, l.name.by = "tick", l.name.file \notin v3["tick"].fs
                   PROVE  v2'[l.id] = Links!Gone \/ v2'[l.id].lost \/ l.ttl = LinkTtl
        BY <2>6, <2>8 DEF Links!NotFoundInWork
      <3>1. v2[l.id].lost \/ v2[l.id].ttl = LinkTtl
        BY <2>2, <2>4 DEF Links!IInv, Links!NotFound, Links!Live, Links!RowIds
      <3>2. QED
        BY <2>2, <2>4, <3>1
    <2>14. QED
      BY <2>11, <2>12, <2>13 DEF Links!IInv
  <1>6. ASSUME NEW l \in v3["tick"].links, Links!Degrade("tick", l) PROVE Links!IInv'
    <2>1. l.id \in 1..Len(v2) /\ l.ttl \in 0..LinkTtl
      BY <1>2 DEF Links!TickType, Links!LinkType
    <2>2. Links!Lowered(l.ttl) \in 0..LinkTtl
      BY <2>1, LinksAssumption DEF Links!Lowered
    <2>3. /\ v3["tick"].pc = "work" /\ Links!Done("tick", l.name)
          /\ v1' = v1 /\ v4' = v4 /\ v5' = v5 /\ v6' = v6 /\ v7' = v7
      BY <1>6 DEF Links!Degrade
    <2>4. \/ v2' = [v2 EXCEPT ![l.id] = Links!Gone]
          \/ v2' = Links!WithTtl(l.id, Links!Lowered(l.ttl))
      BY <1>6 DEF Links!Degrade
    <2>5. LinksGoOn /\ Len(v2') = Len(v2)
      BY <1>1, <2>1, <2>2, <2>3, <2>4, LinksTtl, LinksDeleted
    <2>6. LinksOthers(v5', v6', v7', Len(v2'))
      BY <1>2, <2>3, <2>5
    <2>7. QED
      BY <2>3, <2>5, <2>6, LinksWorks
  <1>7. ASSUME NEW l \in v3["tick"].links, Links!Recover("tick", l) PROVE Links!IInv'
    <2>1. l.id \in 1..Len(v2) /\ LinkTtl \in 0..LinkTtl
      BY <1>2, LinksAssumption
    <2>2. /\ v3["tick"].pc = "work" /\ Links!Done("tick", l.name)
          /\ v1' = v1 /\ v4' = v4 /\ v5' = v5 /\ v6' = v6 /\ v7' = v7
      BY <1>7 DEF Links!Recover
    <2>3. v2' = v2 \/ v2' = Links!WithTtl(l.id, LinkTtl)
      BY <1>7 DEF Links!Recover
    <2>4. LinksGoOn /\ Len(v2') = Len(v2)
      BY <1>1, <2>1, <2>2, <2>3, LinksTtl, LinksSame
    <2>5. LinksOthers(v5', v6', v7', Len(v2'))
      BY <1>2, <2>2, <2>4
    <2>6. QED
      BY <2>2, <2>4, <2>5, LinksWorks
  <1>8. ASSUME NEW n \in v3["tick"].todo, Links!TickAdd("tick", n) PROVE Links!IInv'
    <2>1. n \in Links!LinkNames
      BY <1>2 DEF Links!TickType
    <2>2. Links!BeginAdd("tick", n) /\ UNCHANGED <<v1, v2, v3, v4, v6, v7>>
      BY <1>8 DEF Links!TickAdd, Links!parties
    <2>3. LinksOthers(v5', v6', v7', Len(v2'))
      BY <1>1, <1>2, <2>1, <2>2, LinksBegins DEF LinksOthers
    <2>4. LinksGoOn /\ LinksFresh /\ v1' \subseteq Clients
      BY <1>1, <2>2, LinksSame
    <2>5. QED
      BY <1>2, <2>2, <2>3, <2>4, LinksKept
  <1>9. CASE Links!TickAdded("tick")
    <2>1. /\ v3["tick"].pc = "work" /\ Links!Done("tick", v5["tick"].name)
          /\ v1' = v1 /\ v4' = v4 /\ v6' = v6 /\ v7' = v7 /\ Links!FinishAdd("tick")
      BY <1>9 DEF Links!TickAdded
    <2>2. LinksGoOn /\ v5' = [v5 EXCEPT !["tick"] = Links!NoAdd]
      BY <1>1, <2>1, LinksAdded
    <2>3. Len(v2) \in Nat /\ Len(v2') \in Nat /\ Len(v2) <= Len(v2')
      BY <1>2, <2>2 DEF LinksGoOn
    <2>4. LinksOthers(v5', v6, v7, Len(v2))
      BY <1>2, <2>2, <2>3, LinksLeaves
    <2>5. LinksOthers(v5', v6', v7', Len(v2'))
      BY <2>1, <2>3, <2>4, LinksLonger
    <2>6. QED
      BY <2>1, <2>2, <2>5, LinksWorks
  <1>10. CASE Links!TickEnd("tick") \/ Links!TickCrash("tick")
    <2>1. /\ v3' = [v3 EXCEPT !["tick"] = Links!NoTick] /\ UNCHANGED <<v1, v2, v4, v6, v7>>
          /\ v5' = v5 \/ v5' = [v5 EXCEPT !["tick"] = Links!NoAdd]
      BY <1>10 DEF Links!TickEnd, Links!TickCrash
    <2>2. v3' \in [{"tick"} -> Links!TickType] /\ v3'["tick"] = Links!NoTick
      BY <1>2, <1>3, <2>1
    <2>3. LinksGoOn
      BY <1>1, <2>1, LinksSame
    <2>4. LinksOthers(v5', v6', v7', Len(v2'))
      <3>1. Len(v2) \in Nat
        BY <1>2
      <3>2. LinksOthers([v5 EXCEPT !["tick"] = Links!NoAdd], v6, v7, Len(v2))
        BY <1>2, <3>1, LinksLeaves
      <3>3. v2' = v2 /\ v6' = v6 /\ v7' = v7 /\ (v5' = v5 \/ v5' = [v5 EXCEPT !["tick"] = Links!NoAdd])
        BY <2>1
      <3>4. QED
        BY <1>2, <3>2, <3>3
    <2>5. Links!TypeOK' /\ Links!MissingIsLost' /\ Links!ProbedIsLost'
      BY <1>2, <1>3, <2>1, <2>2, <2>3, <2>4, LinksRest
    <2>6. Links!NotFound' /\ Links!NotFoundInWork'
      BY <1>3, <2>2 DEF Links!NotFound, Links!NotFoundInWork
    <2>7. QED
      BY <2>5, <2>6 DEF Links!IInv
  <1>11. QED
    BY <1>4, <1>5, <1>6, <1>7, <1>8, <1>9, <1>10 DEF Links!Tick

\* The steps of scans, of listings and of whoever changes the disk.
LEMMA LinksScans ==
  ASSUME Links!IInv,
         \/ \E f \in Clients : Links!Appear(f) \/ Links!Vanish(f)
         \/ \E s \in Walks : Links!Scan(s)
         \/ \E i \in Links!Live : Links!Probe(i)
         \/ Links!Probed
  PROVE  Links!IInv'
  <1>1. Links!TypeOK /\ Links!MissingIsLost
    BY DEF Links!IInv
  <1>2. /\ LinksOthers(v5, v6, v7, Len(v2))
        /\ v1 \subseteq Clients /\ v4 \in [Walks -> SUBSET Clients]
        /\ v2 \in Seq(Links!RowType \cup {Links!Gone}) /\ Len(v2) \in Nat
    BY <1>1, LinksTyped
  <1>3. ASSUME NEW f \in Clients, Links!Appear(f) \/ Links!Vanish(f) PROVE Links!IInv'
    <2>1. PICK d \in SUBSET Clients : Links!SetDisk(d)
      <3>1. v1 \cup {f} \in SUBSET Clients /\ v1 \ {f} \in SUBSET Clients
        BY <1>2
      <3>2. QED
        BY <1>3, <3>1 DEF Links!Appear, Links!Vanish
    <2>2. LinksGoOn /\ LinksFresh /\ Len(v2') = Len(v2) /\ v1' \subseteq Clients
      BY <1>1, <2>1, LinksDisk
    <2>3. UNCHANGED <<v3, v4, v5, v6, v7>>
      BY <1>3 DEF Links!Appear, Links!Vanish, Links!parties
    <2>4. LinksOthers(v5', v6', v7', Len(v2'))
      BY <1>2, <2>2, <2>3
    <2>5. QED
      BY <1>2, <2>2, <2>3, <2>4, LinksKept
  <1>4. ASSUME NEW s \in Walks, Links!ScanStart(s) \/ Links!ScanStop(s) PROVE Links!IInv'
    <2>1. UNCHANGED <<v1, v2, v3, v5, v6, v7>> /\ v4' \in [Walks -> SUBSET Clients]
      BY <1>2, <1>4 DEF Links!ScanStart, Links!ScanStop
    <2>2. LinksGoOn /\ LinksFresh /\ v1' \subseteq Clients
      BY <1>1, <2>1, LinksSame
    <2>3. LinksOthers(v5', v6', v7', Len(v2'))
      BY <1>2, <2>1
    <2>4. QED
      BY <2>1, <2>2, <2>3, LinksKept
  <1>5. ASSUME NEW s \in Walks, NEW f \in v4[s], Links!ScanFile(s, f) PROVE Links!IInv'
    <2>1. f \in Clients
      BY <1>2
    <2>2. Links!Full(f) \in Links!LinkNames
      <3>1. ByScan
        BY LinksAssumption
      <3>2. QED
        BY <2>1, <3>1 DEF Links!LinkNames
    <2>3. Links!BeginAdd(s, Links!Full(f)) /\ UNCHANGED <<v1, v2, v3, v4, v6, v7>>
      BY <1>5 DEF Links!ScanFile, Links!parties
    <2>4. LinksOthers(v5', v6', v7', Len(v2'))
      BY <1>1, <1>2, <2>2, <2>3, LinksBegins DEF LinksOthers
    <2>5. LinksGoOn /\ LinksFresh /\ v1' \subseteq Clients
      BY <1>1, <2>3, LinksSame
    <2>6. QED
      BY <1>2, <2>3, <2>4, <2>5, LinksKept
  <1>6. ASSUME NEW s \in Walks, Links!ScanFiled(s) PROVE Links!IInv'
    <2>1. /\ Links!FinishAdd(s) /\ v1' = v1 /\ v3' = v3 /\ v6' = v6 /\ v7' = v7
          /\ v4' = [v4 EXCEPT ![s] = v4[s] \ {v5[s].name.file}]
      BY <1>6 DEF Links!ScanFiled
    <2>2. v4' \in [Walks -> SUBSET Clients]
      BY <1>2, <2>1
    <2>3. LinksGoOn /\ LinksFresh /\ v5' = [v5 EXCEPT ![s] = Links!NoAdd]
      BY <1>1, <2>1, LinksAdded
    <2>4. Len(v2') \in Nat /\ Len(v2) <= Len(v2')
      BY <1>2, <2>3 DEF LinksGoOn
    <2>5. LinksOthers(v5', v6, v7, Len(v2))
      BY <1>2, <2>3, LinksLeaves
    <2>6. LinksOthers(v5', v6', v7', Len(v2'))
      BY <1>2, <2>1, <2>4, <2>5, LinksLonger
    <2>7. QED
      BY <1>2, <2>1, <2>2, <2>3, <2>6, LinksKept
  <1>7. ASSUME NEW i \in Links!Live, Links!Probe(i) PROVE Links!IInv'
    <2>1. i \in 1..Len(v2) /\ v2[i] # Links!Gone /\ v2[i] \in Links!RowType
      BY <1>1, LinksRow DEF Links!Live, Links!RowIds
    <2>2. /\ UNCHANGED <<v1, v2, v3, v4, v5, v7>> /\ v2[i].name.file \notin v1
          /\ v6' = [id |-> i, ttl |-> v2[i].ttl]
      BY <1>7 DEF Links!Probe
    <2>3. v2[i].lost
      BY <1>1, <2>1, <2>2 DEF Links!MissingIsLost
    <2>4. v6' \in [id : 1..Len(v2), ttl : 0..LinkTtl] /\ v6'.id = i
      BY <2>1, <2>2 DEF Links!RowType
    <2>5. LinksOthers(v5', v6', v7', Len(v2'))
      BY <1>2, <2>2, <2>4 DEF LinksOthers
    <2>6. Links!TypeOK'
      <3>1. /\ v3 \in [{"tick"} -> Links!TickType]
            /\ \A l \in v3["tick"].links : l.id \in 1..Len(v2)
        BY <1>1, LinksTyped
      <3>2. QED
        BY <1>2, <2>2, <2>5, <3>1 DEF LinksOthers, Links!TypeOK, Links!RowIds, Links!NoRow, Links!InAdd
    <2>7. Links!ProbedIsLost'
      BY <2>2, <2>3, <2>4 DEF Links!ProbedIsLost
    <2>8. Links!MissingIsLost' /\ Links!NotFound' /\ Links!NotFoundInWork'
      BY <2>2 DEF Links!IInv, Links!MissingIsLost, Links!NotFound, Links!NotFoundInWork,
                  Links!Live, Links!RowIds
    <2>9. QED
      BY <2>6, <2>7, <2>8 DEF Links!IInv
  <1>8. CASE Links!Probed
    <2>1. /\ v2' = Links!WithTtl(v6.id, Links!Lowered(v6.ttl)) /\ v6' = Links!NoView
          /\ UNCHANGED <<v1, v3, v4, v5, v7>> /\ v6 # Links!NoView
      BY <1>8 DEF Links!Probed
    <2>2. v6.id \in 1..Len(v2) /\ v6.id # 0 /\ v6.ttl \in 0..LinkTtl
      BY <1>2, <2>1 DEF LinksOthers
    <2>3. v2[v6.id] = Links!Gone \/ v2[v6.id].lost
      BY <2>2 DEF Links!IInv, Links!ProbedIsLost, Links!NoRow
    <2>4. Links!Lowered(v6.ttl) \in 0..LinkTtl
      BY <2>2, LinksAssumption DEF Links!Lowered
    <2>5. LinksGoOn /\ LinksFresh /\ Len(v2') = Len(v2)
      BY <1>1, <2>1, <2>2, <2>3, <2>4, LinksTtl
    <2>6. LinksOthers(v5', v6', v7', Len(v2'))
      BY <1>2, <2>1, <2>5 DEF LinksOthers
    <2>7. QED
      BY <1>2, <2>1, <2>5, <2>6, LinksKept
  <1>9. QED
    BY <1>3, <1>4, <1>5, <1>6, <1>7, <1>8 DEF Links!Scan

\* The steps of requests.
LEMMA LinksRequests ==
  ASSUME Links!IInv, Links!Request
  PROVE  Links!IInv'
  <1>1. Links!TypeOK /\ Links!MissingIsLost
    BY DEF Links!IInv
  <1>2. /\ LinksOthers(v5, v6, v7, Len(v2))
        /\ v1 \subseteq Clients /\ v4 \in [Walks -> SUBSET Clients]
        /\ v2 \in Seq(Links!RowType \cup {Links!Gone}) /\ Len(v2) \in Nat
    BY <1>1, LinksTyped
  <1>3. ASSUME NEW api, api.op \in {"none", "upload"}, NEW n \in Nat, LinksOthers(v5', v6, v7, n)
        PROVE  LinksOthers(v5', v6, api, n)
    BY <1>3 DEF LinksOthers
  <1>4. Links!NoRequest.op = "none" /\ [Links!NoRequest EXCEPT !.op = "upload"].op = "upload"
    BY DEF Links!NoRequest
  <1>5. ASSUME NEW n \in Links!LinkNames, Links!Upload(n) PROVE Links!IInv'
    <2>1. Links!BeginAdd("api", n) /\ UNCHANGED <<v3, v4, v6>> /\ v7'.op = "upload"
      BY <1>4, <1>5 DEF Links!Upload
    <2>2. LinksGoOn /\ LinksFresh /\ Len(v2') = Len(v2) /\ v1' \subseteq Clients
      <3>1. CASE Links!SetDisk(v1 \cup {n.file})
        <4>1. v1 \cup {n.file} \in SUBSET Clients
          BY <1>2, LinksNames
        <4>2. QED
          BY <1>1, <3>1, <4>1, LinksDisk
      <3>2. CASE UNCHANGED <<v1, v2>>
        BY <1>1, <3>2, LinksSame
      <3>3. QED
        BY <1>5, <3>1, <3>2 DEF Links!Upload
    <2>3. LinksOthers(v5', v6, v7, Len(v2))
      BY <1>1, <1>2, <2>1, LinksBegins DEF LinksOthers
    <2>4. LinksOthers(v5', v6', v7', Len(v2'))
      BY <1>2, <1>3, <2>1, <2>2, <2>3
    <2>5. QED
      BY <1>2, <2>1, <2>2, <2>4, LinksKept
  <1>6. CASE Links!Uploaded
    <2>1. Links!FinishAdd("api") /\ UNCHANGED <<v1, v3, v4, v6>> /\ v7' = Links!NoRequest
      BY <1>6 DEF Links!Uploaded
    <2>2. LinksGoOn /\ LinksFresh /\ v5' = [v5 EXCEPT !["api"] = Links!NoAdd]
      BY <1>1, <2>1, LinksAdded
    <2>3. Len(v2') \in Nat /\ Len(v2) <= Len(v2')
      BY <1>2, <2>2 DEF LinksGoOn
    <2>4. LinksOthers(v5', v6, v7, Len(v2))
      BY <1>2, <2>2, LinksLeaves
    <2>5. LinksOthers(v5', v6, v7, Len(v2'))
      BY <1>2, <2>3, <2>4, LinksLonger
    <2>6. LinksOthers(v5', v6', v7', Len(v2'))
      BY <1>3, <1>4, <2>1, <2>3, <2>5
    <2>7. QED
      BY <1>2, <2>1, <2>2, <2>6, LinksKept
  <1>7. ASSUME NEW i \in Links!Live, Links!Update(i) PROVE Links!IInv'
    <2>1. i \in 1..Len(v2) /\ v2[i].name \in Links!LinkNames
      BY <1>1, LinksRow DEF Links!Live, Links!RowIds, Links!RowType
    <2>2. UNCHANGED <<v1, v2, v3, v4, v5, v6>> /\ v7' = [op |-> "update", id |-> i, name |-> v2[i].name]
      BY <1>7 DEF Links!Update
    <2>3. LinksOthers(v5', v6', v7', Len(v2'))
      BY <1>2, <2>1, <2>2 DEF LinksOthers
    <2>4. LinksGoOn /\ LinksFresh /\ v1' \subseteq Clients
      BY <1>1, <2>2, LinksSame
    <2>5. QED
      BY <1>2, <2>2, <2>3, <2>4, LinksKept
  <1>8. ASSUME NEW i \in Links!Live, Links!Unlink(i) PROVE Links!IInv'
    <2>1. i \in 1..Len(v2)
      BY DEF Links!Live, Links!RowIds
    <2>2. /\ v2' = [v2 EXCEPT ![i] = Links!Gone]
          /\ v1' = v1 /\ v3' = v3 /\ v4' = v4 /\ v5' = v5 /\ v6' = v6 /\ v7' = v7
      BY <1>8 DEF Links!Unlink, Links!parties
    <2>3. LinksGoOn /\ LinksFresh /\ Len(v2') = Len(v2)
      BY <1>1, <2>1, <2>2, LinksDeleted
    <2>4. LinksOthers(v5', v6', v7', Len(v2'))
      BY <1>2, <2>2, <2>3
    <2>5. QED
      BY <1>2, <2>2, <2>3, <2>4, LinksKept
  <1>9. ASSUME NEW i \in Links!Live, NEW n \in Links!LinkNames, Links!Move(i, n) PROVE Links!IInv'
    <2>1. i \in 1..Len(v2)
      BY DEF Links!Live, Links!RowIds
    <2>2. /\ v1' = v1 /\ v3' = v3 /\ v4' = v4 /\ v5' = v5 /\ v6' = v6
          /\ v7' = [op |-> "move", id |-> i, name |-> n]
      BY <1>9 DEF Links!Move
    <2>3. v2' = v2 \/ \E j \in 1..Len(v2) : v2' = [v2 EXCEPT ![j] = Links!Gone]
      BY <1>9 DEF Links!Move, Links!Named, Links!Live, Links!RowIds, Links!NoRow
    <2>4. LinksGoOn /\ LinksFresh /\ Len(v2') = Len(v2)
      BY <1>1, <2>2, <2>3, LinksDeleted, LinksSame
    <2>5. LinksOthers(v5', v6', v7', Len(v2'))
      BY <1>2, <2>1, <2>2, <2>4 DEF LinksOthers
    <2>6. QED
      BY <1>2, <2>2, <2>4, <2>5, LinksKept
  <1>10. CASE Links!Rename
    <2>1. v7.op = "move" /\ v7.id \in 1..Len(v2) /\ v7.name \in Links!LinkNames
      BY <1>2, <1>10 DEF Links!Rename, LinksOthers
    <2>2. PICK d \in SUBSET Clients : Links!SetDisk(d)
      <3>1. v7.name.file \in Clients
        BY <2>1, LinksNames
      <3>2. (v1 \ {v2[v7.id].name.file}) \cup {v7.name.file} \in SUBSET Clients
        BY <1>2, <3>1
      <3>3. QED
        BY <1>10, <3>2 DEF Links!Rename
    <2>3. LinksGoOn /\ LinksFresh /\ Len(v2') = Len(v2) /\ v1' \subseteq Clients
      BY <1>1, <2>2, LinksDisk
    <2>4. UNCHANGED <<v3, v4, v5, v6>> /\ v7' = [v7 EXCEPT !.op = "moved"]
      BY <1>10 DEF Links!Rename
    <2>5. LinksOthers(v5', v6', v7', Len(v2'))
      BY <1>2, <2>1, <2>3, <2>4 DEF LinksOthers
    <2>6. QED
      BY <1>2, <2>3, <2>4, <2>5, LinksKept
  <1>11. CASE Links!RenameFails
    <2>1. UNCHANGED <<v1, v2, v3, v4, v5, v6>> /\ v7' = Links!NoRequest
      BY <1>11 DEF Links!RenameFails
    <2>2. LinksOthers(v5', v6', v7', Len(v2'))
      BY <1>2, <1>3, <1>4, <2>1
    <2>3. LinksGoOn /\ LinksFresh /\ v1' \subseteq Clients
      BY <1>1, <2>1, LinksSame
    <2>4. QED
      BY <1>2, <2>1, <2>2, <2>3, LinksKept
  <1>12. CASE Links!SaveRow
    <2>1. v7.id \in 1..Len(v2) /\ v7.name \in Links!LinkNames
      BY <1>2, <1>12 DEF Links!SaveRow, LinksOthers
    <2>2. UNCHANGED <<v1, v3, v4, v5, v6>> /\ v7' = Links!NoRequest
      BY <1>12 DEF Links!SaveRow
    <2> DEFINE lost == v2[v7.id].lost \/ v7.name.file \notin v1
               new == [name |-> v7.name, ttl |-> LinkTtl, lost |-> lost]
    <2>3. v2' = [v2 EXCEPT ![v7.id] = IF v2[v7.id] = Links!Gone THEN Links!Gone ELSE new]
      BY <1>12 DEF Links!SaveRow
    <2>4. CASE v2[v7.id] = Links!Gone
      <3>1. v2' = [v2 EXCEPT ![v7.id] = Links!Gone]
        BY <2>3, <2>4
      <3>2. LinksGoOn /\ LinksFresh /\ Len(v2') = Len(v2)
        BY <1>1, <2>1, <2>2, <3>1, LinksDeleted
      <3>3. LinksOthers(v5', v6', v7', Len(v2'))
        BY <1>2, <1>3, <1>4, <2>2, <3>2
      <3>4. QED
        BY <1>2, <2>2, <3>2, <3>3, LinksKept
    <2>5. CASE v2[v7.id] # Links!Gone
      <3>1. v2[v7.id].lost \in BOOLEAN
        BY <1>1, <2>1, <2>5, LinksRow DEF Links!RowType
      <3> lost \in BOOLEAN /\ (v2[v7.id].lost => lost) /\ (v7.name.file \notin v1 => lost)
        BY <3>1
      <3> HIDE DEF lost
      <3>2. /\ new \in Links!RowType /\ new.ttl = LinkTtl
            /\ (v2[v7.id].lost => new.lost) /\ (new.name.file \notin v1 => new.lost)
        BY <2>1, LinksAssumption DEF Links!RowType
      <3>3. v2' = [v2 EXCEPT ![v7.id] = new]
        BY <2>3, <2>5 DEF lost
      <3> HIDE DEF new
      <3>4. /\ v2' \in Seq(Links!RowType \cup {Links!Gone}) /\ Len(v2') = Len(v2)
            /\ v2'[v7.id] = new
            /\ \A j \in 1..Len(v2) : j # v7.id => v2'[j] = v2[j]
        BY <1>2, <2>1, <3>2, <3>3
      <3>5. LinksGoOn
        BY <1>1, <2>2, <2>5, <3>2, <3>4 DEF LinksGoOn, Links!MissingIsLost, Links!Live, Links!RowIds
      <3>6. LinksFresh
        BY <3>2, <3>4 DEF LinksFresh
      <3>7. LinksOthers(v5', v6', v7', Len(v2'))
        BY <1>2, <1>3, <1>4, <2>2, <3>4
      <3>8. QED
        BY <1>2, <2>2, <3>5, <3>6, <3>7, LinksKept
    <2>6. QED
      BY <2>4, <2>5
  <1>13. QED
    BY <1>5, <1>6, <1>7, <1>8, <1>9, <1>10, <1>11, <1>12 DEF Links!Request

\* Every step of the parties keeps the invariant.
LEMMA LinksStep == Links!IInv /\ [Links!Next]_(Links!vars) => Links!IInv'
  <1> SUFFICES ASSUME Links!IInv, [Links!Next]_(Links!vars) PROVE Links!IInv'
    OBVIOUS
  <1>1. CASE UNCHANGED Links!vars
    BY <1>1 DEF Links!vars, Links!IInv, Links!TypeOK, Links!MissingIsLost, Links!ProbedIsLost,
                Links!NotFound, Links!NotFoundInWork, Links!Live, Links!RowIds, Links!InAdd
  <1>2. CASE Links!Next
    BY <1>2, LinksTicks, LinksScans, LinksRequests DEF Links!Next
  <1>3. QED
    BY <1>1, <1>2

-----------------------------------------------------------------------------
(***************************************************************************)
(* Tags that edit lines                                                    *)
(***************************************************************************)
\* How many of the first lines of a hunk have certain signs.
LEMMA TagsCount ==
  ASSUME NEW h, Len(h.body) \in Nat, NEW signs
  PROVE  /\ Tags!Before(h, 1, signs) = 0
         /\ \A k \in 1..Len(h.body) + 1 : Tags!Before(h, k, signs) \in Nat
         /\ \A k \in 1..Len(h.body) : Tags!Before(h, k + 1, signs)
               = IF h.body[k][1] \in signs THEN Tags!Before(h, k, signs) + 1 ELSE Tags!Before(h, k, signs)
         /\ \A j, k \in 1..Len(h.body) + 1 : j <= k => Tags!Before(h, j, signs) <= Tags!Before(h, k, signs)
  <1> DEFINE m    == Len(h.body)
             S(k) == {j \in 1..k - 1 : h.body[j][1] \in signs}
  <1>1. \A T : Tags!Cardinality(T) = Cardinality(T)
    BY DEF Tags!Cardinality, Cardinality
  <1>2. \A k : Tags!Before(h, k, signs) = Cardinality(S(k))
    BY <1>1 DEF Tags!Before
  <1>3. \A k \in 1..m + 1 : IsFiniteSet(S(k)) /\ Cardinality(S(k)) \in Nat
    <2> SUFFICES ASSUME NEW k \in 1..m + 1 PROVE IsFiniteSet(S(k)) /\ Cardinality(S(k)) \in Nat
      OBVIOUS
    <2>1. 1 \in Int /\ k - 1 \in Int
      OBVIOUS
    <2>2. IsFiniteSet(1..k - 1)
      BY <2>1, FS_Interval
    <2>3. S(k) \subseteq 1..k - 1
      OBVIOUS
    <2>4. IsFiniteSet(S(k))
      BY <2>2, <2>3, FS_Subset
    <2>5. QED
      BY <2>4, FS_CardinalityType
  <1>4. S(1) = {}
    OBVIOUS
  <1>5. ASSUME NEW k \in 1..m
        PROVE  /\ h.body[k][1] \in signs => S(k + 1) = S(k) \cup {k} /\ k \notin S(k)
               /\ h.body[k][1] \notin signs => S(k + 1) = S(k)
    <2>1. (k + 1) - 1 = k /\ k \in 1..k /\ \A j \in 1..k : j = k \/ j \in 1..k - 1
      OBVIOUS
    <2>2. k \notin 1..k - 1 /\ 1..k - 1 \subseteq 1..k
      OBVIOUS
    <2>3. QED
      BY <2>1, <2>2
  <1>6. ASSUME NEW j \in 1..m + 1, NEW k \in 1..m + 1, j <= k PROVE S(j) \subseteq S(k)
    BY <1>6
  <1> HIDE DEF S, m
  <1>7. ASSUME NEW k \in 1..m
        PROVE  Cardinality(S(k + 1)) = IF h.body[k][1] \in signs THEN Cardinality(S(k)) + 1 ELSE Cardinality(S(k))
    <2>1. k \in 1..m + 1 /\ IsFiniteSet(S(k))
      BY <1>3 DEF m
    <2>2. CASE h.body[k][1] \in signs
      BY <1>5, <2>1, <2>2, FS_AddElement
    <2>3. CASE h.body[k][1] \notin signs
      BY <1>5, <2>3
    <2>4. QED
      BY <2>2, <2>3
  <1>8. ASSUME NEW j \in 1..m + 1, NEW k \in 1..m + 1, j <= k PROVE Cardinality(S(j)) <= Cardinality(S(k))
    BY <1>3, <1>6, <1>8, FS_Subset
  <1>9. Cardinality(S(1)) = 0
    BY <1>4, FS_EmptySet
  <1>10. QED
    BY <1>2, <1>3, <1>7, <1>8, <1>9 DEF m

\* The text of a hunk under some signs has each line with one of them at the place
\* that is one after those before it.
LEMMA TagsText ==
  ASSUME NEW h, Len(h.body) \in Nat, DOMAIN h.body = 1..Len(h.body), NEW signs
  PROVE  LET text == Tags!TextOf(h, signs) IN
         /\ DOMAIN text = 1..Tags!Before(h, Len(h.body) + 1, signs)
         /\ text = [n \in 1..Tags!Before(h, Len(h.body) + 1, signs) |-> text[n]]
         /\ \A k \in 1..Len(h.body) : h.body[k][1] \in signs =>
               /\ Tags!Before(h, k, signs) + 1 \in 1..Tags!Before(h, Len(h.body) + 1, signs)
               /\ text[Tags!Before(h, k, signs) + 1] = h.body[k][2]
  <1> DEFINE m    == Len(h.body)
             B(k) == Tags!Before(h, k, signs)
             The(n, j) == h.body[j][1] \in signs /\ B(j) = n - 1
             text == Tags!TextOf(h, signs)
  <1>1. text = [n \in 1..B(m + 1) |-> h.body[CHOOSE j \in 1..m : The(n, j)][2]]
    BY DEF Tags!TextOf
  <1>2. /\ \A k \in 1..m + 1 : B(k) \in Nat
        /\ \A k \in 1..m : h.body[k][1] \in signs => B(k + 1) = B(k) + 1
        /\ \A j, k \in 1..m + 1 : j <= k => B(j) <= B(k)
    BY TagsCount
  <1> HIDE DEF B, text, m
  <1>3. m \in Nat
    BY DEF m
  <1>4. ASSUME NEW k \in 1..m, h.body[k][1] \in signs
        PROVE  B(k) + 1 \in 1..B(m + 1) /\ text[B(k) + 1] = h.body[k][2]
    <2> DEFINE n == B(k) + 1
               i == CHOOSE j \in 1..m : The(n, j)
    <2>1. k \in 1..m + 1 /\ k + 1 \in 1..m + 1 /\ k + 1 <= m + 1 /\ m + 1 \in 1..m + 1
      BY <1>3
    <2>2. B(k) \in Nat /\ B(k + 1) = B(k) + 1 /\ B(k + 1) <= B(m + 1) /\ B(m + 1) \in Nat
      BY <1>2, <1>4, <2>1
    <2>3. n \in 1..B(m + 1)
      BY <2>2
    <2>4. The(n, k)
      BY <1>4, <2>2
    <2>5. i \in 1..m /\ The(n, i)
      BY <2>4
    <2> HIDE DEF i
    <2>6. B(i) = B(k) /\ h.body[i][1] \in signs /\ i \in Nat
      BY <2>2, <2>5
    <2>7. ~(i < k)
      <3> SUFFICES ASSUME i < k PROVE FALSE
        OBVIOUS
      <3>1. i + 1 \in 1..m + 1 /\ i + 1 <= k
        BY <1>3, <2>5
      <3>2. B(i + 1) = B(i) + 1 /\ B(i + 1) <= B(k)
        BY <1>2, <2>1, <2>5, <2>6, <3>1
      <3>3. QED
        BY <2>2, <2>6, <3>2
    <2>8. ~(k < i)
      <3> SUFFICES ASSUME k < i PROVE FALSE
        OBVIOUS
      <3>1. i \in 1..m + 1 /\ k + 1 <= i
        BY <1>3, <2>5
      <3>2. B(k + 1) <= B(i)
        BY <1>2, <2>1, <3>1
      <3>3. QED
        BY <2>2, <2>6, <3>2
    <2>9. i = k
      BY <2>5, <2>7, <2>8
    <2>10. text[n] = h.body[i][2]
      BY <1>1, <2>3 DEF i
    <2>11. QED
      BY <2>3, <2>9, <2>10
  <1>5. DOMAIN text = 1..B(m + 1) /\ text = [n \in 1..B(m + 1) |-> text[n]]
    BY <1>1
  <1>6. QED
    BY <1>4, <1>5 DEF B, text, m

\* x was put into the list at place a, and nothing else changed.
TagsPut(S, list, a, x, new) ==
    /\ new \in Seq(S) /\ Len(new) = Len(list) + 1
    /\ new[a] = x
    /\ \A q \in 1..Len(list) : q < a => new[q] = list[q]
    /\ \A q \in 1..Len(list) : q >= a => new[q + 1] = list[q]

\* A line is put into a list in front of one of its places, or at its end.
LEMMA TagsInsert ==
  ASSUME NEW S, NEW list \in Seq(S), NEW i \in Int, NEW x \in S
  PROVE  \E a \in 1..Len(list) + 1 :
            /\ i >= 0 => a = IF i > Len(list) THEN Len(list) + 1 ELSE i + 1
            /\ TagsPut(S, list, a, x, Tags!insert(list, i, x))
  <1> DEFINE n  == Len(list)
             at == IF i < 0 THEN (IF i + n < 0 THEN 0 ELSE i + n) ELSE i
             a  == (IF at > n THEN n ELSE at) + 1
             new == Tags!insert(list, i, x)
  <1>1. n \in Nat
    OBVIOUS
  <1>2. new = Tags!InsertAt(list, a, x)
    BY DEF Tags!insert
  <1> HIDE DEF n
  <1>3. a \in 1..n + 1 /\ (i >= 0 => a = IF i > n THEN n + 1 ELSE i + 1)
    BY <1>1
  <1> HIDE DEF a, new
  <1> DEFINE head == SubSeq(list, 1, a - 1)
             tail == SubSeq(list, a, n)
  <1>4. new = (head \o <<x>>) \o tail
    BY <1>2 DEF Tags!InsertAt, n
  <1>5. head \in Seq(S) /\ Len(head) = a - 1 /\ \A q \in 1..a - 1 : head[q] = list[q]
    <2>1. 1 \in Int /\ a - 1 \in Int /\ \A q \in 1..a - 1 : q \in 1..n
      BY <1>1, <1>3
    <2>2. \A q \in 1..a - 1 : list[q] \in S
      BY <2>1 DEF n
    <2>3. /\ head \in Seq(S) /\ Len(head) = IF 1 <= a - 1 THEN (a - 1) - 1 + 1 ELSE 0
          /\ \A q \in 1..(a - 1) - 1 + 1 : head[q] = list[1 + q - 1]
      BY <2>1, <2>2, SubSeqProperties
    <2>4. Len(head) = a - 1
      BY <1>3, <2>3
    <2>5. ASSUME NEW q \in 1..a - 1 PROVE head[q] = list[q]
      <3>1. q \in 1..(a - 1) - 1 + 1 /\ 1 + q - 1 = q
        BY <1>3
      <3>2. QED
        BY <2>3, <3>1
    <2>6. QED
      BY <2>3, <2>4, <2>5
  <1>6. tail \in Seq(S) /\ Len(tail) = n - a + 1 /\ \A q \in 1..n - a + 1 : tail[q] = list[a + q - 1]
    <2>1. a \in Int /\ n \in Int /\ \A q \in a..n : q \in 1..n
      BY <1>1, <1>3
    <2>2. \A q \in a..n : list[q] \in S
      BY <2>1 DEF n
    <2>3. /\ tail \in Seq(S) /\ Len(tail) = IF a <= n THEN n - a + 1 ELSE 0
          /\ \A q \in 1..n - a + 1 : tail[q] = list[a + q - 1]
      BY <2>1, <2>2, SubSeqProperties
    <2>4. Len(tail) = n - a + 1
      BY <1>1, <1>3, <2>3
    <2>5. QED
      BY <2>3, <2>4
  <1>7. <<x>> \in Seq(S) /\ Len(<<x>>) = 1 /\ <<x>>[1] = x
    OBVIOUS
  <1> HIDE DEF head, tail
  <1> DEFINE front == head \o <<x>>
  <1>8. front \in Seq(S) /\ Len(front) = a /\ front[a] = x /\ \A q \in 1..a - 1 : front[q] = list[q]
    <2>1. /\ front \in Seq(S) /\ Len(front) = Len(head) + 1
          /\ \A q \in 1..Len(head) + 1 : front[q] = IF q <= Len(head) THEN head[q] ELSE <<x>>[q - Len(head)]
      BY <1>5, <1>7, ConcatProperties
    <2>2. Len(head) + 1 = a /\ a \in 1..a /\ a - Len(head) = 1 /\ ~(a <= Len(head))
      BY <1>3, <1>5
    <2>3. front[a] = x
      BY <1>7, <2>1, <2>2
    <2>4. ASSUME NEW q \in 1..a - 1 PROVE front[q] = list[q]
      <3>1. q \in 1..Len(head) + 1 /\ q <= Len(head)
        BY <1>3, <1>5
      <3>2. QED
        BY <1>5, <2>1, <3>1
    <2>5. QED
      BY <2>1, <2>2, <2>3, <2>4
  <1> HIDE DEF front
  <1>9. /\ new \in Seq(S) /\ Len(new) = a + (n - a + 1)
        /\ \A q \in 1..a + (n - a + 1) : new[q] = IF q <= a THEN front[q] ELSE tail[q - a]
    <2>1. /\ front \o tail \in Seq(S) /\ Len(front \o tail) = Len(front) + Len(tail)
          /\ \A q \in 1..Len(front) + Len(tail) :
                (front \o tail)[q] = IF q <= Len(front) THEN front[q] ELSE tail[q - Len(front)]
      BY <1>6, <1>8, ConcatProperties
    <2>2. new = front \o tail
      BY <1>4 DEF front
    <2>3. QED
      BY <1>6, <1>8, <2>1, <2>2
  <1>10. Len(new) = n + 1
    BY <1>1, <1>3, <1>9
  <1>11. new[a] = x
    <2>1. a \in 1..a + (n - a + 1) /\ a <= a
      BY <1>1, <1>3
    <2>2. new[a] = front[a]
      BY <1>9, <2>1
    <2>3. QED
      BY <1>8, <2>2
  <1>12. ASSUME NEW q \in 1..n, q < a PROVE new[q] = list[q]
    <2>1. q \in 1..a + (n - a + 1) /\ q <= a /\ q \in 1..a - 1
      BY <1>1, <1>3, <1>12
    <2>2. QED
      BY <1>8, <1>9, <2>1
  <1>13. ASSUME NEW q \in 1..n, q >= a PROVE new[q + 1] = list[q]
    <2>1. /\ q + 1 \in 1..a + (n - a + 1) /\ ~(q + 1 <= a)
          /\ q + 1 - a \in 1..n - a + 1 /\ a + (q + 1 - a) - 1 = q
      BY <1>1, <1>3, <1>13
    <2>2. new[q + 1] = tail[q + 1 - a]
      <3>1. PICK r \in Int : r = q + 1
        BY <1>1
      <3>2. r \in 1..a + (n - a + 1) /\ ~(r <= a)
        BY <2>1, <3>1
      <3>3. new[r] = tail[r - a]
        BY <1>9, <3>2
      <3>4. QED
        BY <1>1, <1>3, <3>1, <3>3
    <2>3. tail[q + 1 - a] = list[a + (q + 1 - a) - 1]
      BY <1>6, <2>1
    <2>4. QED
      BY <2>1, <2>2, <2>3
  <1>14. TagsPut(S, list, a, x, new)
    BY <1>9, <1>10, <1>11, <1>12, <1>13 DEF TagsPut, n
  <1>15. QED
    BY <1>3, <1>14 DEF n, new

\* A line is taken out of a list.
LEMMA TagsPop ==
  ASSUME NEW S, NEW list \in Seq(S), NEW i \in Int, ~Tags!PopRaises(list, i)
  PROVE  LET new == Tags!pop(list, i) IN
         \E a \in 1..Len(list) :
            /\ new \in Seq(S) /\ Len(new) = Len(list) - 1
            /\ i >= 0 => a = i + 1
            /\ \A q \in 1..Len(list) : q < a => new[q] = list[q]
            /\ \A q \in 1..Len(list) : q > a => new[q - 1] = list[q]
  <1> DEFINE n == Len(list)
             a == (IF i < 0 THEN i + n ELSE i) + 1
             new == Tags!pop(list, i)
  <1>1. n \in Nat
    OBVIOUS
  <1>2. new = Tags!RemoveAt(list, a)
    BY DEF Tags!pop
  <1>3. i < n /\ i >= -n
    BY <1>1 DEF Tags!PopRaises
  <1> HIDE DEF n
  <1>4. a \in 1..n /\ (i >= 0 => a = i + 1)
    BY <1>1, <1>3
  <1> HIDE DEF a, new
  <1> DEFINE head == SubSeq(list, 1, a - 1)
             tail == SubSeq(list, a + 1, n)
  <1>5. new = head \o tail
    BY <1>2 DEF Tags!RemoveAt, n
  <1>6. head \in Seq(S) /\ Len(head) = a - 1 /\ \A q \in 1..a - 1 : head[q] = list[q]
    <2>1. 1 \in Int /\ a - 1 \in Int /\ \A q \in 1..a - 1 : q \in 1..n
      BY <1>1, <1>4
    <2>2. \A q \in 1..a - 1 : list[q] \in S
      BY <2>1 DEF n
    <2>3. /\ head \in Seq(S) /\ Len(head) = IF 1 <= a - 1 THEN (a - 1) - 1 + 1 ELSE 0
          /\ \A q \in 1..(a - 1) - 1 + 1 : head[q] = list[1 + q - 1]
      BY <2>1, <2>2, SubSeqProperties
    <2>4. Len(head) = a - 1
      BY <1>4, <2>3
    <2>5. ASSUME NEW q \in 1..a - 1 PROVE head[q] = list[q]
      <3>1. q \in 1..(a - 1) - 1 + 1 /\ 1 + q - 1 = q
        BY <1>4
      <3>2. QED
        BY <2>3, <3>1
    <2>6. QED
      BY <2>3, <2>4, <2>5
  <1>7. tail \in Seq(S) /\ Len(tail) = n - a /\ \A q \in 1..n - a : tail[q] = list[a + q]
    <2>1. a + 1 \in Int /\ n \in Int /\ \A q \in a + 1..n : q \in 1..n
      BY <1>1, <1>4
    <2>2. \A q \in a + 1..n : list[q] \in S
      BY <2>1 DEF n
    <2>3. /\ tail \in Seq(S) /\ Len(tail) = IF a + 1 <= n THEN n - (a + 1) + 1 ELSE 0
          /\ \A q \in 1..n - (a + 1) + 1 : tail[q] = list[a + 1 + q - 1]
      BY <2>1, <2>2, SubSeqProperties
    <2>4. Len(tail) = n - a
      BY <1>1, <1>4, <2>3
    <2>5. ASSUME NEW q \in 1..n - a PROVE tail[q] = list[a + q]
      <3>1. q \in 1..n - (a + 1) + 1 /\ a + 1 + q - 1 = a + q
        BY <1>1, <1>4
      <3>2. QED
        BY <2>3, <3>1
    <2>6. QED
      BY <2>3, <2>4, <2>5
  <1> HIDE DEF head, tail
  <1>8. /\ new \in Seq(S) /\ Len(new) = (a - 1) + (n - a)
        /\ \A q \in 1..(a - 1) + (n - a) : new[q] = IF q <= a - 1 THEN head[q] ELSE tail[q - (a - 1)]
    <2>1. /\ head \o tail \in Seq(S) /\ Len(head \o tail) = Len(head) + Len(tail)
          /\ \A q \in 1..Len(head) + Len(tail) :
                (head \o tail)[q] = IF q <= Len(head) THEN head[q] ELSE tail[q - Len(head)]
      BY <1>6, <1>7, ConcatProperties
    <2>2. QED
      BY <1>5, <1>6, <1>7, <2>1
  <1>9. Len(new) = n - 1
    BY <1>1, <1>4, <1>8
  <1>10. ASSUME NEW q \in 1..n, q < a PROVE new[q] = list[q]
    <2>1. q \in 1..(a - 1) + (n - a) /\ q <= a - 1 /\ q \in 1..a - 1
      BY <1>1, <1>4, <1>10
    <2>2. QED
      BY <1>6, <1>8, <2>1
  <1>11. ASSUME NEW q \in 1..n, q > a PROVE new[q - 1] = list[q]
    <2>1. /\ q - 1 \in 1..(a - 1) + (n - a) /\ ~(q - 1 <= a - 1)
          /\ q - 1 - (a - 1) \in 1..n - a /\ a + (q - 1 - (a - 1)) = q
      BY <1>1, <1>4, <1>11
    <2>2. new[q - 1] = tail[q - 1 - (a - 1)]
      BY <1>8, <2>1
    <2>3. tail[q - 1 - (a - 1)] = list[a + (q - 1 - (a - 1))]
      BY <1>7, <2>1
    <2>4. QED
      BY <2>1, <2>2, <2>3
  <1>12. QED
    BY <1>4, <1>8, <1>9, <1>10, <1>11 DEF n, new

\* A list in which None is once, and all else are lines of a file.
TagsOneNone(list) ==
    \E e \in 1..Len(list) : list[e] = None /\ \A q \in 1..Len(list) : q # e => list[q] \in TagLines

\* A list that was first, and has its lines from p replaced, the first o of the old
\* ones by the first w of the new ones; or there is no place p in it, and nothing
\* but new lines has been put in.
TagsShape(first, Old, New, p, o, w, list) ==
    \/ /\ p >= 1 /\ p + o <= Len(first) /\ Len(list) = (Len(first) - o) + w
       /\ \A q \in 1..p : list[q] = first[q]
       /\ \A q \in 1..w : list[p + q] = New[q]
       /\ \A q \in 1..Len(first) : q > p + o => list[(q - o) + w] = first[q]
       /\ \A q \in 1..o : first[p + q] = Old[q]
    \/ p > Len(first) /\ o = 0 /\ Len(list) = Len(first) + w
    \/ p + w <= 0 /\ o = 0
    \/ p + w >= 1 /\ Len(list) >= 1 /\ list[1] # None

\* A new line goes in: None stays where it was, or one place later.
LEMMA TagsNoneInsert ==
  ASSUME NEW list \in Seq(TagLines \cup {None}), TagsOneNone(list), NEW i \in Int, NEW x \in TagLines
  PROVE  TagsOneNone(Tags!insert(list, i, x))
  <1> DEFINE n   == Len(list)
             new == Tags!insert(list, i, x)
  <1>1. n \in Nat
    OBVIOUS
  <1>2. PICK a \in 1..n + 1 :
           /\ Len(new) = n + 1 /\ new[a] = x
           /\ \A q \in 1..n : q < a => new[q] = list[q]
           /\ \A q \in 1..n : q >= a => new[q + 1] = list[q]
    <2>1. x \in TagLines \cup {None}
      OBVIOUS
    <2>2. PICK a \in 1..n + 1 : TagsPut(TagLines \cup {None}, list, a, x, new)
      BY <2>1, TagsInsert
    <2>3. QED
      BY <2>2 DEF TagsPut
  <1>3. PICK e \in 1..n : list[e] = None /\ \A q \in 1..n : q # e => list[q] \in TagLines
    BY DEF TagsOneNone
  <1> HIDE DEF n, new
  <1>4. PICK d \in 1..n + 1 : d = IF e < a THEN e ELSE e + 1
    BY <1>1
  <1>5. new[d] = None
    BY <1>1, <1>2, <1>3, <1>4
  <1>6. ASSUME NEW q \in 1..n + 1, q # d PROVE new[q] \in TagLines
    <2>1. CASE q < a
      <3>1. q \in 1..n /\ q # e
        BY <1>1, <1>4, <1>6, <2>1
      <3>2. QED
        BY <1>2, <1>3, <2>1, <3>1
    <2>2. CASE q = a
      BY <1>2, <2>2
    <2>3. CASE q > a
      <3>1. q - 1 \in 1..n /\ q - 1 >= a /\ q - 1 # e /\ (q - 1) + 1 = q
        BY <1>1, <1>4, <1>6, <2>3
      <3>2. new[(q - 1) + 1] = list[q - 1]
        BY <1>2, <3>1
      <3>3. QED
        BY <1>3, <3>1, <3>2
    <2>4. QED
      BY <1>1, <2>1, <2>2, <2>3
  <1>7. Len(new) = n + 1
    BY <1>2
  <1>8. QED
    BY <1>4, <1>5, <1>6, <1>7 DEF TagsOneNone, new

\* A line of the file is taken out: None stays where it was, or one place earlier.
LEMMA TagsNonePop ==
  ASSUME NEW list \in Seq(TagLines \cup {None}), TagsOneNone(list), NEW i \in Nat, i < Len(list),
         list[i + 1] \in TagLines, None \notin TagLines
  PROVE  TagsOneNone(Tags!pop(list, i))
  <1> DEFINE n   == Len(list)
             new == Tags!pop(list, i)
             a   == i + 1
  <1>1. n \in Nat /\ a \in 1..n
    OBVIOUS
  <1>2. /\ Len(new) = n - 1
        /\ \A q \in 1..n : q < a => new[q] = list[q]
        /\ \A q \in 1..n : q > a => new[q - 1] = list[q]
    <2>1. i \in Int /\ ~Tags!PopRaises(list, i) /\ i >= 0
      BY <1>1 DEF Tags!PopRaises
    <2>2. QED
      BY <2>1, TagsPop
  <1>3. PICK e \in 1..n : list[e] = None /\ \A q \in 1..n : q # e => list[q] \in TagLines
    BY DEF TagsOneNone
  <1>4. list[a] # None
    OBVIOUS
  <1> HIDE DEF n, new, a
  <1>5. PICK d \in 1..n - 1 : d = IF e < a THEN e ELSE e - 1
    BY <1>1, <1>3, <1>4
  <1>6. new[d] = None
    BY <1>1, <1>2, <1>3, <1>4, <1>5
  <1>7. ASSUME NEW q \in 1..n - 1, q # d PROVE new[q] \in TagLines
    <2>1. CASE q < a
      <3>1. q \in 1..n /\ q # e
        BY <1>1, <1>3, <1>4, <1>5, <1>7, <2>1
      <3>2. QED
        BY <1>2, <1>3, <2>1, <3>1
    <2>2. CASE ~(q < a)
      <3>1. q + 1 \in 1..n /\ q + 1 > a /\ q + 1 # e /\ (q + 1) - 1 = q
        BY <1>1, <1>3, <1>4, <1>5, <1>7, <2>2
      <3>2. new[(q + 1) - 1] = list[q + 1]
        BY <1>2, <3>1
      <3>3. QED
        BY <1>3, <3>1, <3>2
    <2>3. QED
      BY <2>1, <2>2
  <1>8. QED
    BY <1>2, <1>5, <1>6, <1>7 DEF TagsOneNone, new

\* A new line is put in where the hunk has come to.
LEMMA TagsShapeInsert ==
  ASSUME NEW S, NEW first \in Seq(S), NEW Old, NEW New, NEW p \in Int, NEW o \in Nat, NEW w \in Nat,
         NEW list \in Seq(S), Len(list) >= 1, TagsShape(first, Old, New, p, o, w, list),
         NEW new, NEW a \in 1..Len(list) + 1, Len(new) = Len(list) + 1,
         p + w >= 0 => a = IF p + w > Len(list) THEN Len(list) + 1 ELSE (p + w) + 1,
         new[a] = New[w + 1], new[a] # None,
         \A q \in 1..Len(list) : q < a => new[q] = list[q],
         \A q \in 1..Len(list) : q >= a => new[q + 1] = list[q]
  PROVE  TagsShape(first, Old, New, p, o, w + 1, new)
  <1> DEFINE n == Len(list)
             f == Len(first)
             i == p + w
  <1>1. n \in Nat /\ f \in Nat /\ i \in Int /\ i = p + w
    OBVIOUS
  <1>2. /\ a \in 1..n + 1 /\ Len(new) = n + 1
        /\ i >= 0 => a = IF i > n THEN n + 1 ELSE i + 1
        /\ new[a] = New[w + 1] /\ new[a] # None
        /\ \A q \in 1..n : q < a => new[q] = list[q]
        /\ \A q \in 1..n : q >= a => new[q + 1] = list[q]
    OBVIOUS
  <1> HIDE DEF n, f, i
  <1>3. CASE /\ p >= 1 /\ p + o <= f /\ n = (f - o) + w
             /\ \A q \in 1..p : list[q] = first[q]
             /\ \A q \in 1..w : list[p + q] = New[q]
             /\ \A q \in 1..f : q > p + o => list[(q - o) + w] = first[q]
             /\ \A q \in 1..o : first[p + q] = Old[q]
    <2>1. a = p + w + 1 /\ p + w <= n
      <3>1. p + w <= n /\ p + w >= 0
        BY <1>1, <1>3
      <3>2. i <= n /\ i >= 0 /\ i = p + w
        BY <1>1, <3>1
      <3>3. QED
        BY <1>1, <1>2, <3>2
    <2>2. ASSUME NEW q \in 1..p PROVE new[q] = first[q]
      <3>1. q \in 1..n /\ q < a
        BY <1>1, <2>1
      <3>2. QED
        BY <1>2, <1>3, <3>1
    <2>3. ASSUME NEW q \in 1..w + 1 PROVE new[p + q] = New[q]
      <3>1. CASE q = w + 1
        <4>1. p + q = a
          BY <2>1, <3>1
        <4>2. QED
          BY <1>2, <3>1, <4>1
      <3>2. CASE q # w + 1
        <4>1. q \in 1..w /\ p + q \in 1..n /\ p + q < a
          BY <1>1, <1>3, <2>1, <3>2, SMTT(30)
        <4>2. QED
          BY <1>2, <1>3, <4>1
      <3>3. QED
        BY <3>1, <3>2
    <2>4. ASSUME NEW q \in 1..f, q > p + o PROVE new[(q - o) + (w + 1)] = first[q]
      <3>1. PICK r \in Int : r = (q - o) + w
        BY <1>1
      <3>2. r \in 1..n /\ r >= a /\ r + 1 = (q - o) + (w + 1)
        BY <1>1, <1>3, <2>1, <2>4, <3>1
      <3>3. new[r + 1] = list[r]
        BY <1>2, <3>2
      <3>4. list[r] = first[q]
        BY <1>3, <2>4, <3>1
      <3>5. QED
        BY <3>2, <3>3, <3>4
    <2>5. Len(new) = (f - o) + (w + 1)
      <3>1. Len(new) = n + 1 /\ n = (f - o) + w
        BY <1>2, <1>3
      <3>2. QED
        BY <1>1, <3>1, SMTT(30)
    <2>6. QED
      BY <1>3, <2>2, <2>3, <2>4, <2>5 DEF TagsShape, f
  <1>4. CASE p > f /\ o = 0 /\ n = f + w
    <2>1. Len(new) = f + (w + 1)
      BY <1>1, <1>2, <1>4
    <2>2. QED
      BY <1>4, <2>1 DEF TagsShape, f
  <1>5. CASE p + w <= 0 /\ o = 0
    <2>1. CASE p + w = 0
      <3>1. a = 1
        BY <1>1, <1>2, <2>1
      <3>2. new[1] # None /\ Len(new) >= 1 /\ p + (w + 1) >= 1
        BY <1>1, <1>2, <2>1, <3>1
      <3>3. QED
        BY <3>2 DEF TagsShape
    <2>2. CASE p + w # 0
      <3>1. p + (w + 1) <= 0
        BY <1>5, <2>2
      <3>2. QED
        BY <1>5, <3>1 DEF TagsShape
    <2>3. QED
      BY <2>1, <2>2
  <1>6. CASE p + w >= 1 /\ n >= 1 /\ list[1] # None
    <2>1. a > 1 /\ 1 \in 1..n
      BY <1>1, <1>2, <1>6
    <2>2. new[1] = list[1] /\ Len(new) >= 1 /\ p + (w + 1) >= 1
      BY <1>1, <1>2, <1>6, <2>1
    <2>3. QED
      BY <1>6, <2>2 DEF TagsShape
  <1>7. QED
    BY <1>3, <1>4, <1>5, <1>6 DEF TagsShape, f, n

\* A line of the file is the context that the hunk has come to.
LEMMA TagsShapeKeep ==
  ASSUME NEW S, NEW first \in Seq(S), NEW Old, NEW New, NEW p \in Int, NEW o \in Nat, NEW w \in Nat,
         NEW list \in Seq(S), TagsShape(first, Old, New, p, o, w, list),
         p + w >= 1, p + w < Len(list), list[(p + w) + 1] = New[w + 1], list[(p + w) + 1] = Old[o + 1]
  PROVE  TagsShape(first, Old, New, p, o + 1, w + 1, list)
  <1> DEFINE n == Len(list)
             f == Len(first)
  <1>1. n \in Nat /\ f \in Nat
    OBVIOUS
  <1>2. p + w >= 1 /\ p + w < n
    OBVIOUS
  <1> HIDE DEF n, f
  <1>3. CASE /\ p >= 1 /\ p + o <= f /\ n = (f - o) + w
             /\ \A q \in 1..p : list[q] = first[q]
             /\ \A q \in 1..w : list[p + q] = New[q]
             /\ \A q \in 1..f : q > p + o => list[(q - o) + w] = first[q]
             /\ \A q \in 1..o : first[p + q] = Old[q]
    <2>1. p + (o + 1) <= f /\ n = (f - (o + 1)) + (w + 1)
      <3>1. p + o <= f /\ n = (f - o) + w
        BY <1>3
      <3>2. p < f - o
        BY <1>1, <1>2, <3>1
      <3>3. p + (o + 1) <= f
        BY <1>1, <3>2
      <3>4. (f - o) + w = (f - (o + 1)) + (w + 1)
        BY <1>1
      <3>5. QED
        BY <3>1, <3>3, <3>4
    <2>2. ASSUME NEW q \in 1..w + 1 PROVE list[p + q] = New[q]
      <3>1. CASE q = w + 1
        <4>1. p + q = (p + w) + 1
          BY <3>1
        <4>2. QED
          BY <3>1, <4>1
      <3>2. CASE q # w + 1
        <4>1. q \in 1..w
          BY <3>2
        <4>2. QED
          BY <1>3, <4>1
      <3>3. QED
        BY <3>1, <3>2
    <2>3. ASSUME NEW q \in 1..f, q > p + (o + 1) PROVE list[(q - (o + 1)) + (w + 1)] = first[q]
      <3>1. (q - (o + 1)) + (w + 1) = (q - o) + w /\ q > p + o
        BY <1>1, <2>3, SMTT(30)
      <3>2. QED
        BY <1>3, <3>1
    <2>4. ASSUME NEW q \in 1..o + 1 PROVE first[p + q] = Old[q]
      <3>1. CASE q = o + 1
        <4>1. PICK r \in Int : r = p + q
          OBVIOUS
        <4>2. r \in 1..f /\ r > p + o /\ (r - o) + w = (p + w) + 1
          BY <1>1, <1>3, <2>1, <3>1, <4>1
        <4>3. list[(r - o) + w] = first[r]
          BY <1>3, <4>2
        <4>4. QED
          BY <3>1, <4>1, <4>2, <4>3
      <3>2. CASE q # o + 1
        <4>1. q \in 1..o
          BY <3>2
        <4>2. QED
          BY <1>3, <4>1
      <3>3. QED
        BY <3>1, <3>2
    <2>5. QED
      BY <1>3, <2>1, <2>2, <2>3, <2>4 DEF TagsShape, f, n
  <1>4. CASE p > f /\ o = 0 /\ n = f + w
    BY <1>1, <1>2, <1>4
  <1>5. CASE p + w >= 1 /\ n >= 1 /\ list[1] # None
    <2>1. p + (w + 1) >= 1
      BY <1>5
    <2>2. QED
      BY <1>5, <2>1 DEF TagsShape, n
  <1>6. CASE p + w <= 0 /\ o = 0
    BY <1>2, <1>6
  <1>7. QED
    BY <1>3, <1>4, <1>5, <1>6 DEF TagsShape, f, n

\* A line of the file is the old line that the hunk has come to, and is taken out.
LEMMA TagsShapePop ==
  ASSUME NEW S, NEW first \in Seq(S), NEW Old, NEW New, NEW p \in Int, NEW o \in Nat, NEW w \in Nat,
         NEW list \in Seq(S), TagsShape(first, Old, New, p, o, w, list),
         p + w >= 1, p + w < Len(list), list[(p + w) + 1] = Old[o + 1]
  PROVE  TagsShape(first, Old, New, p, o + 1, w, Tags!pop(list, p + w))
  <1> DEFINE n   == Len(list)
             f   == Len(first)
             i   == p + w
             new == Tags!pop(list, i)
             a   == i + 1
  <1>1. n \in Nat /\ f \in Nat
    OBVIOUS
  <1>2. i >= 1 /\ i < n /\ i \in Int
    OBVIOUS
  <1>3. /\ Len(new) = n - 1
        /\ \A q \in 1..n : q < a => new[q] = list[q]
        /\ \A q \in 1..n : q > a => new[q - 1] = list[q]
    <2>1. i \in Int /\ ~Tags!PopRaises(list, i) /\ i >= 0
      BY <1>1, <1>2 DEF Tags!PopRaises
    <2>2. QED
      BY <2>1, TagsPop
  <1> HIDE DEF n, f, new
  <1>4. CASE /\ p >= 1 /\ p + o <= f /\ n = (f - o) + w
             /\ \A q \in 1..p : list[q] = first[q]
             /\ \A q \in 1..w : list[p + q] = New[q]
             /\ \A q \in 1..f : q > p + o => list[(q - o) + w] = first[q]
             /\ \A q \in 1..o : first[p + q] = Old[q]
    <2>1. p + (o + 1) <= f /\ Len(new) = (f - (o + 1)) + w
      <3>1. p + o <= f /\ n = (f - o) + w /\ Len(new) = n - 1
        BY <1>3, <1>4
      <3>2. p < f - o
        BY <1>1, <1>2, <3>1
      <3>3. p + (o + 1) <= f
        BY <1>1, <3>2
      <3>4. ((f - o) + w) - 1 = (f - (o + 1)) + w
        BY <1>1
      <3>5. QED
        BY <3>1, <3>3, <3>4
    <2>2. ASSUME NEW q \in 1..p PROVE new[q] = first[q]
      <3>1. q \in 1..n /\ q < a
        BY <1>1, <1>2
      <3>2. QED
        BY <1>3, <1>4, <3>1
    <2>3. ASSUME NEW q \in 1..w PROVE new[p + q] = New[q]
      <3>1. p + q \in 1..n /\ p + q < a
        <4>1. p + q <= p + w /\ p + q >= 1
          BY <1>4
        <4>2. QED
          BY <1>1, <1>2, <4>1
      <3>2. QED
        BY <1>3, <1>4, <3>1
    <2>4. ASSUME NEW q \in 1..f, q > p + (o + 1) PROVE new[(q - (o + 1)) + w] = first[q]
      <3>1. PICK r \in Int : r = (q - o) + w
        BY <1>1
      <3>2. r \in 1..n /\ r > a /\ r - 1 = (q - (o + 1)) + w /\ q > p + o
        BY <1>1, <1>2, <1>4, <2>4, <3>1
      <3>3. new[r - 1] = list[r]
        BY <1>3, <3>2
      <3>4. list[r] = first[q]
        BY <1>4, <3>1, <3>2
      <3>5. QED
        BY <3>2, <3>3, <3>4
    <2>5. ASSUME NEW q \in 1..o + 1 PROVE first[p + q] = Old[q]
      <3>1. CASE q = o + 1
        <4>1. PICK r \in Int : r = p + q
          OBVIOUS
        <4>2. r \in 1..f /\ r > p + o /\ (r - o) + w = (p + w) + 1
          BY <1>1, <1>4, <2>1, <3>1, <4>1
        <4>3. list[(r - o) + w] = first[r]
          BY <1>4, <4>2
        <4>4. QED
          BY <3>1, <4>1, <4>2, <4>3
      <3>2. CASE q # o + 1
        <4>1. q \in 1..o
          BY <3>2
        <4>2. QED
          BY <1>4, <4>1
      <3>3. QED
        BY <3>1, <3>2
    <2>6. QED
      BY <1>4, <2>1, <2>2, <2>3, <2>4, <2>5 DEF TagsShape, f, new
  <1>5. CASE p > f /\ o = 0 /\ n = f + w
    BY <1>1, <1>2, <1>5
  <1>6. CASE p + w >= 1 /\ n >= 1 /\ list[1] # None
    <2>1. 1 \in 1..n /\ 1 < a
      BY <1>1, <1>2
    <2>2. new[1] = list[1] /\ Len(new) >= 1
      BY <1>1, <1>2, <1>3, <2>1
    <2>3. QED
      BY <1>6, <2>2 DEF TagsShape, new
  <1>7. CASE p + w <= 0 /\ o = 0
    BY <1>2, <1>7
  <1>8. QED
    BY <1>4, <1>5, <1>6, <1>7 DEF TagsShape, f, n

\* What is true of the file when k lines of a hunk have been applied.
TagsHolds(h, first, offset, k, was) ==
    /\ was \in [list : Seq(TagLines \cup {None}), ok : BOOLEAN, raised : BOOLEAN]
    /\ was.ok /\ ~was.raised =>
          /\ TagsOneNone(was.list)
          /\ h.old = h.new =>
                TagsShape(first, Tags!TextOf(h, {"-", " "}), Tags!TextOf(h, {"+", " "}), h.old + offset,
                          Tags!Before(h, k + 1, {"-", " "}), Tags!Before(h, k + 1, {"+", " "}), was.list)

\* What a hunk is made of.
LEMMA TagsHunk ==
  ASSUME NEW h \in Tags!Hunks
  PROVE  /\ h.old \in Nat /\ h.new \in Nat
         /\ Len(h.body) \in Nat /\ DOMAIN h.body = 1..Len(h.body)
         /\ \A k \in 1..Len(h.body) : h.body[k][1] \in {"-", "+", " "} /\ h.body[k][2] \in TagLines
  <1>1. h.old \in TagStarts /\ h.new \in TagStarts /\ h.body \in Tags!BoundedSeq({"-", "+", " "} \X TagLines, MaxBody)
    BY DEF Tags!Hunks
  <1>2. PICK m \in 0..MaxBody : h.body \in [1..m -> {"-", "+", " "} \X TagLines]
    BY <1>1 DEF Tags!BoundedSeq, Tags!SeqOf
  <1>3. m \in Nat /\ h.old \in Nat /\ h.new \in Nat
    <2>1. MaxBody \in Nat /\ TagStarts \subseteq Nat
      BY TagsAssumption
    <2>2. h.old \in TagStarts /\ h.new \in TagStarts
      BY <1>1
    <2>3. m \in Nat
      BY <2>1
    <2>4. QED
      BY <2>1, <2>2, <2>3
  <1>4. Len(h.body) = m /\ DOMAIN h.body = 1..m
    <2> DEFINE X == {"-", "+", " "} \X TagLines
    <2>1. h.body \in [1..m -> X]
      BY <1>2
    <2> HIDE DEF X
    <2>2. h.body \in Seq(X)
      BY <1>3, <2>1
    <2>3. QED
      BY <1>3, <2>1, <2>2
  <1>5. \A k \in 1..m : h.body[k] \in {"-", "+", " "} \X TagLines
    BY <1>2
  <1>6. \A k \in 1..m : h.body[k][1] \in {"-", "+", " "} /\ h.body[k][2] \in TagLines
    BY <1>5
  <1>7. QED
    BY <1>3, <1>4, <1>6

\* The lines of a hunk are numbered from one.
LEMMA TagsNumbers ==
  ASSUME NEW m \in Nat, NEW k \in 1..m
  PROVE  k \in 1..m + 1 /\ (k - 1) + 1 = k /\ k \in Nat
  OBVIOUS

\* One more line of a hunk is applied.
LEMMA TagsApplied ==
  ASSUME NEW h \in Tags!Hunks, NEW first \in Seq(TagLines \cup {None}), NEW offset \in Int,
         NEW k \in 1..Len(h.body), NEW was, TagsHolds(h, first, offset, k - 1, was)
  PROVE  TagsHolds(h, first, offset, k, Tags!Applied(h, offset, k, was))
  <1> DEFINE m    == Len(h.body)
             sign == h.body[k][1]
             line == h.body[k][2]
             Old  == Tags!TextOf(h, {"-", " "})
             New  == Tags!TextOf(h, {"+", " "})
             o    == Tags!Before(h, k, {"-", " "})
             w    == Tags!Before(h, k, {"+", " "})
             o1   == Tags!Before(h, k + 1, {"-", " "})
             w1   == Tags!Before(h, k + 1, {"+", " "})
             p    == h.old + offset
             i    == Tags!LineOf(h, k) + offset
             list == was.list
             S    == TagLines \cup {None}
             becomes == Tags!Applied(h, offset, k, was)
             beyond == Tags!Beyond(list, i)
             found  == ~beyond /\ Tags!Matches(list, i, sign, line)
  <1>1. /\ h.old \in Nat /\ h.new \in Nat /\ m \in Nat /\ DOMAIN h.body = 1..m
        /\ sign \in {"-", "+", " "} /\ line \in TagLines /\ line \in S /\ line # None
    BY TagsHunk, TagsAssumption
  <1>2. k \in 1..m + 1 /\ (k - 1) + 1 = k /\ k \in Nat
    BY <1>1, TagsNumbers
  <1>3. /\ o \in Nat /\ w \in Nat
        /\ o1 = IF sign \in {"-", " "} THEN o + 1 ELSE o
        /\ w1 = IF sign \in {"+", " "} THEN w + 1 ELSE w
    BY <1>1, <1>2, TagsCount
  <1>4. /\ sign \in {"-", " "} => Old[o + 1] = line
        /\ sign \in {"+", " "} => New[w + 1] = line
    BY <1>1, TagsText
  <1>5. i \in Int /\ p \in Int /\ (h.old = h.new => i = p + w)
    <2>1. Tags!LineOf(h, k) = (IF sign = "-" THEN h.old ELSE h.new) + w
      BY DEF Tags!LineOf
    <2>2. i = Tags!LineOf(h, k) + offset /\ p = h.old + offset
      OBVIOUS
    <2>3. w \in Nat /\ h.old \in Nat /\ h.new \in Nat
      BY <1>1, <1>3
    <2> HIDE DEF i, p, w, sign
    <2>4. Tags!LineOf(h, k) \in Int /\ (h.old = h.new => Tags!LineOf(h, k) = h.old + w)
      BY <2>1, <2>3
    <2>5. PICK l \in Int : l = Tags!LineOf(h, k)
      BY <2>4
    <2>6. i = l + offset /\ (h.old = h.new => l = h.old + w)
      BY <2>2, <2>4, <2>5
    <2>7. offset \in Int
      OBVIOUS
    <2>8. i \in Int /\ p \in Int
      BY <2>2, <2>3, <2>5, <2>6, <2>7, SMTT(30)
    <2>9. h.old = h.new => i = p + w
      BY <2>2, <2>3, <2>6, <2>7, SMTT(30)
    <2>10. QED
      BY <2>8, <2>9
  <1>6. /\ was \in [list : Seq(S), ok : BOOLEAN, raised : BOOLEAN]
        /\ was.ok /\ ~was.raised => TagsOneNone(list)
        /\ was.ok /\ ~was.raised /\ h.old = h.new => TagsShape(first, Old, New, p, o, w, list)
    BY <1>2 DEF TagsHolds
  <1>7. list \in Seq(S) /\ was.ok \in BOOLEAN /\ was.raised \in BOOLEAN /\ first \in Seq(S)
    BY <1>6
  <1>8. becomes = IF was.raised THEN was
                  ELSE IF sign = "+" THEN [was EXCEPT !.list = Tags!insert(list, i, line)]
                  ELSE IF sign = " " \/ (~beyond /\ ~found) THEN [was EXCEPT !.ok = was.ok /\ found]
                  ELSE IF Tags!PopRaises(list, i) THEN [was EXCEPT !.raised = TRUE]
                  ELSE [list |-> Tags!pop(list, i), ok |-> was.ok /\ found, raised |-> FALSE]
    BY DEF Tags!Applied
  <1>9. /\ becomes \in [list : Seq(S), ok : BOOLEAN, raised : BOOLEAN]
        /\ becomes.ok /\ ~becomes.raised => TagsOneNone(becomes.list)
        /\ becomes.ok /\ ~becomes.raised /\ h.old = h.new =>
              TagsShape(first, Old, New, p, o1, w1, becomes.list)
        => TagsHolds(h, first, offset, k, becomes)
    <2> HIDE DEF becomes
    <2>1. QED
      BY DEF TagsHolds
  <1>10. found => i >= 1 /\ i < Len(list) /\ list[i + 1] = line
    <2>1. found => ~(i <= 0 \/ i >= Len(list)) /\ list[i + 1] = line
      BY DEF Tags!Beyond, Tags!Matches, Tags!Item
    <2>2. Len(list) \in Nat
      BY <1>7
    <2>3. i \in Int
      BY <1>5
    <2> HIDE DEF found, i, list, line
    <2>4. ~(i <= 0 \/ i >= Len(list)) => i >= 1 /\ i < Len(list)
      BY <2>2, <2>3
    <2>5. QED
      BY <2>1, <2>4
  <1> HIDE DEF m, sign, line, Old, New, o, w, o1, w1, p, i, list, S, becomes, beyond, found
  <1>11. CASE was.raised
    <2>1. becomes = was
      BY <1>8, <1>11
    <2>2. becomes \in [list : Seq(S), ok : BOOLEAN, raised : BOOLEAN] /\ becomes.raised
      BY <1>6, <1>11, <2>1
    <2>3. ~(becomes.ok /\ ~becomes.raised)
      BY <2>2
    <2>4. QED
      BY <1>9, <2>2, <2>3 DEF becomes
  <1>12. CASE ~was.raised /\ sign = "+"
    <2> DEFINE new == Tags!insert(list, i, line)
    <2>1. PICK a \in 1..Len(list) + 1 :
             /\ new \in Seq(S) /\ Len(new) = Len(list) + 1
             /\ i >= 0 => a = IF i > Len(list) THEN Len(list) + 1 ELSE i + 1
             /\ new[a] = line
             /\ \A q \in 1..Len(list) : q < a => new[q] = list[q]
             /\ \A q \in 1..Len(list) : q >= a => new[q + 1] = list[q]
      <3>1. list \in Seq(S) /\ i \in Int /\ line \in S
        BY <1>1, <1>5, <1>7
      <3>2. PICK a \in 1..Len(list) + 1 :
               /\ i >= 0 => a = IF i > Len(list) THEN Len(list) + 1 ELSE i + 1
               /\ TagsPut(S, list, a, line, new)
        BY <3>1, TagsInsert, Zenon
      <3>3. QED
        BY <3>2 DEF TagsPut
    <2>2. ASSUME TagsOneNone(list) PROVE TagsOneNone(new)
      BY <1>1, <1>5, <1>7, <2>2, TagsNoneInsert DEF S
    <2> HIDE DEF new
    <2>3. becomes = [was EXCEPT !.list = new]
      BY <1>8, <1>12 DEF new
    <2>4. becomes \in [list : Seq(S), ok : BOOLEAN, raised : BOOLEAN]
          /\ becomes.list = new /\ becomes.ok = was.ok /\ becomes.raised = was.raised
      BY <1>6, <2>1, <2>3
    <2>5. ASSUME h.old = h.new, TagsShape(first, Old, New, p, o, w, list), TagsOneNone(list)
          PROVE  TagsShape(first, Old, New, p, o1, w1, new)
      <3>1. o1 = o /\ w1 = w + 1 /\ New[w + 1] = line /\ i = p + w
        BY <1>3, <1>4, <1>5, <1>12, <2>5
      <3>2. Len(list) >= 1
        BY <1>7, <2>5 DEF TagsOneNone
      <3>3. TagsShape(first, Old, New, p, o, w + 1, new)
        <4>1. /\ p + w >= 0 => a = IF p + w > Len(list) THEN Len(list) + 1 ELSE (p + w) + 1
              /\ new[a] = New[w + 1] /\ new[a] # None
          BY <1>1, <2>1, <3>1
        <4>2. p \in Int /\ o \in Nat /\ w \in Nat /\ list \in Seq(S) /\ first \in Seq(S)
          BY <1>3, <1>5, <1>7
        <4>3. /\ Len(new) = Len(list) + 1
              /\ \A q \in 1..Len(list) : q < a => new[q] = list[q]
              /\ \A q \in 1..Len(list) : q >= a => new[q + 1] = list[q]
          BY <2>1
        <4>4. TagsShape(first, Old, New, p, o, w, list)
          BY <2>5
        <4>5. QED
          BY <3>2, <4>1, <4>2, <4>3, <4>4, TagsShapeInsert
      <3>4. QED
        BY <3>1, <3>3
    <2>6. becomes.ok /\ ~becomes.raised => TagsOneNone(becomes.list)
      BY <1>6, <2>2, <2>4
    <2>7. becomes.ok /\ ~becomes.raised /\ h.old = h.new =>
             TagsShape(first, Old, New, p, o1, w1, becomes.list)
      BY <1>6, <2>4, <2>5
    <2>8. QED
      BY <1>9, <2>4, <2>6, <2>7 DEF becomes
  <1>13. CASE ~was.raised /\ sign # "+" /\ (sign = " " \/ (~beyond /\ ~found))
    <2>1. becomes = [was EXCEPT !.ok = was.ok /\ found]
      BY <1>8, <1>13
    <2>2. found \in BOOLEAN
      BY DEF found
    <2>3. /\ becomes \in [list : Seq(S), ok : BOOLEAN, raised : BOOLEAN]
          /\ becomes.list = list /\ (becomes.ok => was.ok /\ found) /\ becomes.raised = was.raised
      BY <1>6, <2>1, <2>2 DEF list
    <2>4. ASSUME h.old = h.new, TagsShape(first, Old, New, p, o, w, list), found
          PROVE  TagsShape(first, Old, New, p, o1, w1, list)
      <3>1. sign = " "
        BY <1>13, <2>4
      <3>2. o1 = o + 1 /\ w1 = w + 1 /\ New[w + 1] = line /\ Old[o + 1] = line /\ i = p + w
        BY <1>3, <1>4, <1>5, <2>4, <3>1
      <3>3. p + w >= 1 /\ p + w < Len(list) /\ list[(p + w) + 1] = New[w + 1] /\ list[(p + w) + 1] = Old[o + 1]
        BY <1>10, <2>4, <3>2
      <3>4. TagsShape(first, Old, New, p, o + 1, w + 1, list)
        BY <1>3, <1>5, <1>7, <2>4, <3>3, TagsShapeKeep
      <3>5. QED
        BY <3>2, <3>4
    <2>5. becomes.ok /\ ~becomes.raised => TagsOneNone(becomes.list)
      BY <1>6, <2>3
    <2>6. becomes.ok /\ ~becomes.raised /\ h.old = h.new =>
             TagsShape(first, Old, New, p, o1, w1, becomes.list)
      BY <1>6, <2>3, <2>4
    <2>7. QED
      BY <1>9, <2>3, <2>5, <2>6 DEF becomes
  <1>14. CASE /\ ~was.raised /\ sign # "+" /\ ~(sign = " " \/ (~beyond /\ ~found))
              /\ Tags!PopRaises(list, i)
    <2>1. becomes = [was EXCEPT !.raised = TRUE]
      BY <1>8, <1>14
    <2>2. becomes \in [list : Seq(S), ok : BOOLEAN, raised : BOOLEAN] /\ becomes.raised
      BY <1>6, <2>1
    <2>3. ~(becomes.ok /\ ~becomes.raised)
      BY <2>2
    <2>4. QED
      BY <1>9, <2>2, <2>3 DEF becomes
  <1>15. CASE /\ ~was.raised /\ sign # "+" /\ ~(sign = " " \/ (~beyond /\ ~found))
              /\ ~Tags!PopRaises(list, i)
    <2> DEFINE new == Tags!pop(list, i)
    <2>1. new \in Seq(S)
      BY <1>5, <1>7, <1>15, TagsPop
    <2>2. ASSUME found, TagsOneNone(list) PROVE TagsOneNone(new)
      <3>1. i >= 1 /\ i < Len(list) /\ list[i + 1] = line
        BY <1>10, <2>2
      <3>2. i \in Nat /\ None \notin TagLines
        BY <1>5, <3>1, TagsAssumption
      <3>3. QED
        BY <1>1, <1>7, <2>2, <3>1, <3>2, TagsNonePop DEF S
    <2>3. ASSUME h.old = h.new, TagsShape(first, Old, New, p, o, w, list), found
          PROVE  TagsShape(first, Old, New, p, o1, w1, new)
      <3>1. sign = "-"
        BY <1>1, <1>15
      <3>2. o1 = o + 1 /\ w1 = w /\ Old[o + 1] = line /\ i = p + w
        BY <1>3, <1>4, <1>5, <2>3, <3>1
      <3>3. p + w >= 1 /\ p + w < Len(list) /\ list[(p + w) + 1] = Old[o + 1]
        BY <1>10, <2>3, <3>2
      <3>4. TagsShape(first, Old, New, p, o + 1, w, Tags!pop(list, p + w))
        BY <1>3, <1>5, <1>7, <2>3, <3>3, TagsShapePop
      <3>5. QED
        BY <3>2, <3>4
    <2> HIDE DEF new
    <2>4. becomes = [list |-> new, ok |-> was.ok /\ found, raised |-> FALSE]
      BY <1>8, <1>15 DEF new
    <2>5. found \in BOOLEAN
      BY DEF found
    <2>6. /\ becomes \in [list : Seq(S), ok : BOOLEAN, raised : BOOLEAN]
          /\ becomes.list = new /\ (becomes.ok => was.ok /\ found) /\ ~becomes.raised
      BY <1>7, <2>1, <2>4, <2>5
    <2>7. becomes.ok /\ ~becomes.raised => TagsOneNone(becomes.list)
      BY <1>6, <1>15, <2>2, <2>6
    <2>8. becomes.ok /\ ~becomes.raised /\ h.old = h.new =>
             TagsShape(first, Old, New, p, o1, w1, becomes.list)
      BY <1>6, <1>15, <2>3, <2>6
    <2>9. QED
      BY <1>9, <2>6, <2>7, <2>8 DEF becomes
  <1>16. QED
    BY <1>7, <1>11, <1>12, <1>13, <1>14, <1>15 DEF becomes

\* The list that a hunk is applied to: the lines of the file behind a None.
LEMMA TagsFirst ==
  ASSUME NEW f \in Seq(TagLines)
  PROVE  LET first == <<None>> \o f IN
         /\ first \in Seq(TagLines \cup {None}) /\ Len(first) = Len(f) + 1 /\ first[1] = None
         /\ \A q \in 1..Len(f) : first[q + 1] = f[q]
  <1> DEFINE S     == TagLines \cup {None}
             none  == <<None>>
             first == none \o f
  <1>1. none \in Seq(S) /\ f \in Seq(S) /\ Len(none) = 1 /\ none[1] = None /\ Len(f) \in Nat
    OBVIOUS
  <1> HIDE DEF none, S
  <1>2. /\ first \in Seq(S) /\ Len(first) = Len(none) + Len(f)
        /\ \A q \in 1..Len(none) + Len(f) : first[q] = IF q <= Len(none) THEN none[q] ELSE f[q - Len(none)]
    BY <1>1, ConcatProperties
  <1> HIDE DEF first
  <1>3. Len(first) = Len(f) + 1
    BY <1>1, <1>2
  <1>4. ASSUME NEW q \in 1..Len(f) PROVE first[q + 1] = f[q]
    <2>1. q + 1 \in 1..Len(none) + Len(f) /\ ~(q + 1 <= Len(none)) /\ (q + 1) - Len(none) = q
      BY <1>1
    <2>2. QED
      BY <1>2, <2>1
  <1>5. first[1] = None
    <2>1. 1 \in 1..Len(none) + Len(f) /\ 1 <= Len(none)
      BY <1>1
    <2>2. QED
      BY <1>1, <1>2, <2>1
  <1>6. QED
    BY <1>2, <1>3, <1>4, <1>5 DEF first, none, S

\* A list that nothing has been done to.
LEMMA TagsBegins ==
  ASSUME NEW h \in Tags!Hunks, NEW f \in Seq(TagLines), NEW offset \in Int
  PROVE  /\ <<None>> \o f \in Seq(TagLines \cup {None})
         /\ TagsHolds(h, <<None>> \o f, offset, 0, [list |-> <<None>> \o f, ok |-> TRUE, raised |-> FALSE])
  <1> DEFINE S     == TagLines \cup {None}
             first == <<None>> \o f
             p     == h.old + offset
  <1>1. h.old \in Nat /\ p \in Int /\ Len(h.body) \in Nat
    <2>1. h.old \in Nat /\ Len(h.body) \in Nat
      BY TagsHunk
    <2>2. QED
      BY <2>1
  <1>2. /\ first \in Seq(S) /\ Len(first) = Len(f) + 1 /\ first[1] = None
        /\ \A q \in 1..Len(f) : first[q + 1] = f[q]
    BY TagsFirst
  <1>3. Len(f) \in Nat /\ \A q \in 1..Len(f) : f[q] \in TagLines
    OBVIOUS
  <1> HIDE DEF first, S, p
  <1>6. TagsOneNone(first)
    <2>1. 1 \in 1..Len(first)
      BY <1>2, <1>3
    <2>2. ASSUME NEW q \in 1..Len(first), q # 1 PROVE first[q] \in TagLines
      <3>1. q - 1 \in 1..Len(f) /\ (q - 1) + 1 = q
        BY <1>2, <1>3, <2>2
      <3>2. first[(q - 1) + 1] = f[q - 1]
        BY <1>2, <3>1
      <3>3. QED
        BY <1>3, <3>1, <3>2
    <2>3. QED
      BY <1>2, <2>1, <2>2 DEF TagsOneNone
  <1>7. ASSUME NEW Old, NEW New PROVE TagsShape(first, Old, New, p, 0, 0, first)
    <2>1. Len(first) \in Nat
      BY <1>2, <1>3
    <2>2. CASE p >= 1 /\ p <= Len(first)
      <3>1. p + 0 <= Len(first) /\ Len(first) = (Len(first) - 0) + 0
        BY <1>1, <2>1, <2>2
      <3>2. \A q \in 1..Len(first) : (q - 0) + 0 = q
        BY <2>1
      <3>3. 1..0 = {}
        OBVIOUS
      <3>4. QED
        BY <2>2, <3>1, <3>2, <3>3 DEF TagsShape
    <2>3. CASE p > Len(first)
      <3>1. Len(first) = Len(first) + 0
        BY <2>1
      <3>2. QED
        BY <2>3, <3>1 DEF TagsShape
    <2>4. CASE ~(p >= 1)
      <3>1. p + 0 <= 0
        BY <1>1, <2>4
      <3>2. QED
        BY <3>1 DEF TagsShape
    <2>5. QED
      BY <1>1, <2>1, <2>2, <2>3, <2>4
  <1>8. \A signs : Tags!Before(h, 0 + 1, signs) = 0
    <2>1. 0 + 1 = 1
      OBVIOUS
    <2>2. QED
      BY <1>1, <2>1, TagsCount
  <1>9. QED
    <2> DEFINE was == [list |-> first, ok |-> TRUE, raised |-> FALSE]
    <2>1. was \in [list : Seq(S), ok : BOOLEAN, raised : BOOLEAN] /\ was.list = first
      BY <1>2
    <2> HIDE DEF was
    <2>2. TagsHolds(h, first, offset, 0, was)
      <3>1. TagsShape(first, Tags!TextOf(h, {"-", " "}), Tags!TextOf(h, {"+", " "}), h.old + offset,
                      Tags!Before(h, 0 + 1, {"-", " "}), Tags!Before(h, 0 + 1, {"+", " "}), first)
        <4>1. TagsShape(first, Tags!TextOf(h, {"-", " "}), Tags!TextOf(h, {"+", " "}), p, 0, 0, first)
          BY <1>7
        <4>2. /\ Tags!Before(h, 0 + 1, {"-", " "}) = 0
              /\ Tags!Before(h, 0 + 1, {"+", " "}) = 0
          BY <1>8
        <4>3. QED
          BY <4>1, <4>2 DEF p
      <3>2. TagsOneNone(was.list)
        BY <1>6, <2>1
      <3>3. was \in [list : Seq(TagLines \cup {None}), ok : BOOLEAN, raised : BOOLEAN]
        BY <2>1 DEF S
      <3>4. QED
        BY <2>1, <3>1, <3>2, <3>3 DEF TagsHolds
    <2>3. QED
      BY <1>2, <2>2 DEF was, first, S

\* The steps by which the first m lines of a hunk are applied.
TagsAreSteps(f, h, m, offset, start) ==
    /\ f = [k \in DOMAIN f |-> f[k]] /\ DOMAIN f = 0..m
    /\ \A k \in 0..m : f[k] = IF k = 0 THEN start ELSE Tags!Applied(h, offset, k, f[k - 1])

\* The steps of a hunk are a function: there is one for every number of its lines.
LEMMA TagsSteps ==
  ASSUME NEW h, NEW m \in Nat, NEW offset, NEW start
  PROVE  \E f : TagsAreSteps(f, h, m, offset, start)
  <1> DEFINE Step(k, was) == Tags!Applied(h, offset, k, was)
             Are(f, n) == f = [k \in 0..n |-> IF k = 0 THEN start ELSE Step(k, f[k - 1])]
             bad == {n \in Nat : ~ \E f : Are(f, n)}
  <1> HIDE DEF Step
  <1>1. bad = {}
    <2> SUFFICES ASSUME bad # {} PROVE FALSE
      OBVIOUS
    <2>1. bad \in SUBSET Nat
      OBVIOUS
    <2>2. PICK n \in bad : \A k \in bad : n <= k
      <3> HIDE DEF bad
      <3>1. QED
        BY <2>1, LeastExists
    <2>3. n \in Nat /\ ~ \E f : Are(f, n)
      <3> HIDE DEF Are
      <3>1. QED
        OBVIOUS
    <2>4. \A k \in Nat : (\E f : Are(f, k)) \/ n <= k
      <3> HIDE DEF Are
      <3>1. QED
        BY <2>2
    <2> HIDE DEF bad
    <2>5. CASE n = 0
      <3> DEFINE f == [k \in 0..0 |-> start]
      <3>1. Are(f, 0)
        OBVIOUS
      <3>2. QED
        BY <2>3, <2>5, <3>1
    <2>6. CASE n # 0
      <3>1. n - 1 \in Nat /\ ~(n <= n - 1)
        BY <2>3, <2>6
      <3>2. PICK f : Are(f, n - 1)
        BY <2>4, <3>1
      <3> DEFINE last == Step(n, f[n - 1])
                 g == [k \in 0..n |-> IF k = n THEN last ELSE f[k]]
      <3>3. \A k \in 0..n - 1 : f[k] = IF k = 0 THEN start ELSE Step(k, f[k - 1])
        BY <3>2
      <3>4. ASSUME NEW k \in 0..n PROVE g[k] = IF k = 0 THEN start ELSE Step(k, g[k - 1])
        <4>1. n - 1 \in 0..n /\ n - 1 # n /\ g[n - 1] = f[n - 1]
          BY <2>3, <3>1
        <4>2. CASE k = n
          BY <2>6, <4>1, <4>2
        <4>3. CASE k # n
          <5>1. k \in 0..n - 1 /\ g[k] = f[k]
            BY <2>3, <4>3
          <5>2. k # 0 => k - 1 \in 0..n /\ k - 1 # n /\ g[k - 1] = f[k - 1]
            BY <2>3, <5>1
          <5>3. QED
            BY <3>3, <5>1, <5>2
        <4>4. QED
          BY <4>2, <4>3
      <3>5. g = [k \in 0..n |-> g[k]]
        OBVIOUS
      <3> HIDE DEF g
      <3>6. Are(g, n)
        BY <3>4, <3>5
      <3>7. QED
        BY <2>3, <3>6
    <2>7. QED
      BY <2>5, <2>6
  <1>2. \E f : Are(f, m)
    BY <1>1
  <1>3. PICK f : Are(f, m)
    BY <1>2
  <1>4. f = [k \in DOMAIN f |-> f[k]] /\ DOMAIN f = 0..m
    BY <1>3
  <1>5. \A k \in 0..m : f[k] = IF k = 0 THEN start ELSE Step(k, f[k - 1])
    BY <1>3
  <1>6. QED
    BY <1>4, <1>5 DEF Step, TagsAreSteps

\* What a hunk does at an offset.
LEMMA TagsApply ==
  ASSUME NEW h \in Tags!Hunks, NEW f \in Seq(TagLines), NEW offset \in Int
  PROVE  TagsHolds(h, <<None>> \o f, offset, Len(h.body), Tags!apply(h, <<None>> \o f, offset))
  <1> DEFINE first == <<None>> \o f
             m     == Len(h.body)
             start == [list |-> first, ok |-> TRUE, raised |-> FALSE]
             Step(k, was) == Tags!Applied(h, offset, k, was)
             step  == CHOOSE g : g = [k \in 0..m |-> IF k = 0 THEN start ELSE Step(k, g[k - 1])]
             Holds(k, was) == TagsHolds(h, first, offset, k, was)
  <1>1. m \in Nat
    BY TagsHunk
  <1>2. first \in Seq(TagLines \cup {None}) /\ Holds(0, start)
    BY TagsBegins
  <1>3. Tags!apply(h, first, offset) = step[m]
    BY DEF Tags!apply
  <1>4. step = [k \in 0..m |-> IF k = 0 THEN start ELSE Step(k, step[k - 1])]
    <2>1. \E g : g = [k \in 0..m |-> IF k = 0 THEN start ELSE Step(k, g[k - 1])]
      <3> HIDE DEF m, start
      <3>1. PICK g : TagsAreSteps(g, h, m, offset, start)
        BY <1>1, TagsSteps
      <3>2. /\ g = [k \in DOMAIN g |-> g[k]] /\ DOMAIN g = 0..m
            /\ \A k \in 0..m : g[k] = IF k = 0 THEN start ELSE Step(k, g[k - 1])
        BY <3>1 DEF TagsAreSteps
      <3> HIDE DEF Step
      <3>3. g = [k \in 0..m |-> IF k = 0 THEN start ELSE Step(k, g[k - 1])]
        BY <3>2
      <3>4. QED
        BY <3>3
    <2> HIDE DEF Step, start, m
    <2>2. QED
      BY <2>1
  <1>5. ASSUME NEW k \in 1..m, NEW was, Holds(k - 1, was) PROVE Holds(k, Step(k, was))
    <2> HIDE DEF first
    <2>1. QED
      BY <1>2, <1>5, TagsApplied
  <1> HIDE DEF step, Step, start, first, m
  <1>6. step[0] = start /\ \A k \in 1..m : step[k] = Step(k, step[k - 1])
    <2>1. 0 \in 0..m /\ \A k \in 1..m : k \in 0..m /\ k # 0
      BY <1>1
    <2>2. QED
      BY <1>4, <2>1
  <1> HIDE DEF Holds
  <1> DEFINE bad == {k \in 0..m : ~Holds(k, step[k])}
  <1>7. bad = {}
    <2> SUFFICES ASSUME bad # {} PROVE FALSE
      OBVIOUS
    <2>1. bad \in SUBSET Nat
      OBVIOUS
    <2>2. PICK n \in bad : \A k \in bad : n <= k
      <3> HIDE DEF bad
      <3>1. QED
        BY <2>1, LeastExists
    <2>3. n \in 0..m /\ ~Holds(n, step[n])
      OBVIOUS
    <2>4. n # 0
      BY <1>2, <1>6, <2>3
    <2>5. n \in 1..m /\ n - 1 \in 0..m /\ ~(n <= n - 1)
      BY <1>1, <2>3, <2>4
    <2>6. Holds(n - 1, step[n - 1])
      BY <2>2, <2>5
    <2>7. Holds(n, step[n])
      BY <1>5, <1>6, <2>5, <2>6
    <2>8. QED
      BY <2>3, <2>7
  <1>8. m \in 0..m
    BY <1>1
  <1>9. Holds(m, step[m])
    BY <1>7, <1>8
  <1>10. QED
    BY <1>3, <1>9 DEF Holds, m, first

\* What is accepted was done at one of the offsets.
LEMMA TagsOffset ==
  ASSUME NEW h, NEW list, LET got == Tags!detect_offset(h, list) IN got.ok \/ got.raised
  PROVE  \E offset \in -4..3 : Tags!detect_offset(h, list) = Tags!apply(h, list, offset)
  <1> DEFINE At(o)  == Tags!apply(h, list, o)
             tried == [o \in -4..3 |-> At(o)]
             good  == {o \in -4..3 : tried[o].ok \/ tried[o].raised}
             up    == {n \in 0..7 : n - 4 \in good}
  <1>1. Tags!detect_offset(h, list) = IF good = {} THEN tried[0]
                                     ELSE tried[CHOOSE o \in good : \A p \in good : o <= p]
    BY DEF Tags!detect_offset
  <1> HIDE DEF At
  <1>2. CASE good = {}
    <2>1. 0 \in -4..3
      OBVIOUS
    <2>2. QED
      BY <1>1, <1>2, <2>1 DEF At
  <1>3. CASE good # {}
    <2>1. good \subseteq -4..3
      OBVIOUS
    <2> HIDE DEF good
    <2>2. up \in SUBSET Nat
      OBVIOUS
    <2>3. up # {}
      <3>1. PICK o \in good : TRUE
        BY <1>3
      <3>2. o + 4 \in 0..7 /\ (o + 4) - 4 = o
        BY <2>1
      <3>3. o + 4 \in up
        BY <3>2
      <3>4. QED
        BY <3>3
    <2>4. PICK n \in up : \A k \in up : n <= k
      <3> HIDE DEF up
      <3>1. QED
        BY <2>2, <2>3, LeastExists
    <2>5. n \in 0..7 /\ n - 4 \in good
      OBVIOUS
    <2>6. ASSUME NEW o \in good PROVE n - 4 <= o
      <3>1. o \in -4..3 /\ o + 4 \in 0..7 /\ (o + 4) - 4 = o
        BY <2>1
      <3>2. o + 4 \in up
        BY <3>1
      <3>3. n <= o + 4
        BY <2>4, <3>2
      <3>4. QED
        BY <2>5, <3>1, <3>3
    <2>7. (CHOOSE o \in good : \A p \in good : o <= p) \in good
      <3>1. \E o \in good : \A p \in good : o <= p
        BY <2>5, <2>6
      <3>2. QED
        BY <3>1
    <2>8. PICK o \in -4..3 : Tags!detect_offset(h, list) = tried[o]
      BY <1>1, <1>3, <2>1, <2>7
    <2>9. QED
      BY <2>8 DEF At
  <1>4. QED
    BY <1>2, <1>3

\* A sequence has three pieces.
TagsPieces(t, a, b, c) ==
    /\ Len(t) = (Len(a) + Len(b)) + Len(c)
    /\ \A q \in 1..Len(a) : t[q] = a[q]
    /\ \A q \in 1..Len(b) : t[Len(a) + q] = b[q]
    /\ \A q \in 1..Len(c) : t[(Len(a) + Len(b)) + q] = c[q]

\* A sequence of three pieces is their concatenation.
LEMMA TagsThree ==
  ASSUME NEW S, NEW a \in Seq(S), NEW b \in Seq(S), NEW c \in Seq(S), NEW t \in Seq(S),
         TagsPieces(t, a, b, c)
  PROVE  t = a \o b \o c
  <1> DEFINE x  == Len(a)
             y  == Len(b)
             z  == Len(c)
             ab == a \o b
             all == ab \o c
  <1>1. x \in Nat /\ y \in Nat /\ z \in Nat /\ Len(t) = (x + y) + z
    BY DEF TagsPieces
  <1>2. /\ ab \in Seq(S) /\ Len(ab) = x + y
        /\ \A q \in 1..x + y : ab[q] = IF q <= x THEN a[q] ELSE b[q - x]
    BY ConcatProperties
  <1> HIDE DEF ab
  <1>3. /\ all \in Seq(S) /\ Len(all) = Len(ab) + z
        /\ \A q \in 1..Len(ab) + z : all[q] = IF q <= Len(ab) THEN ab[q] ELSE c[q - Len(ab)]
    <2>1. ab \in Seq(S) /\ c \in Seq(S)
      BY <1>2
    <2>2. QED
      BY <2>1, ConcatProperties, SMTT(60)
  <1>4. /\ \A q \in 1..x : t[q] = a[q]
        /\ \A q \in 1..y : t[x + q] = b[q]
        /\ \A q \in 1..z : t[(x + y) + q] = c[q]
    BY DEF TagsPieces
  <1> HIDE DEF all, x, y, z
  <1>5. Len(all) = (x + y) + z
    BY <1>2, <1>3
  <1>6. ASSUME NEW q \in 1..(x + y) + z PROVE t[q] = all[q]
    <2>1. all[q] = IF q <= x + y THEN ab[q] ELSE c[q - (x + y)]
      BY <1>2, <1>3
    <2>2. CASE q <= x
      <3>1. q \in 1..x /\ q \in 1..x + y /\ q <= x + y
        BY <1>1, <2>2
      <3>2. QED
        BY <1>2, <1>4, <2>1, <2>2, <3>1
    <2>3. CASE ~(q <= x) /\ q <= x + y
      <3>1. PICK r \in 1..y : r = q - x /\ x + r = q
        BY <1>1, <2>3
      <3>2. q \in 1..x + y
        BY <1>1, <2>3
      <3>3. all[q] = b[r]
        BY <1>2, <2>1, <2>3, <3>1, <3>2
      <3>4. t[x + r] = b[r]
        BY <1>4
      <3>5. QED
        BY <3>1, <3>3, <3>4
    <2>4. CASE ~(q <= x) /\ ~(q <= x + y)
      <3>1. PICK r \in 1..z : r = q - (x + y) /\ (x + y) + r = q
        BY <1>1, <2>4
      <3>2. all[q] = c[r]
        BY <2>1, <2>4, <3>1
      <3>3. t[(x + y) + r] = c[r]
        BY <1>4
      <3>4. QED
        BY <3>1, <3>2, <3>3
    <2>5. QED
      BY <2>2, <2>3, <2>4
  <1>7. t = all
    <2>1. all \in Seq(S) /\ t \in Seq(S) /\ Len(t) = Len(all)
      BY <1>1, <1>3, <1>5
    <2>2. \A q \in 1..Len(t) : t[q] = all[q]
      BY <1>1, <1>6
    <2>3. QED
      BY <2>1, <2>2, SeqEqual
  <1>8. QED
    BY <1>7 DEF all, ab

\* The lines of a piece of a file.
LEMMA TagsPiece ==
  ASSUME NEW S, NEW f \in Seq(S), NEW a \in Int, NEW b \in Int, a >= 1, b <= Len(f)
  PROVE  /\ SubSeq(f, a, b) \in Seq(S)
         /\ Len(SubSeq(f, a, b)) = IF a <= b THEN (b - a) + 1 ELSE 0
         /\ \A q \in 1..Len(SubSeq(f, a, b)) : SubSeq(f, a, b)[q] = f[(a - 1) + q]
  <1>1. \A i \in a..b : f[i] \in S
    <2>1. ASSUME NEW i \in a..b PROVE f[i] \in S
      <3>1. i \in 1..Len(f)
        OBVIOUS
      <3>2. QED
        BY <3>1
    <2>2. QED
      BY <2>1
  <1> DEFINE s == SubSeq(f, a, b)
  <1>2. /\ s \in Seq(S) /\ Len(s) = IF a <= b THEN b - a + 1 ELSE 0
        /\ \A i \in 1..b - a + 1 : s[i] = f[a + i - 1]
    BY <1>1, SubSeqProperties
  <1> HIDE DEF s
  <1>3. \A q \in 1..Len(s) : s[q] = f[(a - 1) + q]
    <2>1. ASSUME NEW q \in 1..Len(s) PROVE s[q] = f[(a - 1) + q]
      <3>1. q \in 1..b - a + 1 /\ (a - 1) + q = a + q - 1
        BY <1>2
      <3>2. QED
        BY <1>2, <3>1
    <2>2. QED
      BY <2>1
  <1>4. QED
    BY <1>2, <1>3 DEF s

\* Where the lines behind a hunk are, before and after it.
LEMMA TagsPlaces ==
  ASSUME NEW F \in Nat, NEW p \in Int, NEW o \in Nat, NEW w \in Nat, NEW n \in Nat,
         p >= 1, p + o <= F + 1, n = ((F + 1) - o) + w
  PROVE  /\ \A q \in 1..p - 1 : q + 1 \in 1..p /\ q \in 1..F /\ q \in 1..n - 1
         /\ \A q \in 1..w : (p - 1) + q \in 1..n - 1 /\ ((p - 1) + q) + 1 = p + q
         /\ \A q \in 1..((F - p) - o) + 1 :
               /\ ((p + o) - 1) + q \in 1..F
               /\ ((p - 1) + w) + q \in 1..n - 1
               /\ (((p - 1) + w) + q) + 1 = (((((p + o) - 1) + q) + 1) - o) + w
         /\ n - 1 = ((p - 1) + w) + (((F - p) - o) + 1)
  <1>1. ASSUME NEW q \in 1..p - 1 PROVE q + 1 \in 1..p /\ q \in 1..F /\ q \in 1..n - 1
    OBVIOUS
  <1>2. ASSUME NEW q \in 1..w PROVE (p - 1) + q \in 1..n - 1 /\ ((p - 1) + q) + 1 = p + q
    OBVIOUS
  <1>3. ASSUME NEW q \in 1..((F - p) - o) + 1
        PROVE  /\ ((p + o) - 1) + q \in 1..F
               /\ ((p - 1) + w) + q \in 1..n - 1
               /\ (((p - 1) + w) + q) + 1 = (((((p + o) - 1) + q) + 1) - o) + w
    OBVIOUS
  <1>4. n - 1 = ((p - 1) + w) + (((F - p) - o) + 1)
    OBVIOUS
  <1>5. QED
    BY <1>1, <1>2, <1>3, <1>4

\* What is behind the first k lines of a file.
LEMMA TagsTail ==
  ASSUME NEW S, NEW f \in Seq(S), NEW k \in Nat, k <= Len(f)
  PROVE  LET t == SubSeq(f, k + 1, Len(f)) IN
         /\ t \in Seq(S) /\ Len(t) = Len(f) - k
         /\ \A q \in 1..Len(t) : t[q] = f[k + q]
  <1>0. k + 1 \in Int /\ Len(f) \in Int
    OBVIOUS
  <1>1. PICK a \in Int : a = k + 1
    BY <1>0, Zenon
  <1>2. a >= 1 /\ Len(f) <= Len(f)
    BY <1>0, <1>1
  <1>3. /\ SubSeq(f, a, Len(f)) \in Seq(S)
        /\ Len(SubSeq(f, a, Len(f))) = IF a <= Len(f) THEN (Len(f) - a) + 1 ELSE 0
        /\ \A q \in 1..Len(SubSeq(f, a, Len(f))) : SubSeq(f, a, Len(f))[q] = f[(a - 1) + q]
    BY <1>0, <1>2, TagsPiece
  <1>4. a - 1 = k /\ Len(f) - k = IF a <= Len(f) THEN (Len(f) - a) + 1 ELSE 0
    BY <1>0, <1>1
  <1>5. QED
    BY <1>1, <1>3, <1>4

\* A function on 1..n is a sequence of n entries.
LEMMA TagsSequence ==
  ASSUME NEW n \in Nat, NEW S, NEW w \in [1..n -> S]
  PROVE  w \in Seq(S) /\ Len(w) = n
  OBVIOUS

\* A list in which None is first, and all else are lines of a file.
TagsOnlyFirst(list) ==
    list # <<>> /\ list[1] = None /\ \A q \in 1..Len(list) : q # 1 => list[q] \in TagLines

\* The lines behind None are those of f, with Old replaced by New from p.
TagsReplaced(f, Old, New, p, list) ==
    /\ p > 0 /\ p + Len(Old) - 1 <= Len(f)
    /\ SubSeq(f, p, p + Len(Old) - 1) = Old
    /\ Tail(list) = SubSeq(f, 1, p - 1) \o New \o SubSeq(f, p + Len(Old), Len(f))

\* What is left of a hunk that was accepted: the lines before its place, its new
\* lines, and the lines after its old ones.
LEMMA TagsAccepted ==
  ASSUME NEW f \in Seq(TagLines), NEW p \in Int, NEW o \in Nat, NEW w \in Nat, o >= 1,
         NEW T, NEW Old \in [1..o -> T], NEW New \in [1..w -> T],
         NEW list \in Seq(TagLines \cup {None}), TagsOnlyFirst(list),
         TagsShape(<<None>> \o f, Old, New, p, o, w, list)
  PROVE  TagsReplaced(f, Old, New, p, list)
  <1> DEFINE F     == Len(f)
             n     == Len(list)
             first == <<None>> \o f
             tail  == Tail(list)
             a     == SubSeq(f, 1, p - 1)
             c     == SubSeq(f, p + o, F)
             found == SubSeq(f, p, (p + o) - 1)
  <1>1. F \in Nat /\ n \in Nat /\ n >= 1
    BY DEF TagsOnlyFirst
  <1>2. /\ Len(first) = F + 1
        /\ \A q \in 1..F : first[q + 1] = f[q]
        /\ first[1] = None
    BY TagsFirst
  <1>3. /\ tail \in Seq(TagLines \cup {None}) /\ Len(tail) = n - 1
        /\ \A q \in 1..n - 1 : tail[q] = list[q + 1]
    BY HeadTailProperties DEF TagsOnlyFirst
  <1>4. list[1] = None /\ \A q \in 1..n : q # 1 => list[q] \in TagLines
    BY DEF TagsOnlyFirst
  <1>5. TagsShape(first, Old, New, p, o, w, list)
    OBVIOUS
  <1>6. Old \in [1..o -> T] /\ New \in [1..w -> T]
    OBVIOUS
  <1>7. f \in Seq(TagLines)
    OBVIOUS
  <1> HIDE DEF F, n, first, tail
  <1>8. /\ p >= 1 /\ p + o <= F + 1 /\ n = ((F + 1) - o) + w
        /\ \A q \in 1..p : list[q] = first[q]
        /\ \A q \in 1..w : list[p + q] = New[q]
        /\ \A q \in 1..F + 1 : q > p + o => list[(q - o) + w] = first[q]
        /\ \A q \in 1..o : first[p + q] = Old[q]
    <2>1. o # 0
      OBVIOUS
    <2>2. QED
      BY <1>2, <1>4, <1>5, <2>1 DEF TagsShape, n
  <1>9. Len(Old) = o
    BY <1>6, TagsSequence
  <1>10. found = Old
    <2>1. ASSUME NEW q \in 1..o PROVE Old[q] = f[(p - 1) + q]
      <3>1. PICK r \in 1..F : r = (p - 1) + q /\ r + 1 = p + q
        BY <1>1, <1>8
      <3>2. first[r + 1] = f[r]
        BY <1>2
      <3>3. first[p + q] = Old[q]
        BY <1>8
      <3>4. QED
        BY <3>1, <3>2, <3>3
    <2>2. ASSUME NEW q \in 1..o PROVE Old[q] \in TagLines
      <3>1. (p - 1) + q \in 1..F
        BY <1>1, <1>8
      <3>2. f[(p - 1) + q] \in TagLines
        BY <1>7, <3>1 DEF F
      <3>3. QED
        BY <2>1, <3>2
    <2>3. Old \in Seq(TagLines)
      <3>1. Old \in [1..o -> TagLines]
        BY <1>6, <2>2
      <3>2. QED
        BY <3>1, TagsSequence
    <2>4. p \in Int /\ (p + o) - 1 \in Int /\ p >= 1 /\ (p + o) - 1 <= F
      BY <1>1, <1>8
    <2>5. /\ found \in Seq(TagLines)
          /\ Len(found) = IF p <= (p + o) - 1 THEN (((p + o) - 1) - p) + 1 ELSE 0
          /\ \A q \in 1..Len(found) : found[q] = f[(p - 1) + q]
      <3> HIDE DEF found
      <3>1. QED
        BY <1>7, <2>4, TagsPiece DEF F, found
    <2> HIDE DEF found
    <2>6. Len(found) = o
      BY <2>5
    <2>7. \A q \in 1..Len(found) : found[q] = Old[q]
      BY <2>1, <2>5, <2>6
    <2>8. QED
      BY <1>9, <2>3, <2>5, <2>6, <2>7, SeqEqual
  <1>11. New \in Seq(TagLines) /\ Len(New) = w
    <2>1. ASSUME NEW q \in 1..w PROVE New[q] \in TagLines
      <3>1. p + q \in 1..n /\ p + q # 1
        BY <1>1, <1>8
      <3>2. QED
        BY <1>4, <1>8, <3>1
    <2>2. New \in [1..w -> TagLines]
      BY <1>6, <2>1
    <2>3. QED
      BY <2>2, TagsSequence
  <1>12. /\ a \in Seq(TagLines) /\ Len(a) = p - 1
         /\ \A q \in 1..p - 1 : a[q] = f[q]
    <2>1. 1 \in Int /\ p - 1 \in Int /\ 1 >= 1 /\ p - 1 <= F
      BY <1>1, <1>8
    <2>2. /\ a \in Seq(TagLines)
          /\ Len(a) = IF 1 <= p - 1 THEN ((p - 1) - 1) + 1 ELSE 0
          /\ \A q \in 1..Len(a) : a[q] = f[(1 - 1) + q]
      <3> HIDE DEF a
      <3>1. QED
        BY <1>7, <2>1, TagsPiece DEF F, a
    <2> HIDE DEF a
    <2>3. Len(a) = p - 1
      BY <1>8, <2>2
    <2>4. \A q \in 1..p - 1 : (1 - 1) + q = q
      OBVIOUS
    <2>5. QED
      BY <2>2, <2>3, <2>4
  <1>13. /\ c \in Seq(TagLines) /\ Len(c) = ((F - p) - o) + 1
         /\ \A q \in 1..Len(c) : c[q] = f[((p + o) - 1) + q]
    <2>1. PICK k \in Nat : k + 1 = p + o /\ k <= F
      <3>1. (p + o) - 1 \in Nat /\ ((p + o) - 1) + 1 = p + o /\ (p + o) - 1 <= F
        BY <1>1, <1>8
      <3>2. QED
        BY <3>1
    <2>2. /\ SubSeq(f, k + 1, Len(f)) \in Seq(TagLines) /\ Len(SubSeq(f, k + 1, Len(f))) = Len(f) - k
          /\ \A q \in 1..Len(SubSeq(f, k + 1, Len(f))) : SubSeq(f, k + 1, Len(f))[q] = f[k + q]
      BY <1>7, <2>1, TagsTail DEF F
    <2>3. k = (p + o) - 1 /\ F - k = ((F - p) - o) + 1
      BY <1>1, <2>1
    <2>4. QED
      BY <2>1, <2>2, <2>3 DEF F
  <1> HIDE DEF a, c
  <1>14. tail = a \o New \o c
    <2>1. tail \in Seq(TagLines)
      <3>1. ASSUME NEW q \in 1..n - 1 PROVE tail[q] \in TagLines
        <4>1. q + 1 \in 1..n /\ q + 1 # 1
          BY <1>1
        <4>2. QED
          BY <1>3, <1>4, <4>1
      <3>2. QED
        BY <1>3, <3>1
    <2>2. p >= 1 /\ p + o <= F + 1 /\ n = ((F + 1) - o) + w
      BY <1>8
    <2>3. /\ \A q \in 1..p - 1 : q + 1 \in 1..p /\ q \in 1..F /\ q \in 1..n - 1
          /\ \A q \in 1..w : (p - 1) + q \in 1..n - 1 /\ ((p - 1) + q) + 1 = p + q
          /\ \A q \in 1..((F - p) - o) + 1 :
                /\ ((p + o) - 1) + q \in 1..F
                /\ ((p - 1) + w) + q \in 1..n - 1
                /\ (((p - 1) + w) + q) + 1 = (((((p + o) - 1) + q) + 1) - o) + w
          /\ n - 1 = ((p - 1) + w) + (((F - p) - o) + 1)
      BY <1>1, <2>2, TagsPlaces
    <2>4. ASSUME NEW q \in 1..p - 1 PROVE tail[q] = a[q]
      <3>1. q + 1 \in 1..p /\ q \in 1..F /\ q \in 1..n - 1
        BY <2>3
      <3>2. tail[q] = list[q + 1] /\ list[q + 1] = first[q + 1] /\ first[q + 1] = f[q] /\ a[q] = f[q]
        BY <1>2, <1>3, <1>8, <1>12, <3>1
      <3>3. QED
        BY <3>2
    <2>5. ASSUME NEW q \in 1..w PROVE tail[(p - 1) + q] = New[q]
      <3>1. (p - 1) + q \in 1..n - 1 /\ ((p - 1) + q) + 1 = p + q
        BY <2>3
      <3>2. tail[(p - 1) + q] = list[((p - 1) + q) + 1]
        BY <1>3, <3>1
      <3>3. QED
        BY <1>8, <3>1, <3>2
    <2>6. ASSUME NEW q \in 1..((F - p) - o) + 1 PROVE tail[((p - 1) + w) + q] = c[q]
      <3>1. PICK s \in Int : s = ((p + o) - 1) + q
        BY <1>1
      <3>2. PICK r \in Int : r = ((p - 1) + w) + q
        BY <1>1
      <3>3. s \in 1..F /\ r \in 1..n - 1 /\ r + 1 = ((s + 1) - o) + w
        BY <2>3, <3>1, <3>2
      <3>4. s + 1 \in 1..F + 1 /\ s + 1 > p + o
        BY <1>1, <3>1, <3>3
      <3>5. tail[r] = list[r + 1]
        BY <1>3, <3>3
      <3>6. list[((s + 1) - o) + w] = first[s + 1]
        BY <1>8, <3>4
      <3>7. first[s + 1] = f[s]
        BY <1>2, <3>3
      <3>8. c[q] = f[s]
        BY <1>13, <3>1
      <3>9. QED
        BY <3>2, <3>3, <3>5, <3>6, <3>7, <3>8
    <2>7. Len(a) = p - 1 /\ Len(New) = w /\ Len(c) = ((F - p) - o) + 1
      BY <1>11, <1>12, <1>13
    <2>8. Len(tail) = (Len(a) + Len(New)) + Len(c)
      BY <1>3, <2>3, <2>7
    <2>9. \A q \in 1..Len(a) : tail[q] = a[q]
      BY <2>4, <2>7
    <2>10. \A q \in 1..Len(New) : tail[Len(a) + q] = New[q]
      BY <2>5, <2>7
    <2>11. \A q \in 1..Len(c) : tail[(Len(a) + Len(New)) + q] = c[q]
      BY <2>6, <2>7
    <2>12. a \in Seq(TagLines)
      BY <1>12
    <2>13. New \in Seq(TagLines)
      BY <1>11
    <2>14. c \in Seq(TagLines)
      BY <1>13
    <2>15. TagsPieces(tail, a, New, c)
      BY <2>8, <2>9, <2>10, <2>11 DEF TagsPieces
    <2>16. QED
      BY <2>1, <2>12, <2>13, <2>14, <2>15, TagsThree
  <1>15. p > 0 /\ p + o - 1 <= F /\ p + o - 1 = (p + o) - 1
    BY <1>1, <1>8
  <1>16. QED
    BY <1>9, <1>10, <1>14, <1>15 DEF a, c, tail, F, TagsReplaced

\* An accepted hunk leaves lines, and where both of its versions begin on the same
\* line and it has a line to find, they are what its property says.
LEMMA TagsPatch ==
  ASSUME NEW f \in Seq(TagLines), NEW h \in Tags!Hunks,
         NEW result, result = Tags!detect_offset(h, <<None>> \o f),
         result.ok, ~result.raised, result.list[1] = None
  PROVE  /\ Tail(result.list) \in Seq(TagLines)
         /\ h.old = h.new /\ Tags!TextOf(h, {"-", " "}) # <<>> =>
               \E p \in h.old - 4..h.old + 3 :
                  TagsReplaced(f, Tags!TextOf(h, {"-", " "}), Tags!TextOf(h, {"+", " "}), p, result.list)
  <1> DEFINE first == <<None>> \o f
             list  == result.list
             m     == Len(h.body)
             Old   == Tags!TextOf(h, {"-", " "})
             New   == Tags!TextOf(h, {"+", " "})
             o     == Tags!Before(h, m + 1, {"-", " "})
             w     == Tags!Before(h, m + 1, {"+", " "})
  <1>1. PICK offset \in -4..3 : result = Tags!apply(h, first, offset)
    <2>1. LET got == Tags!detect_offset(h, first) IN got.ok \/ got.raised
      OBVIOUS
    <2> HIDE DEF first
    <2>2. \E offset \in -4..3 : Tags!detect_offset(h, first) = Tags!apply(h, first, offset)
      BY <2>1, TagsOffset
    <2>3. QED
      BY <2>2 DEF first
  <1>2. offset \in Int
    OBVIOUS
  <1>3. TagsHolds(h, first, offset, m, result)
    BY <1>1, <1>2, TagsApply
  <1>4. /\ h.old \in Nat /\ m \in Nat /\ DOMAIN h.body = 1..m
    BY TagsHunk
  <1>5. o \in Nat /\ w \in Nat
    <2>1. m + 1 \in 1..m + 1
      BY <1>4
    <2>2. QED
      BY <1>4, <2>1, TagsCount
  <1>6. /\ DOMAIN Old = 1..o /\ Old = [q \in 1..o |-> Old[q]]
        /\ DOMAIN New = 1..w /\ New = [q \in 1..w |-> New[q]]
    BY <1>4, TagsText
  <1>7. result \in [list : Seq(TagLines \cup {None}), ok : BOOLEAN, raised : BOOLEAN] /\ TagsOneNone(list)
        /\ (h.old = h.new => TagsShape(first, Old, New, h.old + offset, o, w, list))
    BY <1>3 DEF TagsHolds
  <1>8. result.list[1] = None /\ f \in Seq(TagLines) /\ offset \in -4..3
    OBVIOUS
  <1> HIDE DEF first, Old, New, o, w, m, list
  <1>9. list \in Seq(TagLines \cup {None}) /\ list # <<>>
        /\ \A q \in 1..Len(list) : q # 1 => list[q] \in TagLines
    <2>1. list \in Seq(TagLines \cup {None})
      BY <1>7 DEF list
    <2>2. PICK e \in 1..Len(list) : list[e] = None /\ \A q \in 1..Len(list) : q # e => list[q] \in TagLines
      BY <1>7 DEF TagsOneNone
    <2>3. 1 \in 1..Len(list)
      BY <2>1, <2>2
    <2>4. e = 1
      BY <1>8, <2>2, <2>3, TagsAssumption DEF list
    <2>5. list # <<>>
      BY <2>3
    <2>6. QED
      BY <2>1, <2>2, <2>4, <2>5
  <1>10. Tail(list) \in Seq(TagLines)
    <2> DEFINE n    == Len(list)
               tail == Tail(list)
    <2>1. /\ tail \in Seq(TagLines \cup {None}) /\ Len(tail) = n - 1
          /\ \A q \in 1..n - 1 : tail[q] = list[q + 1]
      BY <1>9, HeadTailProperties
    <2>2. n \in Nat
      BY <1>9
    <2> HIDE DEF n, tail
    <2>3. ASSUME NEW q \in 1..n - 1 PROVE tail[q] \in TagLines
      <3>1. q + 1 \in 1..n /\ q + 1 # 1
        BY <2>2
      <3>2. QED
        BY <1>9, <2>1, <3>1 DEF n
    <2>4. tail \in Seq(TagLines)
      BY <2>1, <2>3
    <2>5. QED
      BY <2>4 DEF tail
  <1>11. ASSUME h.old = h.new, Old # <<>>
         PROVE  \E p \in h.old - 4..h.old + 3 : TagsReplaced(f, Old, New, p, list)
    <2>1. o >= 1
      <3>1. CASE o = 0
        <4>1. Old = <<>>
          BY <1>6, <3>1
        <4>2. QED
          BY <1>11, <4>1
      <3>2. QED
        BY <1>5, <3>1
    <2>2. PICK p \in Int : p = h.old + offset
      BY <1>2, <1>4
    <2>3. p \in h.old - 4..h.old + 3
      BY <1>4, <1>8, <2>2
    <2>4. TagsShape(<<None>> \o f, Old, New, p, o, w, list)
      BY <1>7, <1>11, <2>2 DEF first
    <2> DEFINE T == {Old[q] : q \in 1..o} \cup {New[q] : q \in 1..w}
    <2>5. Old \in [1..o -> T] /\ New \in [1..w -> T]
      BY <1>6
    <2> HIDE DEF T
    <2>6. list[1] = None
      BY <1>8 DEF list
    <2>7. TagsReplaced(f, Old, New, p, list)
      <3>1. o \in Nat
        BY <1>5
      <3>2. w \in Nat
        BY <1>5
      <3>3. Old \in [1..o -> T]
        BY <2>5
      <3>4. New \in [1..w -> T]
        BY <2>5
      <3>5. list \in Seq(TagLines \cup {None})
        BY <1>9
      <3>6. TagsOnlyFirst(list)
        BY <1>9, <2>6 DEF TagsOnlyFirst
      <3>7. QED
        BY <1>8, <2>1, <2>4, <3>1, <3>2, <3>3, <3>4, <3>5, <3>6, TagsAccepted
    <2>8. QED
      BY <2>3, <2>7
  <1>12. QED
    BY <1>10, <1>11 DEF Old, New, list

\* What is left of a file from d lines after the start of a span.
TagsRest(f, s, e, d, c) ==
    SubSeq(f, s + d, Len(f)) = SubSeq(SubSeq(f, s, e), c + 1, Len(SubSeq(f, s, e))) \o SubSeq(f, e + 1, Len(f))

\* What is left of a file from a place inside a span is the rest of the span and
\* what follows it.
LEMMA TagsSpan ==
  ASSUME NEW S, NEW f \in Seq(S), NEW s \in Nat, NEW e \in Nat, s >= 1, s <= e, e <= Len(f),
         NEW d \in Nat, NEW c \in Nat,
         c = IF d < (e - s) + 1 THEN d ELSE (e - s) + 1, d > (e - s) + 1 => e = Len(f)
  PROVE  TagsRest(f, s, e, d, c)
  <1> DEFINE L == Len(f)
             looked == SubSeq(f, s, e)
             x == SubSeq(looked, c + 1, Len(looked))
             y == SubSeq(f, e + 1, L)
             z == SubSeq(f, s + d, L)
  <1>1. L \in Nat /\ s \in Nat /\ e \in Nat /\ d \in Nat /\ c \in Nat /\ s >= 1 /\ s <= e /\ e <= L
        /\ c = (IF d < (e - s) + 1 THEN d ELSE (e - s) + 1) /\ (d > (e - s) + 1 => e = L)
    OBVIOUS
  <1>2. /\ looked \in Seq(S) /\ Len(looked) = (e - s) + 1
        /\ \A q \in 1..Len(looked) : looked[q] = f[(s - 1) + q]
    <2>1. s \in Int /\ e \in Int
      OBVIOUS
    <2>2. /\ looked \in Seq(S) /\ Len(looked) = IF s <= e THEN (e - s) + 1 ELSE 0
          /\ \A q \in 1..Len(looked) : looked[q] = f[(s - 1) + q]
      BY <2>1, TagsPiece
    <2>3. QED
      BY <2>2
  <1>3. /\ y \in Seq(S) /\ Len(y) = L - e
        /\ \A q \in 1..Len(y) : y[q] = f[e + q]
    BY TagsTail
  <1>4. /\ z \in Seq(S) /\ Len(z) = IF s + d <= L THEN (L - (s + d)) + 1 ELSE 0
        /\ \A q \in 1..Len(z) : z[q] = f[((s + d) - 1) + q]
    <2>0. s + d \in Int
      BY <1>1
    <2>1. PICK a \in Int : a = s + d
      BY <2>0, Zenon
    <2>2. a >= 1 /\ L \in Int /\ L <= Len(f)
      BY <1>1, <2>1
    <2>3. /\ SubSeq(f, a, L) \in Seq(S)
          /\ Len(SubSeq(f, a, L)) = IF a <= L THEN (L - a) + 1 ELSE 0
          /\ \A q \in 1..Len(SubSeq(f, a, L)) : SubSeq(f, a, L)[q] = f[(a - 1) + q]
      BY <2>2, TagsPiece
    <2> HIDE DEF L
    <2>4. QED
      BY <2>1, <2>3
  <1> HIDE DEF y, z, looked
  <1>5. /\ x \in Seq(S) /\ Len(x) = ((e - s) + 1) - c
        /\ \A q \in 1..Len(x) : x[q] = looked[c + q]
    <2>1. c <= Len(looked)
      BY <1>1, <1>2
    <2>2. /\ x \in Seq(S) /\ Len(x) = Len(looked) - c
          /\ \A q \in 1..Len(x) : x[q] = looked[c + q]
      BY <1>1, <1>2, <2>1, TagsTail
    <2>3. QED
      BY <1>2, <2>2
  <1> HIDE DEF x
  <1>6. /\ x \o y \in Seq(S) /\ Len(x \o y) = Len(x) + Len(y)
        /\ \A q \in 1..Len(x) + Len(y) : (x \o y)[q] = IF q <= Len(x) THEN x[q] ELSE y[q - Len(x)]
    <2>1. x \in Seq(S) /\ y \in Seq(S)
      BY <1>3, <1>5
    <2>2. QED
      BY <2>1, ConcatProperties
  <1> HIDE DEF L
  <1>7. Len(x) \in Nat /\ Len(y) \in Nat /\ Len(z) \in Nat
    BY <1>3, <1>4, <1>5
  <1>8. Len(z) = Len(x) + Len(y) /\ (Len(z) > 0 => c = d)
    <2>1. Len(x) = ((e - s) + 1) - c /\ Len(y) = L - e /\ Len(z) = IF s + d <= L THEN (L - (s + d)) + 1 ELSE 0
      BY <1>3, <1>4, <1>5
    <2>2. CASE d <= (e - s) + 1
      <3>1. c = d
        BY <1>1, <2>2
      <3>2. QED
        BY <1>1, <2>1, <2>2, <3>1
    <2>3. CASE d > (e - s) + 1
      <3>1. c = (e - s) + 1 /\ e = L
        BY <1>1, <2>3
      <3>2. QED
        BY <1>1, <2>1, <2>3, <3>1
    <2>4. QED
      BY <1>1, <2>2, <2>3
  <1>9. ASSUME NEW q \in 1..Len(z) PROVE z[q] = (x \o y)[q]
    <2>1. c = d /\ q \in 1..Len(x) + Len(y) /\ q \in Nat /\ q >= 1
      BY <1>7, <1>8
    <2>2. z[q] = f[((s + d) - 1) + q]
      BY <1>4
    <2>3. CASE q <= Len(x)
      <3>1. q \in 1..Len(x)
        BY <1>7, <2>1, <2>3
      <3>0. c + q \in Int
        BY <1>1, <2>1
      <3>2. PICK r \in Int : r = c + q
        BY <3>0, Zenon
      <3>3. Len(x) = ((e - s) + 1) - c /\ Len(looked) = (e - s) + 1
        BY <1>2, <1>5
      <3>4. r \in 1..Len(looked) /\ (s - 1) + r = ((s + d) - 1) + q
        BY <1>1, <2>1, <2>3, <3>2, <3>3
      <3>5. x[q] = looked[r] /\ looked[r] = f[(s - 1) + r]
        BY <1>2, <1>5, <3>1, <3>2, <3>4
      <3>6. QED
        BY <1>6, <2>1, <2>2, <2>3, <3>4, <3>5
    <2>4. CASE ~(q <= Len(x))
      <3>0. q - Len(x) \in Int
        BY <1>7, <2>1
      <3>1. PICK r \in Int : r = q - Len(x)
        BY <3>0, Zenon
      <3>2. r \in 1..Len(y)
        BY <1>7, <2>1, <2>4, <3>1
      <3>3. Len(x) = ((e - s) + 1) - c
        BY <1>5
      <3>4. e + r = ((s + d) - 1) + q
        BY <1>1, <2>1, <3>1, <3>3
      <3>5. y[r] = f[e + r]
        BY <1>3, <3>2
      <3>6. (x \o y)[q] = y[r]
        BY <1>6, <2>1, <2>4, <3>1
      <3>7. QED
        BY <2>2, <3>4, <3>5, <3>6
    <2>5. QED
      BY <2>3, <2>4
  <1>10. z = x \o y
    <2>1. z \in Seq(S) /\ Len(z) = Len(x \o y)
      BY <1>4, <1>6, <1>8
    <2>2. QED
      BY <1>6, <1>9, <2>1, SeqEqual
  <1>11. QED
    BY <1>10 DEF z, x, y, looked, L, TagsRest

\* A text is a sequence of lines.
LEMMA TagsAText ==
  ASSUME NEW n \in Nat, NEW t \in Tags!Texts(n)
  PROVE  t \in Seq(TagLines)
  <1>1. PICK m \in 0..n : t \in [1..m -> TagLines]
    BY DEF Tags!Texts, Tags!BoundedSeq, Tags!SeqOf
  <1>2. m \in Nat
    OBVIOUS
  <1>3. QED
    BY <1>1, <1>2, TagsSequence

\* At the start no tag has been accepted.
LEMMA TagsInit == Tags!Init => Tags!IInv
  <1> SUFFICES ASSUME Tags!Init PROVE Tags!IInv
    OBVIOUS
  <1>1. v1 \in Seq(TagLines)
    BY TagsAssumption, TagsAText DEF Tags!Init
  <1>2. v2 = {} /\ v3.tag = None
    BY DEF Tags!Init, Tags!Nothing
  <1>3. None # "code_patch" /\ None # "replace_span"
    BY TagsAssumption
  <1>4. Tags!TypeOK
    BY <1>1, <1>2 DEF Tags!TypeOK
  <1>5. Tags!HunkGoesWhereItMatches /\ Tags!SpanIsReplaced
    BY <1>2, <1>3 DEF Tags!HunkGoesWhereItMatches, Tags!SpanIsReplaced
  <1>6. QED
    BY <1>4, <1>5 DEF Tags!IInv

\* A tag that is not accepted, and a change by somebody else, leave nothing to judge.
LEMMA TagsNothing ==
  ASSUME v3' = Tags!Nothing
  PROVE  v3'.tag = None /\ Tags!HunkGoesWhereItMatches' /\ Tags!SpanIsReplaced'
  <1>1. v3'.tag = None
    BY DEF Tags!Nothing
  <1>2. v3'.tag # "code_patch" /\ v3'.tag # "replace_span"
    BY <1>1, TagsAssumption
  <1>3. QED
    BY <1>1, <1>2 DEF Tags!HunkGoesWhereItMatches, Tags!SpanIsReplaced

\* A fragment of the file is a sequence of lines.
LEMMA TagsSlice ==
  ASSUME NEW f \in Seq(TagLines), NEW start \in Nat, NEW end \in Int, start >= 0
  PROVE  Tags!Slice(f, start, end) \in Seq(TagLines)
  <1> DEFINE a == IF start = 0 THEN 1 ELSE start
             b == IF end < Len(f) THEN end ELSE Len(f)
  <1>1. a \in Int /\ b \in Int /\ a >= 1 /\ b <= Len(f)
    OBVIOUS
  <1> HIDE DEF a, b
  <1>2. SubSeq(f, a, b) \in Seq(TagLines)
    BY <1>1, TagsPiece
  <1>3. QED
    BY <1>2 DEF a, b, Tags!Slice

\* A patch.
LEMMA TagsPatchStep ==
  ASSUME Tags!IInv, NEW h \in Tags!Hunks, Tags!code_patch(h)
  PROVE  Tags!IInv'
  <1> DEFINE result == Tags!detect_offset(h, <<None>> \o v1)
  <1>1. v1 \in Seq(TagLines)
    BY DEF Tags!IInv, Tags!TypeOK
  <1>2. /\ result.ok /\ ~result.raised /\ result.list[1] = None
        /\ v1' = Tags!Saved(Tail(result.list), v1) /\ v2' = {}
    BY DEF Tags!code_patch
  <1>3. v3' = [Tags!Nothing EXCEPT !.tag = "code_patch", !.before = v1, !.hunk = h]
    BY DEF Tags!code_patch
  <1>4. v3'.tag = "code_patch" /\ v3'.before = v1 /\ v3'.hunk = h
    BY <1>3 DEF Tags!Nothing
  <1> HIDE DEF result
  <1>5. /\ v1' \in Seq(TagLines)
        /\ h.old = h.new /\ Tags!TextOf(h, {"-", " "}) # <<>> =>
              \E p \in h.old - 4..h.old + 3 :
                 TagsReplaced(v1, Tags!TextOf(h, {"-", " "}), Tags!TextOf(h, {"+", " "}), p, result.list)
    <2>1. /\ Tail(result.list) \in Seq(TagLines)
          /\ h.old = h.new /\ Tags!TextOf(h, {"-", " "}) # <<>> =>
                \E p \in h.old - 4..h.old + 3 :
                   TagsReplaced(v1, Tags!TextOf(h, {"-", " "}), Tags!TextOf(h, {"+", " "}), p, result.list)
      BY <1>1, <1>2, TagsPatch DEF result
    <2>2. v1' \in Seq(TagLines)
      BY <1>1, <1>2, <2>1 DEF Tags!Saved
    <2>3. QED
      BY <2>1, <2>2
  <1>6. Tags!HunkGoesWhereItMatches'
    BY <1>2, <1>4, <1>5 DEF Tags!HunkGoesWhereItMatches, TagsReplaced
  <1>7. Tags!SpanIsReplaced'
    BY <1>4 DEF Tags!SpanIsReplaced
  <1>8. Tags!TypeOK'
    BY <1>2, <1>4, <1>5 DEF Tags!TypeOK
  <1>9. QED
    BY <1>6, <1>7, <1>8 DEF Tags!IInv

\* What a replaced span leaves are lines.
LEMMA TagsCut ==
  ASSUME v1 \in Seq(TagLines), NEW start \in Nat, start > 0, NEW cut \in Int, NEW code \in Seq(TagLines)
  PROVE  Tags!apply_replace(start, cut, code) \in Seq(TagLines)
  <1> DEFINE head == Tags!Slice(v1, 1, start - 1)
             L    == Len(v1)
  <1>1. head \in Seq(TagLines) /\ L \in Int
    <2>1. 1 \in Nat /\ start - 1 \in Int /\ 1 >= 0
      OBVIOUS
    <2>2. QED
      BY <2>1, TagsSlice
  <1>2. Tags!apply_replace(start, cut, code) =
           IF cut > 0 THEN head \o code \o SubSeq(v1, start + cut, L)
           ELSE IF cut = 0 THEN head \o code ELSE head \o SubSeq(v1, start - cut, L)
    BY DEF Tags!apply_replace
  <1> HIDE DEF head
  <1>3. head \o code \in Seq(TagLines)
    BY <1>1, ConcatProperties
  <1>4. ASSUME NEW a \in Int, a >= 1 PROVE SubSeq(v1, a, L) \in Seq(TagLines)
    <2>1. L \in Int /\ L <= Len(v1)
      BY <1>1
    <2>2. QED
      BY <1>4, <2>1, TagsPiece
  <1> HIDE DEF L
  <1>5. CASE cut > 0
    <2>1. start + cut \in Int /\ start + cut >= 1
      BY <1>5
    <2>2. SubSeq(v1, start + cut, L) \in Seq(TagLines)
      BY <1>4, <2>1
    <2>3. head \o code \o SubSeq(v1, start + cut, L) \in Seq(TagLines)
      BY <1>3, <2>2, ConcatProperties
    <2>4. QED
      BY <1>2, <1>5, <2>3
  <1>6. CASE cut = 0
    BY <1>2, <1>3, <1>6
  <1>7. CASE cut < 0
    <2>1. start - cut \in Int /\ start - cut >= 1
      BY <1>7
    <2>2. SubSeq(v1, start - cut, L) \in Seq(TagLines)
      BY <1>4, <2>1
    <2>3. head \o SubSeq(v1, start - cut, L) \in Seq(TagLines)
      BY <1>1, <2>2, ConcatProperties
    <2>4. QED
      BY <1>2, <1>7, <2>3
  <1>8. QED
    BY <1>5, <1>6, <1>7

\* Two and two pieces are four pieces.
TagsAssociate(a, b, c, d) == (a \o b) \o (c \o d) = ((a \o b) \o c) \o d

\* Four pieces of a text.
LEMMA TagsFour ==
  ASSUME NEW S, NEW a \in Seq(S), NEW b \in Seq(S), NEW c \in Seq(S), NEW d \in Seq(S)
  PROVE  TagsAssociate(a, b, c, d)
  <1>1. PICK e \in Seq(S) : e = a \o b
    BY ConcatProperties
  <1>2. (e \o c) \o d = e \o (c \o d)
    BY ConcatAssociative, SMTT(60)
  <1>3. QED
    BY <1>1, <1>2 DEF TagsAssociate

\* The text of a span, its first c lines replaced by code.
TagsSpanReplaced(lines, start, code, looked, c) ==
    /\ start + Len(looked) - 1 <= Len(v1)
    /\ SubSeq(v1, start, start + Len(looked) - 1) = looked
    /\ lines = SubSeq(v1, 1, start - 1) \o code \o SubSeq(looked, c + 1, Len(looked))
                   \o SubSeq(v1, start + Len(looked), Len(v1))

\* What a span that was looked up is replaced by.
LEMMA TagsReplace ==
  ASSUME v1 \in Seq(TagLines), NEW s, s.start \in Nat, s.start > 0, s.end \in Nat,
         NEW cut \in Int, cut > 0, NEW code \in Seq(TagLines),
         NEW looked, looked = Tags!Slice(v1, s.start, s.end), looked # <<>>,
         NEW c, c = IF cut < Len(looked) THEN cut ELSE Len(looked)
  PROVE  TagsSpanReplaced(Tags!apply_replace(s.start, Tags!CutLines(s, cut), code), s.start, code, looked, c)
  <1> DEFINE f == v1
             L == Len(f)
             a == s.start
             e == IF s.end < L THEN s.end ELSE L
             d == Tags!CutLines(s, cut)
             n == Len(looked)
             head == SubSeq(f, 1, a - 1)
             x == SubSeq(looked, c + 1, n)
             y == SubSeq(f, e + 1, L)
             z == SubSeq(f, a + d, L)
  <1>1. L \in Nat /\ a \in Nat /\ a > 0 /\ e \in Nat /\ e <= L /\ s.end \in Nat /\ e <= s.end
        /\ (e = s.end \/ e = L)
    OBVIOUS
  <1>2. looked = SubSeq(f, a, e)
    <2>1. Tags!Slice(v1, a, s.end) = SubSeq(f, IF a = 0 THEN 1 ELSE a, e)
      BY DEF Tags!Slice
    <2>2. looked = Tags!Slice(v1, a, s.end) /\ a # 0
      BY <1>1
    <2> HIDE DEF a, e
    <2>3. QED
      BY <2>1, <2>2
  <1>3. /\ looked \in Seq(TagLines) /\ n = IF a <= e THEN (e - a) + 1 ELSE 0
    <2>1. a \in Int /\ e \in Int /\ a >= 1 /\ e <= Len(f)
      BY <1>1
    <2> HIDE DEF a, e
    <2>2. /\ SubSeq(f, a, e) \in Seq(TagLines)
          /\ Len(SubSeq(f, a, e)) = IF a <= e THEN (e - a) + 1 ELSE 0
      BY <2>1, TagsPiece
    <2>3. QED
      BY <1>2, <2>2
  <1>4. d = IF s.end - a + 1 < cut THEN s.end - a + 1 ELSE cut
    BY DEF Tags!CutLines
  <1>5. looked # <<>> /\ c = (IF cut < n THEN cut ELSE n) /\ cut > 0
    OBVIOUS
  <1> HIDE DEF L, a, e, d, n
  <1>6. a <= e /\ n = (e - a) + 1 /\ n \in Nat /\ n >= 1
    <2>1. n # 0 /\ n \in Nat
      BY <1>3, <1>5 DEF n
    <2>2. QED
      BY <1>1, <1>3, <2>1
  <1>7. d \in Nat /\ d > 0 /\ c \in Nat /\ c = (IF d < (e - a) + 1 THEN d ELSE (e - a) + 1)
        /\ (d > (e - a) + 1 => e = L)
    <2>1. a \in Int /\ e \in Int /\ s.end \in Int /\ cut \in Int /\ e <= s.end /\ (e = s.end \/ e = L)
      BY <1>1
    <2>2. d \in Nat /\ d > 0
      BY <1>4, <1>5, <1>6, <2>1
    <2>3. c \in Nat /\ c = (IF d < (e - a) + 1 THEN d ELSE (e - a) + 1)
      BY <1>4, <1>5, <1>6, <2>1
    <2>4. d > (e - a) + 1 => e = L
      BY <1>4, <1>5, <1>6, <2>1
    <2>5. QED
      BY <2>2, <2>3, <2>4
  <1>8. z = x \o y
    <2>1. a >= 1
      BY <1>1
    <2>2. SubSeq(f, a + d, Len(f)) = SubSeq(SubSeq(f, a, e), c + 1, Len(SubSeq(f, a, e))) \o SubSeq(f, e + 1, Len(f))
      <3>1. f \in Seq(TagLines)
        OBVIOUS
      <3>2. a \in Nat /\ e \in Nat /\ a >= 1 /\ a <= e /\ e <= Len(f)
        BY <1>1, <1>6, <2>1 DEF L
      <3>3. d \in Nat /\ c \in Nat
        BY <1>7
      <3>4. c = IF d < (e - a) + 1 THEN d ELSE (e - a) + 1
        BY <1>7
      <3>5. d > (e - a) + 1 => e = Len(f)
        BY <1>7 DEF L
      <3>6. TagsRest(f, a, e, d, c)
        BY <3>1, <3>2, <3>3, <3>4, <3>5, TagsSpan
      <3>7. QED
        BY <3>6 DEF TagsRest
    <2>3. QED
      BY <1>2, <2>2 DEF n, L
  <1>9. head \in Seq(TagLines) /\ x \in Seq(TagLines) /\ y \in Seq(TagLines)
    <2>1. ASSUME NEW i \in Int, NEW j \in Int, i >= 1, j <= L PROVE SubSeq(f, i, j) \in Seq(TagLines)
      BY <2>1, TagsPiece DEF L
    <2>2. head \in Seq(TagLines)
      <3>1. 1 \in Int /\ a - 1 \in Int /\ 1 >= 1 /\ a - 1 <= L
        BY <1>1, <1>6
      <3>2. QED
        BY <2>1, <3>1
    <2>3. y \in Seq(TagLines)
      <3>1. e + 1 \in Int /\ L \in Int /\ e + 1 >= 1 /\ L <= L
        BY <1>1
      <3>2. QED
        BY <2>1, <3>1
    <2>4. x \in Seq(TagLines)
      <3>1. c + 1 \in Int /\ n \in Int /\ c + 1 >= 1 /\ n <= Len(looked)
        BY <1>6, <1>7 DEF n
      <3>2. QED
        BY <1>3, <3>1, TagsPiece
    <2>5. QED
      BY <2>2, <2>3, <2>4
  <1>10. Tags!apply_replace(a, d, code) = head \o code \o z
    <2>1. Tags!Slice(v1, 1, a - 1) = head
      <3>1. Tags!Slice(v1, 1, a - 1) = SubSeq(f, 1, IF a - 1 < L THEN a - 1 ELSE L)
        BY DEF Tags!Slice, L
      <3>2. a - 1 < L
        BY <1>1, <1>6
      <3>3. QED
        BY <3>1, <3>2
    <2>2. f = v1
      OBVIOUS
    <2>3. QED
      BY <1>7, <2>1, <2>2 DEF Tags!apply_replace, L
  <1> HIDE DEF head, x, y, z
  <1>11. head \o code \o z = ((head \o code) \o x) \o y
    <2>1. head \in Seq(TagLines)
      BY <1>9
    <2>2. code \in Seq(TagLines)
      OBVIOUS
    <2>3. x \in Seq(TagLines)
      BY <1>9
    <2>4. y \in Seq(TagLines)
      BY <1>9
    <2>5. TagsAssociate(head, code, x, y)
      BY <2>1, <2>2, <2>3, <2>4, TagsFour
    <2>6. QED
      BY <1>8, <2>5 DEF TagsAssociate
  <1>12. a + n - 1 = e /\ a + n = e + 1
    BY <1>1, <1>6
  <1>13. a + n - 1 <= L
    BY <1>1, <1>12
  <1>14. SubSeq(f, a, a + n - 1) = looked
    BY <1>2, <1>12
  <1>15. Tags!apply_replace(a, d, code) = head \o code \o x \o SubSeq(f, a + n, L)
    BY <1>10, <1>11, <1>12 DEF y
  <1>16. QED
    BY <1>13, <1>14, <1>15 DEF head, x, a, n, L, d, TagsSpanReplaced

\* A span that is replaced.
LEMMA TagsReplaceStep ==
  ASSUME Tags!IInv, NEW s \in v2, NEW cut \in Int, NEW code \in Seq(TagLines), code # <<>>,
         Tags!replace_span(s, cut, code)
  PROVE  Tags!IInv'
  <1> DEFINE text  == Tags!Hash(code, FALSE)
             lines == Tags!apply_replace(s.start, Tags!CutLines(s, cut), code)
             fresh == [start |-> s.start, end |-> s.start + Len(code), text |-> text]
  <1>1. /\ v1 \in Seq(TagLines)
        /\ v2 \subseteq Tags!Spans
    BY DEF Tags!IInv, Tags!TypeOK
  <1>2. s \in Tags!Spans
    BY <1>1
  <1>3. s.start \in Nat /\ s.end \in Nat /\ s.text.lines \in Seq(TagLines)
    BY <1>2 DEF Tags!Spans
  <1>4. /\ s.start > 0 /\ Tags!check_hash(s) /\ v1' = Tags!Saved(lines, v1)
        /\ v2' \subseteq v2 \cup {fresh}
    BY DEF Tags!replace_span
  <1>5. v3' = [Tags!Nothing EXCEPT !.tag = "replace_span", !.before = v1, !.span = s, !.cut = cut, !.code = code]
    BY DEF Tags!replace_span
  <1>6. v3'.tag = "replace_span" /\ v3'.before = v1 /\ v3'.span = s /\ v3'.cut = cut /\ v3'.code = code
    BY <1>5 DEF Tags!Nothing
  <1>7. v1' \in Seq(TagLines)
    <2>1. Tags!CutLines(s, cut) \in Int
      BY <1>3 DEF Tags!CutLines
    <2>2. lines \in Seq(TagLines)
      BY <1>1, <1>3, <1>4, <2>1, TagsCut
    <2> HIDE DEF lines
    <2>3. QED
      BY <1>1, <1>4, <2>2 DEF Tags!Saved
  <1>8. fresh \in Tags!Spans
    <2>1. text \in [lines : Seq(TagLines), closed : BOOLEAN]
      BY DEF Tags!Hash
    <2>2. s.start + Len(code) \in Nat
      BY <1>3
    <2> HIDE DEF text
    <2>3. QED
      BY <1>3, <2>1, <2>2 DEF Tags!Spans
  <1> HIDE DEF fresh, lines
  <1>9. Tags!TypeOK'
    <2>1. v2' \subseteq Tags!Spans
      BY <1>1, <1>4, <1>8
    <2>2. QED
      BY <1>6, <1>7, <2>1 DEF Tags!TypeOK
  <1>10. Tags!HunkGoesWhereItMatches'
    BY <1>6 DEF Tags!HunkGoesWhereItMatches
  <1>11. Tags!SpanIsReplaced'
    <2> DEFINE looked == s.text.lines
               c == IF cut < Len(looked) THEN cut ELSE Len(looked)
    <2>1. looked = Tags!Slice(v1, s.start, s.end)
      BY <1>4 DEF Tags!check_hash, Tags!Hash
    <2>2. ASSUME cut > 0, looked # <<>>
          PROVE  /\ s.start + Len(looked) - 1 <= Len(v1)
                 /\ SubSeq(v1, s.start, s.start + Len(looked) - 1) = looked
                 /\ v1' = SubSeq(v1, 1, s.start - 1) \o code \o SubSeq(looked, c + 1, Len(looked))
                              \o SubSeq(v1, s.start + Len(looked), Len(v1))
      <3> HIDE DEF looked
      <3>1. PICK k : k = c
        OBVIOUS
      <3> HIDE DEF c
      <3>2. k = IF cut < Len(looked) THEN cut ELSE Len(looked)
        BY <3>1 DEF c
      <3>3. /\ s.start + Len(looked) - 1 <= Len(v1)
            /\ SubSeq(v1, s.start, s.start + Len(looked) - 1) = looked
            /\ lines = SubSeq(v1, 1, s.start - 1) \o code \o SubSeq(looked, k + 1, Len(looked))
                           \o SubSeq(v1, s.start + Len(looked), Len(v1))
        <4>1. TagsSpanReplaced(lines, s.start, code, looked, k)
          BY <1>1, <1>3, <1>4, <2>1, <2>2, <3>2, TagsReplace DEF lines
        <4>2. QED
          BY <4>1 DEF TagsSpanReplaced
      <3>4. lines # <<>>
        <4> DEFINE a == SubSeq(v1, 1, s.start - 1)
                   b == SubSeq(looked, k + 1, Len(looked))
                   e == SubSeq(v1, s.start + Len(looked), Len(v1))
        <4>1. looked \in Seq(TagLines) /\ k \in Nat
          BY <1>3, <2>2, <3>2 DEF looked
        <4>2. a \in Seq(TagLines)
          <5>1. s.start + Len(looked) - 1 <= Len(v1)
            BY <3>3
          <5>2. Len(v1) \in Nat /\ Len(looked) \in Nat /\ s.start \in Nat
            BY <1>1, <1>3, <4>1, LenProperties
          <5>3. s.start - 1 \in Int /\ s.start - 1 <= Len(v1)
            BY <5>1, <5>2
          <5>4. QED
            BY <1>1, <5>3, TagsPiece
        <4>3. b \in Seq(TagLines)
          BY <4>1, TagsPiece
        <4>4. e \in Seq(TagLines)
          BY <1>1, <1>3, <1>4, <4>1, TagsPiece
        <4>5. lines = a \o code \o b \o e
          BY <3>3
        <4> HIDE DEF a, b, e
        <4>6. Len(code) > 0
          OBVIOUS
        <4>7. Len(a \o code \o b \o e) = Len(a) + Len(code) + Len(b) + Len(e)
          BY <4>2, <4>3, <4>4
        <4>8. Len(lines) > 0
          BY <4>2, <4>3, <4>4, <4>5, <4>6, <4>7
        <4>9. QED
          BY <4>8
      <3>5. v1' = lines
        BY <1>4, <3>4 DEF Tags!Saved
      <3>6. QED
        BY <3>1, <3>3, <3>5
    <2>3. QED
      BY <1>6, <2>2 DEF Tags!SpanIsReplaced
  <1>12. QED
    BY <1>9, <1>10, <1>11 DEF Tags!IInv

\* Every step keeps the lines, and leaves an accepted tag that did what it says.
LEMMA TagsStep == Tags!IInv /\ [Tags!Next]_(Tags!vars) => Tags!IInv'
  <1> SUFFICES ASSUME Tags!IInv, [Tags!Next]_(Tags!vars) PROVE Tags!IInv'
    OBVIOUS
  <1>1. /\ v1 \in Seq(TagLines)
        /\ v2 \subseteq Tags!Spans
    BY DEF Tags!IInv, Tags!TypeOK
  <1>2. TagSize \in Nat /\ MaxCode \in Nat
    BY TagsAssumption
  <1>3. \A lines : lines \in Tags!Texts(TagSize) \/ lines \in Tags!Texts(MaxCode) => lines \in Seq(TagLines)
    BY <1>2, TagsAText
  <1>4. ASSUME v1' \in Seq(TagLines), v3' = Tags!Nothing,
               v2' \subseteq Tags!Spans
        PROVE  Tags!IInv'
    BY <1>4, TagsNothing DEF Tags!IInv, Tags!TypeOK
  <1>5. CASE \E h \in Tags!Hunks : Tags!code_patch(h)
    BY <1>5, TagsPatchStep
  <1>6. CASE \E start \in 0..TagSize : \E end \in start..TagSize : Tags!lookup_span(start, end)
    <2>1. PICK start \in 0..TagSize : \E end \in start..TagSize : Tags!lookup_span(start, end)
      BY <1>6
    <2>2. PICK end \in start..TagSize : Tags!lookup_span(start, end)
      BY <2>1
    <2> DEFINE text  == Tags!Hash(Tags!Slice(v1, start, end), TRUE)
               fresh == [start |-> start, end |-> end, text |-> text]
    <2>3. v2' = v2 \cup {fresh} /\ v3' = Tags!Nothing /\ v1' = v1
      BY <2>2 DEF Tags!lookup_span
    <2>4. start \in Nat /\ end \in Nat /\ end \in Int /\ start >= 0
      BY <1>2
    <2>5. Tags!Slice(v1, start, end) \in Seq(TagLines)
      BY <1>1, <2>4, TagsSlice
    <2>6. text \in [lines : Seq(TagLines), closed : BOOLEAN]
      BY <2>5 DEF Tags!Hash
    <2> HIDE DEF text
    <2>7. fresh \in Tags!Spans
      BY <2>4, <2>6 DEF Tags!Spans
    <2> HIDE DEF fresh
    <2>8. QED
      BY <1>1, <1>4, <2>3, <2>7
  <1>7. CASE \E s \in v2 : \E cut \in -1..TagSize : \E code \in Tags!Texts(MaxCode) \ {<<>>} :
                Tags!replace_span(s, cut, code)
    <2>1. PICK s \in v2 : \E cut \in -1..TagSize : \E code \in Tags!Texts(MaxCode) \ {<<>>} :
                Tags!replace_span(s, cut, code)
      BY <1>7
    <2>2. PICK cut \in -1..TagSize : \E code \in Tags!Texts(MaxCode) \ {<<>>} : Tags!replace_span(s, cut, code)
      BY <2>1
    <2>3. PICK code \in Tags!Texts(MaxCode) \ {<<>>} : Tags!replace_span(s, cut, code)
      BY <2>2
    <2>4. cut \in Int /\ code \in Seq(TagLines)
      BY <1>2, <1>3
    <2>5. QED
      BY <2>3, <2>4, TagsReplaceStep
  <1>8. CASE \E n \in 1..TagSize : \E code \in Tags!Texts(MaxCode) \ {<<>>} : Tags!code_insert(n, code)
    <2>1. PICK n \in 1..TagSize : \E code \in Tags!Texts(MaxCode) \ {<<>>} : Tags!code_insert(n, code)
      BY <1>8
    <2>2. PICK code \in Tags!Texts(MaxCode) \ {<<>>} : Tags!code_insert(n, code)
      BY <2>1
    <2>3. /\ n <= Len(v1) /\ v3' = Tags!Nothing /\ v2' = v2
          /\ v1' = SubSeq(v1, 1, n - 1) \o code \o SubSeq(v1, n, Len(v1))
      BY <2>2 DEF Tags!code_insert
    <2>4. code \in Seq(TagLines)
      BY <1>3
    <2>5. SubSeq(v1, 1, n - 1) \in Seq(TagLines)
      <3>1. 1 \in Int /\ n - 1 \in Int /\ 1 >= 1 /\ n - 1 <= Len(v1)
        BY <1>1, <1>2, <2>3
      <3>2. QED
        BY <1>1, <3>1, TagsPiece
    <2>6. SubSeq(v1, n, Len(v1)) \in Seq(TagLines)
      <3>1. n \in Int /\ Len(v1) \in Int /\ n >= 1 /\ Len(v1) <= Len(v1)
        BY <1>1, <1>2
      <3>2. QED
        BY <1>1, <3>1, TagsPiece
    <2> DEFINE head == SubSeq(v1, 1, n - 1)
               tail == SubSeq(v1, n, Len(v1))
    <2> HIDE DEF head, tail
    <2>7. head \o code \in Seq(TagLines)
      BY <2>4, <2>5, ConcatProperties DEF head
    <2>8. head \o code \o tail \in Seq(TagLines)
      BY <2>6, <2>7, ConcatProperties DEF tail
    <2>9. v1' \in Seq(TagLines)
      BY <2>3, <2>8 DEF head, tail
    <2>10. QED
      BY <1>1, <1>4, <2>3, <2>9
  <1>9. CASE \E lines \in Tags!Texts(TagSize) : Tags!Outside(lines)
    <2>1. PICK lines \in Tags!Texts(TagSize) : Tags!Outside(lines)
      BY <1>9
    <2>2. v1' = lines /\ v3' = Tags!Nothing /\ v2' = v2
      BY <2>1 DEF Tags!Outside
    <2>3. QED
      BY <1>1, <1>3, <1>4, <2>2
  <1>10. CASE UNCHANGED Tags!vars
    <2>1. v1' = v1 /\ v2' = v2 /\ v3' = v3
      BY <1>10 DEF Tags!vars
    <2>2. Tags!TypeOK'
      BY <2>1 DEF Tags!IInv, Tags!TypeOK
    <2>3. Tags!HunkGoesWhereItMatches'
      BY <2>1 DEF Tags!IInv, Tags!HunkGoesWhereItMatches
    <2>4. Tags!SpanIsReplaced'
      BY <2>1 DEF Tags!IInv, Tags!SpanIsReplaced
    <2>5. QED
      BY <2>2, <2>3, <2>4 DEF Tags!IInv
  <1>11. QED
    BY <1>5, <1>6, <1>7, <1>8, <1>9, <1>10 DEF Tags!Next

-----------------------------------------------------------------------------
(***************************************************************************)
(* Processes of the sandbox server                                         *)
(***************************************************************************)
\* The server starts with no process (PROCESS_REGISTRY = {}).
LEMMA SandboxProcInitHolds ==
  ASSUME Sandbox!ProcInit PROVE Sandbox!ProcInv
  BY SandboxAssumption DEF Sandbox!ProcInit, Sandbox!ProcInv, Sandbox!TypeOK, Sandbox!NoOrphans,
     Sandbox!Watched, Sandbox!FinishedHasEnded,
     Sandbox!StartingIsSpawning, Sandbox!ErrorHasNone, Sandbox!LostToCleanup, Sandbox!HolderHasEntry,
     Sandbox!Registered, Sandbox!Alive, Sandbox!OsStates, Sandbox!Conditions

\* A coroutine that finds the lock taken leaves everything but the loop.
LEMMA SandboxStuckKeeps ==
  ASSUME Sandbox!ProcInv, v8' = "stuck",
         UNCHANGED <<v1, v2, v3, v4, v5, v6, v7, v9>>
  PROVE  Sandbox!ProcInv'
  BY DEF Sandbox!ProcInv, Sandbox!TypeOK, Sandbox!NoOrphans, Sandbox!Watched, Sandbox!FinishedHasEnded,
     Sandbox!StartingIsSpawning, Sandbox!ErrorHasNone, Sandbox!LostToCleanup, Sandbox!HolderHasEntry,
     Sandbox!Registered, Sandbox!Alive

\* The check of the limit and the insertion (spawn_process).
LEMMA SandboxSpawnStartKeeps ==
  ASSUME Sandbox!ProcInv, NEW g \in Guids, NEW p \in Projects, Sandbox!SpawnStart(g, p)
  PROVE  Sandbox!ProcInv'
  <1> DEFINE e == [project |-> p, status |-> "starting", buffer |-> 0, age |-> 0, idle |-> 0]
  <1>1. e \in Sandbox!Entry /\ e.status = "starting" /\ e # NoEntry
    BY SandboxAssumption, EntryAssumption DEF Sandbox!Entry, Sandbox!Statuses
  <1> HIDE DEF e
  <1>2. v1' = [v1 EXCEPT ![g] = e] /\ v5' = v5 \cup {g}
    BY DEF Sandbox!SpawnStart, e
  <1>3. v1[g] = NoEntry /\ v2[g] = "none" /\ g \notin v5
    BY DEF Sandbox!SpawnStart
  <1>4. UNCHANGED <<v2, v3, v4, v6, v7, v8, v9>>
    BY DEF Sandbox!SpawnStart
  <1> QED BY <1>1, <1>2, <1>3, <1>4 DEF Sandbox!ProcInv, Sandbox!TypeOK, Sandbox!NoOrphans,
     Sandbox!Watched, Sandbox!FinishedHasEnded,
     Sandbox!StartingIsSpawning, Sandbox!ErrorHasNone, Sandbox!LostToCleanup, Sandbox!HolderHasEntry,
     Sandbox!Registered, Sandbox!Alive

\* A step that changes neither the registry, nor a reader, nor a spawn keeps
\* the invariant when a process that has ended stays so and no other comes to
\* life than one whose spawn is under way.
LEMMA SandboxOsStepKeeps ==
  ASSUME Sandbox!ProcInv, UNCHANGED <<v1, v4, v5, v9>>,
         v2' \in [Guids -> Sandbox!OsStates], v3' \in [Guids -> 0..PipeSize], v6' \subseteq {g \in Guids : Sandbox!Registered(g)},
         v7' \in [Guids -> Sandbox!Conditions \cup {"none"}], v8' \in {"free", "busy", "stuck"},
         \A g \in Guids : /\ v2[g] = "ended" => v2'[g] = "ended"
                          /\ v2'[g] = "none" => v2[g] = "none"
                          /\ v2[g] = "none" /\ v2'[g] # "none" => g \in v5
  PROVE  Sandbox!ProcInv'
  BY DEF Sandbox!ProcInv, Sandbox!TypeOK, Sandbox!NoOrphans, Sandbox!Watched, Sandbox!FinishedHasEnded,
     Sandbox!OsStates,
     Sandbox!StartingIsSpawning, Sandbox!ErrorHasNone, Sandbox!LostToCleanup, Sandbox!HolderHasEntry,
     Sandbox!Registered, Sandbox!Alive

\* A change of counters of an entry.
LEMMA SandboxEntryStepKeeps ==
  ASSUME Sandbox!ProcInv, UNCHANGED <<v2, v4, v5, v7, v9>>,
         v1' \in [Guids -> Sandbox!Entry \cup {NoEntry}], v3' \in [Guids -> 0..PipeSize],
         v6' \subseteq {g \in Guids : Sandbox!Registered(g)}, v8' \in {"free", "busy", "stuck"},
         \A g \in Guids : /\ v1[g] = NoEntry <=> v1'[g] = NoEntry
                          /\ v1[g] # NoEntry => v1'[g].status = v1[g].status
  PROVE  Sandbox!ProcInv'
  BY DEF Sandbox!ProcInv, Sandbox!TypeOK, Sandbox!NoOrphans, Sandbox!Watched, Sandbox!FinishedHasEnded,
     Sandbox!StartingIsSpawning, Sandbox!ErrorHasNone, Sandbox!LostToCleanup, Sandbox!HolderHasEntry,
     Sandbox!Registered, Sandbox!Alive

\* create_subprocess forks, and spawn_process comes back from it.
LEMMA SandboxSpawnGoesOn ==
  ASSUME Sandbox!ProcInv, NEW g \in Guids, Sandbox!Fork(g) \/ Sandbox!SpawnDone(g) \/ Sandbox!SpawnFails(g)
  PROVE  Sandbox!ProcInv'
  <1>0. /\ v1 \in [Guids -> Sandbox!Entry \cup {NoEntry}] /\ v4 \in [Guids -> {"none", "on", "off"}]
        /\ v2 \in [Guids -> Sandbox!OsStates] /\ v5 \subseteq Guids
    BY DEF Sandbox!ProcInv, Sandbox!TypeOK
  <1>1. CASE Sandbox!Fork(g)
    BY <1>1, <1>0, SandboxOsStepKeeps DEF Sandbox!Fork, Sandbox!ProcInv, Sandbox!TypeOK,
       Sandbox!HolderHasEntry, Sandbox!OsStates
  <1>2. CASE Sandbox!SpawnDone(g)
    <2>0. g \in v5 /\ v2[g] # "none" /\ v5' = v5 \ {g}
          /\ UNCHANGED <<v2, v3, v6, v7, v8, v9>>
      BY <1>2 DEF Sandbox!SpawnDone
    <2>1. CASE ~Sandbox!Registered(g)
      <3>1. UNCHANGED <<v1, v4>>
        BY <1>2, <2>1 DEF Sandbox!SpawnDone
      <3>2. g \in v9
        BY <2>0, <2>1 DEF Sandbox!ProcInv, Sandbox!LostToCleanup
      <3> QED BY <1>0, <2>0, <2>1, <3>1, <3>2 DEF Sandbox!ProcInv, Sandbox!TypeOK, Sandbox!NoOrphans,
         Sandbox!Watched, Sandbox!FinishedHasEnded,
            Sandbox!StartingIsSpawning, Sandbox!ErrorHasNone, Sandbox!LostToCleanup,
            Sandbox!HolderHasEntry, Sandbox!Registered, Sandbox!Alive
    <2>2. CASE Sandbox!Registered(g)
      <3> DEFINE e == [v1[g] EXCEPT !.status = "running"]
      <3>1. v1[g] \in Sandbox!Entry
        BY <1>0, <2>2 DEF Sandbox!Registered
      <3>2. e \in Sandbox!Entry /\ e.status = "running" /\ e # NoEntry
        BY <3>1, EntryAssumption DEF Sandbox!Entry, Sandbox!Statuses
      <3>3. v1' = [v1 EXCEPT ![g] = e] /\ v4' = [v4 EXCEPT ![g] = "on"]
        BY <1>2, <2>2, <1>0 DEF Sandbox!SpawnDone
      <3> HIDE DEF e
      <3> QED BY <1>0, <2>0, <2>2, <3>2, <3>3 DEF Sandbox!ProcInv, Sandbox!TypeOK, Sandbox!NoOrphans,
         Sandbox!Watched, Sandbox!FinishedHasEnded,
            Sandbox!StartingIsSpawning, Sandbox!ErrorHasNone, Sandbox!LostToCleanup,
            Sandbox!HolderHasEntry, Sandbox!Registered, Sandbox!Alive
    <2> QED BY <2>1, <2>2
  <1>3. CASE Sandbox!SpawnFails(g)
    <2>0. g \in v5 /\ v2[g] = "none" /\ v5' = v5 \ {g}
          /\ v2' = [v2 EXCEPT ![g] = "ended"] /\ UNCHANGED <<v3, v4, v6, v7, v8, v9>>
      BY <1>3 DEF Sandbox!SpawnFails
    <2>1. CASE ~Sandbox!Registered(g)
      <3>1. v1' = v1
        BY <1>3, <2>1 DEF Sandbox!SpawnFails
      <3> QED BY <1>0, <2>0, <2>1, <3>1 DEF Sandbox!ProcInv, Sandbox!TypeOK, Sandbox!NoOrphans,
         Sandbox!Watched, Sandbox!FinishedHasEnded, Sandbox!OsStates,
            Sandbox!StartingIsSpawning, Sandbox!ErrorHasNone, Sandbox!LostToCleanup,
            Sandbox!HolderHasEntry, Sandbox!Registered, Sandbox!Alive
    <2>2. CASE Sandbox!Registered(g)
      <3> DEFINE e == [v1[g] EXCEPT !.status = "error"]
      <3>1. v1[g] \in Sandbox!Entry
        BY <1>0, <2>2 DEF Sandbox!Registered
      <3>2. e \in Sandbox!Entry /\ e.status = "error" /\ e # NoEntry
        BY <3>1, EntryAssumption DEF Sandbox!Entry, Sandbox!Statuses
      <3>3. v1' = [v1 EXCEPT ![g] = e]
        BY <1>3, <2>2, <1>0 DEF Sandbox!SpawnFails
      <3> HIDE DEF e
      <3> QED BY <1>0, <2>0, <2>2, <3>2, <3>3 DEF Sandbox!ProcInv, Sandbox!TypeOK, Sandbox!NoOrphans,
         Sandbox!Watched, Sandbox!FinishedHasEnded, Sandbox!OsStates,
            Sandbox!StartingIsSpawning, Sandbox!ErrorHasNone, Sandbox!LostToCleanup,
            Sandbox!HolderHasEntry, Sandbox!Registered, Sandbox!Alive
    <2> QED BY <2>1, <2>2
  <1> QED BY <1>1, <1>2, <1>3

\* A turn of the reader: a status changes to "finished" when the process has
\* ended, and the reader stops then (_read_process_output).
LEMMA SandboxReadTurnKeeps ==
  ASSUME Sandbox!ProcInv, NEW g \in Guids, Sandbox!ReadTurn(g)
  PROVE  Sandbox!ProcInv'
  <1>0. /\ v1 \in [Guids -> Sandbox!Entry \cup {NoEntry}] /\ v4 \in [Guids -> {"none", "on", "off"}]
        /\ v3 \in [Guids -> 0..PipeSize] /\ v5 \subseteq Guids /\ v2 \in [Guids -> Sandbox!OsStates]
    BY DEF Sandbox!ProcInv, Sandbox!TypeOK
  <1>1. v3' \in [Guids -> 0..PipeSize]
    BY <1>0, SandboxAssumption DEF Sandbox!ReadTurn, Sandbox!Chunk
  <1>2. v4[g] = "on" /\ UNCHANGED <<v2, v5, v6, v7, v8, v9>>
    BY DEF Sandbox!ReadTurn
  <1>3. g \notin v5 /\ v2[g] # "none"
    BY <1>2 DEF Sandbox!ProcInv, Sandbox!StartingIsSpawning
  <1>4. CASE ~Sandbox!Registered(g)
    <2>1. v1' = v1 /\ v4' = [v4 EXCEPT ![g] = "off"]
      BY <1>4 DEF Sandbox!ReadTurn
    <2> QED BY <1>0, <1>1, <1>2, <1>3, <1>4, <2>1 DEF Sandbox!ProcInv, Sandbox!TypeOK, Sandbox!NoOrphans,
       Sandbox!Watched, Sandbox!FinishedHasEnded,
          Sandbox!StartingIsSpawning, Sandbox!ErrorHasNone, Sandbox!LostToCleanup,
          Sandbox!HolderHasEntry, Sandbox!Registered, Sandbox!Alive
  <1>5. CASE Sandbox!Registered(g)
    <2> DEFINE e == v1[g]
               kept == Sandbox!Chunk(g) = 1 /\ e.buffer < MaxBuffer
               f == [e EXCEPT !.buffer = IF kept THEN e.buffer + 1 ELSE e.buffer,
                              !.idle = IF kept THEN 0 ELSE e.idle,
                              !.status = IF v2[g] = "ended" THEN "finished" ELSE e.status]
    <2>1. e \in Sandbox!Entry
      BY <1>0, <1>5 DEF Sandbox!Registered
    <2>2. f \in Sandbox!Entry /\ f # NoEntry /\ f.status = IF v2[g] = "ended" THEN "finished" ELSE v1[g].status
      <3>1. e.buffer \in 0..MaxBuffer /\ e.idle \in 0..(Ttl + 1) /\ e.status \in Sandbox!Statuses
        BY <2>1 DEF Sandbox!Entry
      <3>2. (IF kept THEN e.buffer + 1 ELSE e.buffer) \in 0..MaxBuffer
        BY <3>1, SandboxAssumption
      <3>3. (IF kept THEN 0 ELSE e.idle) \in 0..(Ttl + 1)
        BY <3>1, SandboxAssumption
      <3>4. (IF v2[g] = "ended" THEN "finished" ELSE e.status) \in Sandbox!Statuses
        BY <3>1 DEF Sandbox!Statuses
      <3>5. f \in Sandbox!Entry
        BY <2>1, <3>2, <3>3, <3>4 DEF Sandbox!Entry
      <3>6. f.status = IF v2[g] = "ended" THEN "finished" ELSE v1[g].status
        BY <2>1 DEF Sandbox!Entry
      <3> QED BY <3>5, <3>6, EntryAssumption
    <2>3. v1' = [v1 EXCEPT ![g] = f]
          /\ v4' = [v4 EXCEPT ![g] = IF v2[g] = "ended" THEN "off" ELSE "on"]
      BY <1>5 DEF Sandbox!ReadTurn
    <2> HIDE DEF f
    <2> QED BY <1>0, <1>1, <1>2, <1>3, <1>5, <2>2, <2>3 DEF Sandbox!ProcInv, Sandbox!TypeOK,
       Sandbox!NoOrphans, Sandbox!Watched, Sandbox!FinishedHasEnded,
          Sandbox!StartingIsSpawning, Sandbox!ErrorHasNone, Sandbox!LostToCleanup,
          Sandbox!HolderHasEntry, Sandbox!Registered, Sandbox!Alive
  <1> QED BY <1>4, <1>5

\* Input, a wait for the child to read it, a signal, a wait for output
\* (process_io, process_kill, process_wait).
LEMMA SandboxHandlersOfEntriesKeep ==
  ASSUME Sandbox!ProcInv, NEW g \in Guids, NEW c \in Sandbox!Conditions,
         Sandbox!Io(g) \/ Sandbox!IoDrains(g) \/ Sandbox!IoDrained(g) \/ Sandbox!Kill(g) \/ Sandbox!Wait(g, c) \/ Sandbox!WaitTurn(g) \/ Sandbox!WaitTimesOut(g)
  PROVE  Sandbox!ProcInv'
  <1>0. /\ v1 \in [Guids -> Sandbox!Entry \cup {NoEntry}] /\ v2 \in [Guids -> Sandbox!OsStates]
        /\ v3 \in [Guids -> 0..PipeSize] /\ v6 \subseteq {h \in Guids : Sandbox!Registered(h)}
        /\ v7 \in [Guids -> Sandbox!Conditions \cup {"none"}] /\ v8 \in {"free", "busy", "stuck"}
    BY DEF Sandbox!ProcInv, Sandbox!TypeOK, Sandbox!HolderHasEntry
  <1>1. ASSUME Sandbox!Registered(g), Sandbox!Touch(g), UNCHANGED <<v2, v3, v4, v5, v7, v8, v9>>,
               v6' \subseteq {h \in Guids : Sandbox!Registered(h)}
        PROVE  Sandbox!ProcInv'
    <2> DEFINE e == [v1[g] EXCEPT !.idle = 0]
    <2>1. v1[g] \in Sandbox!Entry
      BY <1>0, <1>1 DEF Sandbox!Registered
    <2>2. e \in Sandbox!Entry /\ e.status = v1[g].status /\ e # NoEntry
      BY <2>1, EntryAssumption, SandboxAssumption DEF Sandbox!Entry
    <2>3. v1' = [v1 EXCEPT ![g] = e]
      BY <1>1, <1>0 DEF Sandbox!Touch
    <2> HIDE DEF e
    <2>4. v1' \in [Guids -> Sandbox!Entry \cup {NoEntry}]
      BY <1>0, <2>2, <2>3
    <2>5. \A h \in Guids : /\ v1[h] = NoEntry <=> v1'[h] = NoEntry
                           /\ v1[h] # NoEntry => v1'[h].status = v1[h].status
      BY <1>0, <1>1, <2>2, <2>3 DEF Sandbox!Registered
    <2> QED BY <1>0, <1>1, <2>4, <2>5, SandboxEntryStepKeeps
  <1>2. CASE Sandbox!Io(g)
    BY <1>1, <1>2, <1>0 DEF Sandbox!Io
  <1>3. CASE Sandbox!IoDrained(g)
    <2>1. Sandbox!Registered(g)
      BY <1>3 DEF Sandbox!IoDrained, Sandbox!ProcInv, Sandbox!HolderHasEntry
    <2> QED BY <1>1, <1>3, <2>1 DEF Sandbox!IoDrained
  <1>5. CASE Sandbox!IoDrains(g)
    <2>1. v6' \subseteq {h \in Guids : Sandbox!Registered(h)}
      BY <1>5 DEF Sandbox!IoDrains
    <2> QED BY <1>5, <1>0, <2>1, SandboxOsStepKeeps DEF Sandbox!IoDrains
  <1>6. CASE Sandbox!Kill(g)
    <2>1. v2' = [v2 EXCEPT ![g] = "ended"] /\ v2[g] # "none"
          /\ UNCHANGED <<v1, v3, v4, v5, v6, v7, v8, v9>>
      BY <1>6 DEF Sandbox!Kill, Sandbox!Alive
    <2> QED BY <2>1, <1>0, SandboxOsStepKeeps DEF Sandbox!OsStates
  <1>7. CASE Sandbox!Wait(g, c) \/ Sandbox!WaitTurn(g) \/ Sandbox!WaitTimesOut(g)
    <2>1. v7' \in [Guids -> Sandbox!Conditions \cup {"none"}]
          /\ UNCHANGED <<v1, v2, v3, v4, v5, v6, v8, v9>>
      BY <1>7, <1>0 DEF Sandbox!Wait, Sandbox!WaitTurn, Sandbox!WaitTimesOut
    <2> QED BY <2>1, <1>0, SandboxOsStepKeeps
  <1> QED BY <1>2, <1>3, <1>5, <1>6, <1>7

\* The clean-up ends the process of each entry it drops; an entry without one
\* is starting, or failed to (cleanup_stale_processes).
LEMMA SandboxCleanupKeeps ==
  ASSUME Sandbox!ProcInv, Sandbox!Cleanup, v6 = {}
  PROVE  Sandbox!ProcInv'
  <1>0. /\ v1 \in [Guids -> Sandbox!Entry \cup {NoEntry}] /\ v2 \in [Guids -> Sandbox!OsStates]
        /\ v5 \subseteq Guids /\ v9 \subseteq Guids
    BY DEF Sandbox!ProcInv, Sandbox!TypeOK
  <1>1. /\ v1' = [g \in Guids |-> IF Sandbox!Stale(g) THEN NoEntry ELSE v1[g]]
        /\ v2' = [g \in Guids |-> IF Sandbox!Stale(g) /\ Sandbox!HasSubprocess(g) THEN "ended" ELSE v2[g]]
        /\ v9' = v9 \cup {g \in v5 : Sandbox!Stale(g)}
        /\ UNCHANGED <<v3, v4, v5, v6, v7, v8>>
    BY DEF Sandbox!Cleanup
  <1>2. ASSUME NEW g \in Guids, Sandbox!Stale(g)
        PROVE  Sandbox!HasSubprocess(g) \/ g \in v5 \/ v2[g] = "ended"
    <2>1. Sandbox!Registered(g) /\ v1[g] \in Sandbox!Entry
      BY <1>0, <1>2 DEF Sandbox!Stale, Sandbox!Registered
    <2>2. v1[g].status \in Sandbox!Statuses
      BY <2>1 DEF Sandbox!Entry
    <2> QED BY <2>1, <2>2 DEF Sandbox!Statuses, Sandbox!HasSubprocess, Sandbox!ProcInv,
       Sandbox!StartingIsSpawning, Sandbox!ErrorHasNone
  <1>3. ASSUME NEW g \in Guids, Sandbox!HasSubprocess(g), v2[g] = "none"
        PROVE  FALSE
    BY <1>3 DEF Sandbox!HasSubprocess, Sandbox!ProcInv, Sandbox!StartingIsSpawning, Sandbox!Watched,
       Sandbox!FinishedHasEnded
  <1>4. Sandbox!TypeOK'
    BY <1>0, <1>1 DEF Sandbox!ProcInv, Sandbox!TypeOK, Sandbox!OsStates
  <1>5. Sandbox!NoOrphans'
    BY <1>0, <1>1, <1>2 DEF Sandbox!ProcInv, Sandbox!NoOrphans, Sandbox!Alive, Sandbox!Registered
  <1>6. Sandbox!Watched' /\ Sandbox!FinishedHasEnded' /\ Sandbox!ErrorHasNone'
    BY <1>0, <1>1 DEF Sandbox!ProcInv, Sandbox!Watched, Sandbox!FinishedHasEnded, Sandbox!ErrorHasNone,
       Sandbox!Registered
  <1>7. Sandbox!StartingIsSpawning'
    <2>1. \A g \in Guids : g \in v5 \/ v2[g] = "none" => v4[g] = "none"
      BY DEF Sandbox!ProcInv, Sandbox!StartingIsSpawning
    <2>2. \A g \in Guids : v2'[g] = "none" => v2[g] = "none"
      BY <1>1
    <2> QED BY <1>0, <1>1, <2>1, <2>2 DEF Sandbox!ProcInv, Sandbox!StartingIsSpawning, Sandbox!Registered
  <1>8. Sandbox!LostToCleanup' /\ Sandbox!HolderHasEntry'
    BY <1>0, <1>1 DEF Sandbox!ProcInv, Sandbox!LostToCleanup, Sandbox!HolderHasEntry, Sandbox!Registered
  <1> QED BY <1>4, <1>5, <1>6, <1>7, <1>8 DEF Sandbox!ProcInv

\* What the processes do by themselves.
LEMMA SandboxWritingKeeps ==
  ASSUME Sandbox!ProcInv, NEW g \in Guids, Sandbox!Write(g) \/ Sandbox!Silt(g) \/ Sandbox!Exit(g)
  PROVE  Sandbox!ProcInv'
  <1>0. /\ v2 \in [Guids -> Sandbox!OsStates] /\ v3 \in [Guids -> 0..PipeSize] /\ v6 \subseteq {h \in Guids : Sandbox!Registered(h)}
        /\ v7 \in [Guids -> Sandbox!Conditions \cup {"none"}] /\ v8 \in {"free", "busy", "stuck"}
    BY DEF Sandbox!ProcInv, Sandbox!TypeOK, Sandbox!HolderHasEntry
  <1>1. CASE Sandbox!Write(g)
    <2>1. v3' \in [Guids -> 0..PipeSize]
      BY <1>0, <1>1, SandboxAssumption DEF Sandbox!Write
    <2> QED BY <1>0, <1>1, <2>1, SandboxOsStepKeeps DEF Sandbox!Write
  <1>2. CASE Sandbox!Silt(g) \/ Sandbox!Exit(g)
    <2>1. PICK s \in {"silted", "ended"} : v2' = [v2 EXCEPT ![g] = s]
      BY <1>2 DEF Sandbox!Silt, Sandbox!Exit
    <2>2. v2[g] = "running" /\ UNCHANGED <<v1, v3, v4, v5, v6, v7, v8, v9>>
      BY <1>2 DEF Sandbox!Silt, Sandbox!Exit
    <2>3. v2' \in [Guids -> Sandbox!OsStates]
      BY <1>0, <2>1 DEF Sandbox!OsStates
    <2>4. \A h \in Guids : /\ v2[h] = "ended" => v2'[h] = "ended"
                           /\ v2'[h] = "none" => v2[h] = "none"
                           /\ v2[h] = "none" /\ v2'[h] # "none" => h \in v5
      BY <1>0, <2>1, <2>2
    <2> QED BY <1>0, <2>2, <2>3, <2>4, SandboxOsStepKeeps
  <1> QED BY <1>1, <1>2

\* The ages of the entries.
LEMMA SandboxTickKeeps ==
  ASSUME Sandbox!ProcInv, Sandbox!Tick
  PROVE  Sandbox!ProcInv'
  <1>0. /\ v1 \in [Guids -> Sandbox!Entry \cup {NoEntry}] /\ v3 \in [Guids -> 0..PipeSize]
        /\ v6 \subseteq {h \in Guids : Sandbox!Registered(h)} /\ v8 \in {"free", "busy", "stuck"}
    BY DEF Sandbox!ProcInv, Sandbox!TypeOK, Sandbox!HolderHasEntry
  <1> DEFINE Older(g) == [v1[g] EXCEPT !.age = Sandbox!Least(v1[g].age + 1, HardTimeout + 1),
                                             !.idle = Sandbox!Least(v1[g].idle + 1, Ttl + 1)]
  <1>1. /\ v1' = [g \in Guids |-> IF Sandbox!Registered(g) THEN Older(g) ELSE NoEntry]
        /\ UNCHANGED <<v2, v3, v4, v5, v6, v7, v8, v9>>
    BY DEF Sandbox!Tick
  <1>2. ASSUME NEW g \in Guids, Sandbox!Registered(g)
        PROVE  Older(g) \in Sandbox!Entry /\ Older(g) # NoEntry /\ Older(g).status = v1[g].status
    <2>1. v1[g] \in Sandbox!Entry
      BY <1>0, <1>2 DEF Sandbox!Registered
    <2>2. v1[g].age \in 0..(HardTimeout + 1) /\ v1[g].idle \in 0..(Ttl + 1)
      BY <2>1 DEF Sandbox!Entry
    <2>3. Sandbox!Least(v1[g].age + 1, HardTimeout + 1) \in 0..(HardTimeout + 1)
      BY <2>2, SandboxAssumption DEF Sandbox!Least
    <2>4. Sandbox!Least(v1[g].idle + 1, Ttl + 1) \in 0..(Ttl + 1)
      BY <2>2, SandboxAssumption DEF Sandbox!Least
    <2>5. Older(g) \in Sandbox!Entry /\ Older(g).status = v1[g].status
      BY <2>1, <2>3, <2>4 DEF Sandbox!Entry
    <2> QED BY <2>5, EntryAssumption
  <1> HIDE DEF Older
  <1>3. v1' \in [Guids -> Sandbox!Entry \cup {NoEntry}]
    BY <1>1, <1>2
  <1>4. \A g \in Guids : /\ v1[g] = NoEntry <=> v1'[g] = NoEntry
                         /\ v1[g] # NoEntry => v1'[g].status = v1[g].status
    BY <1>1, <1>2 DEF Sandbox!Registered
  <1> QED BY <1>0, <1>1, <1>3, <1>4, SandboxEntryStepKeeps

\* Every step of the handlers, and of the processes and the clock.
LEMMA SandboxProcStepKeeps ==
  ASSUME Sandbox!ProcInv, Sandbox!Handlers \/ Sandbox!World
  PROVE  Sandbox!ProcInv'
  <1>1. ASSUME NEW g \in Guids, NEW p \in Projects, Sandbox!Locked(Sandbox!SpawnStart(g, p)) PROVE Sandbox!ProcInv'
    BY <1>1, SandboxStuckKeeps, SandboxSpawnStartKeeps DEF Sandbox!Locked
  <1>2. ASSUME NEW g \in Guids, Sandbox!Locked(Sandbox!SpawnDone(g)) \/ Sandbox!Locked(Sandbox!SpawnFails(g)) \/ Sandbox!Locked(Sandbox!ReadTurn(g))
        PROVE  Sandbox!ProcInv'
    BY <1>2, SandboxStuckKeeps, SandboxSpawnGoesOn, SandboxReadTurnKeeps DEF Sandbox!Locked
  <1>3. "finished" \in Sandbox!Conditions
    BY DEF Sandbox!Conditions
  <1>4. ASSUME NEW g \in Guids, Sandbox!Locked(Sandbox!Io(g)) \/ Sandbox!Locked(Sandbox!IoDrains(g)) \/ Sandbox!IoDrained(g) \/ Sandbox!Locked(Sandbox!Kill(g))
                                \/ Sandbox!Locked(Sandbox!WaitTurn(g)) \/ Sandbox!WaitTimesOut(g)
        PROVE  Sandbox!ProcInv'
    BY <1>3, <1>4, SandboxStuckKeeps, SandboxHandlersOfEntriesKeep DEF Sandbox!Locked
  <1>5. ASSUME NEW g \in Guids, NEW c \in Sandbox!Conditions, Sandbox!Locked(Sandbox!Wait(g, c)) PROVE Sandbox!ProcInv'
    BY <1>5, SandboxStuckKeeps, SandboxHandlersOfEntriesKeep DEF Sandbox!Locked
  <1>6. ASSUME Sandbox!Locked(Sandbox!Cleanup) PROVE Sandbox!ProcInv'
    BY <1>6, SandboxStuckKeeps, SandboxCleanupKeeps DEF Sandbox!Locked
  <1>7. CASE Sandbox!Handlers
    BY <1>7, <1>1, <1>2, <1>4, <1>5, <1>6 DEF Sandbox!Handlers
  <1>8. CASE Sandbox!World
    BY <1>8, SandboxSpawnGoesOn, SandboxWritingKeeps, SandboxTickKeeps DEF Sandbox!World
  <1> QED BY <1>7, <1>8

\* A restart of the container ends what runs in it, and forgets it.
LEMMA SandboxCrashKeeps ==
  ASSUME Sandbox!ProcInv, Sandbox!CrashSandbox
  PROVE  Sandbox!ProcInv'
  <1>1. /\ v1' = [g \in Guids |-> NoEntry]
        /\ v2' = [g \in Guids |-> IF v2[g] # "none" \/ g \in v5 THEN "ended" ELSE "none"]
        /\ v4' = [g \in Guids |-> IF v4[g] = "none" THEN "none" ELSE "off"]
        /\ v5' = {} /\ v6' = {} /\ v8' = "free"
        /\ v7' = [g \in Guids |-> "none"]
        /\ UNCHANGED <<v3, v9>>
    BY DEF Sandbox!CrashSandbox
  <1>2. \A g \in Guids : v2'[g] = "none" => v4'[g] = "none"
    BY <1>1 DEF Sandbox!ProcInv, Sandbox!StartingIsSpawning
  <1>3. Sandbox!TypeOK'
    BY <1>1 DEF Sandbox!ProcInv, Sandbox!TypeOK, Sandbox!OsStates, Sandbox!Conditions
  <1> QED BY <1>1, <1>2, <1>3 DEF Sandbox!ProcInv, Sandbox!NoOrphans, Sandbox!Watched,
     Sandbox!FinishedHasEnded,
          Sandbox!StartingIsSpawning, Sandbox!ErrorHasNone, Sandbox!LostToCleanup,
          Sandbox!HolderHasEntry, Sandbox!Registered, Sandbox!Alive

\* A step that changes the loop only.
LEMMA SandboxLoopKeeps ==
  ASSUME Sandbox!ProcInv, UNCHANGED Sandbox!ProcButLoop, v8' \in {"free", "busy", "stuck"}
  PROVE  Sandbox!ProcInv'
  BY DEF Sandbox!ProcInv, Sandbox!TypeOK, Sandbox!NoOrphans, Sandbox!Watched, Sandbox!FinishedHasEnded,
     Sandbox!ProcButLoop,
     Sandbox!StartingIsSpawning, Sandbox!ErrorHasNone, Sandbox!LostToCleanup, Sandbox!HolderHasEntry,
     Sandbox!Registered, Sandbox!Alive

-----------------------------------------------------------------------------
(***************************************************************************)
(* Executions of the sandbox server and of the core                        *)
(***************************************************************************)
\* Nothing of a request changes with the processes.
LEMMA SandboxExecUnchangedKeeps ==
  ASSUME Sandbox!ExecInv, UNCHANGED Sandbox!execVars
  PROVE  Sandbox!ExecInv'
  BY DEF Sandbox!ExecInv, Sandbox!ExecTypeOK, Sandbox!AloneIsOpenAlone, Sandbox!OwnText, Sandbox!Open,
     Sandbox!execVars

\* The script is written and the child launched: a request that finds another
\* one open is not alone, and no open one is any more (execute).
LEMMA SandboxExecuteKeeps ==
  ASSUME Sandbox!ExecInv, NEW r \in Requests, NEW s \in Sandbox!Servers, Sandbox!Execute(r, s)
  PROVE  Sandbox!ExecInv'
  <1>0. /\ v10' = r /\ v11[r] = "new"
        /\ v11' = [v11 EXCEPT ![r] = "polling"]
        /\ v12' = [v12 EXCEPT ![r] = "launched"]
        /\ v14' = [v14 EXCEPT ![r] = s]
        /\ v16' = IF Sandbox!Open = {} THEN v16 \cup {r} ELSE v16 \ Sandbox!Open
        /\ UNCHANGED <<v13, v15>>
    BY DEF Sandbox!Execute
  <1>1. Sandbox!ExecTypeOK'
    BY <1>0 DEF Sandbox!ExecInv, Sandbox!ExecTypeOK
  <1>2. Sandbox!Open' = Sandbox!Open \cup {r} /\ r \notin v16 /\ r \notin Sandbox!Open
    BY <1>0 DEF Sandbox!Open, Sandbox!ExecInv, Sandbox!ExecTypeOK, Sandbox!AloneIsOpenAlone
  <1>3. v13[r] = "none"
    BY <1>0 DEF Sandbox!ExecInv, Sandbox!AloneIsOpenAlone
  <1>4. Sandbox!OwnText'
    BY <1>0, <1>3 DEF Sandbox!ExecInv, Sandbox!OwnText
  <1>5. Sandbox!AloneIsOpenAlone'
    <2>0. /\ v11 \in [Requests -> {"new", "polling", "reading", "answered", "lost"}]
          /\ v12 \in [Requests -> {"none", "launched", "runs", "prompts", "ended"}]
          /\ v16 \subseteq Requests
      BY DEF Sandbox!ExecInv, Sandbox!ExecTypeOK
    <2>1. ASSUME NEW q \in v16'
          PROVE  /\ v11'[q] # "new"
                 /\ q \in Sandbox!Open' => Sandbox!Open' = {q}
                 /\ v12'[q] = "launched" => q \in Sandbox!Open' /\ v10' = q
      <3>1. CASE q = r
        BY <1>0, <1>2, <2>0, <2>1, <3>1
      <3>2. CASE q # r
        <4>1. q \in v16 /\ q \notin Sandbox!Open
          BY <1>0, <2>1, <3>2
        <4> QED BY <1>0, <1>2, <2>0, <3>2, <4>1 DEF Sandbox!ExecInv, Sandbox!AloneIsOpenAlone
      <3> QED BY <3>1, <3>2
    <2>2. \A q \in Requests : v11'[q] = "new" => v12'[q] = "none" /\ v13'[q] = "none"
      BY <1>0, <2>0 DEF Sandbox!ExecInv, Sandbox!AloneIsOpenAlone
    <2> QED BY <2>1, <2>2 DEF Sandbox!AloneIsOpenAlone
  <1> QED BY <1>1, <1>4, <1>5 DEF Sandbox!ExecInv

\* A line begins or ends: the request stays open.
LEMMA SandboxLinesKeep ==
  ASSUME Sandbox!ExecInv, NEW r \in Requests, Sandbox!ReadLine(r) \/ Sandbox!LineEnds(r)
  PROVE  Sandbox!ExecInv'
  <1>1. PICK p \in {"polling", "reading"} : v11' = [v11 EXCEPT ![r] = p]
    BY DEF Sandbox!ReadLine, Sandbox!LineEnds
  <1>2. v11[r] \in {"polling", "reading"} /\ UNCHANGED <<v10, v12, v13, v14, v16>>
    BY DEF Sandbox!ReadLine, Sandbox!LineEnds
  <1>3. v15' \in {"free", "busy"}
    BY DEF Sandbox!ReadLine, Sandbox!LineEnds, Sandbox!SetLoop, Sandbox!ExecInv, Sandbox!ExecTypeOK
  <1>4. v11' \in [Requests -> {"new", "polling", "reading", "answered", "lost"}]
    BY <1>1 DEF Sandbox!ExecInv, Sandbox!ExecTypeOK
  <1>5. Sandbox!Open' = Sandbox!Open /\ \A q \in Requests : v11'[q] = "new" <=> v11[q] = "new"
    BY <1>1, <1>2 DEF Sandbox!Open, Sandbox!ExecInv, Sandbox!ExecTypeOK
  <1> QED BY <1>2, <1>3, <1>4, <1>5 DEF Sandbox!ExecInv, Sandbox!ExecTypeOK, Sandbox!AloneIsOpenAlone,
     Sandbox!OwnText

\* A request is answered: it removes cmds.sh, which is that of another one
\* only when this one is not alone.
LEMMA SandboxAnsweredKeeps ==
  ASSUME Sandbox!ExecInv, NEW r \in Requests, Sandbox!Finish(r) \/ Sandbox!TimesOut(r)
  PROVE  Sandbox!ExecInv'
  <1>0. /\ v11 \in [Requests -> {"new", "polling", "reading", "answered", "lost"}]
        /\ v12 \in [Requests -> {"none", "launched", "runs", "prompts", "ended"}]
        /\ v16 \subseteq Requests
    BY DEF Sandbox!ExecInv, Sandbox!ExecTypeOK
  <1>1. /\ v11[r] = "polling" /\ v11' = [v11 EXCEPT ![r] = "answered"]
        /\ v10' = NoScript /\ UNCHANGED <<v12, v13, v14, v15>>
        /\ v16' \subseteq v16 /\ (r \in v16' => v12[r] = "ended")
    BY DEF Sandbox!Finish, Sandbox!TimesOut
  <1>2. Sandbox!Open' = Sandbox!Open \ {r} /\ r \in Sandbox!Open
    BY <1>0, <1>1 DEF Sandbox!Open
  <1>3. Sandbox!ExecTypeOK'
    BY <1>1 DEF Sandbox!ExecInv, Sandbox!ExecTypeOK
  <1>4. Sandbox!OwnText'
    BY <1>1 DEF Sandbox!ExecInv, Sandbox!OwnText
  <1>5. Sandbox!AloneIsOpenAlone'
    BY <1>0, <1>1, <1>2 DEF Sandbox!ExecInv, Sandbox!AloneIsOpenAlone
  <1> QED BY <1>3, <1>4, <1>5 DEF Sandbox!ExecInv

\* The child finds a script, writes, and ends.
LEMMA SandboxChildKeeps ==
  ASSUME Sandbox!ExecInv, NEW r \in Requests, Sandbox!OpenScript(r) \/ Sandbox!Prompt(r) \/ Sandbox!GoOn(r) \/ Sandbox!ChildEnds(r)
  PROVE  Sandbox!ExecInv'
  <1>0. /\ v12 \in [Requests -> {"none", "launched", "runs", "prompts", "ended"}]
        /\ v13 \in [Requests -> Requests \cup {NoScript, "none"}]
        /\ v16 \subseteq Requests /\ v10 \in Requests \cup {NoScript}
    BY DEF Sandbox!ExecInv, Sandbox!ExecTypeOK
  <1>1. v12[r] # "none" /\ UNCHANGED <<v10, v11, v14, v15, v16>>
    BY DEF Sandbox!OpenScript, Sandbox!Prompt, Sandbox!GoOn, Sandbox!ChildEnds
  <1>2. PICK k \in {"runs", "prompts", "ended"} : v12' = [v12 EXCEPT ![r] = k]
    BY DEF Sandbox!OpenScript, Sandbox!Prompt, Sandbox!GoOn, Sandbox!ChildEnds
  <1>3. PICK t \in Requests \cup {NoScript, "none"} :
           v13' = [v13 EXCEPT ![r] = t] /\ (t = v13[r] \/ (v12[r] = "launched" /\ t = v10))
    BY <1>0 DEF Sandbox!OpenScript, Sandbox!Prompt, Sandbox!GoOn, Sandbox!ChildEnds
  <1>4. Sandbox!ExecTypeOK'
    BY <1>0, <1>1, <1>2, <1>3 DEF Sandbox!ExecInv, Sandbox!ExecTypeOK
  <1>5. Sandbox!OwnText'
    BY <1>0, <1>1, <1>3 DEF Sandbox!ExecInv, Sandbox!OwnText, Sandbox!AloneIsOpenAlone
  <1>6. Sandbox!Open' = Sandbox!Open
    BY <1>1 DEF Sandbox!Open
  <1>7. v11[r] # "new"
    BY <1>1 DEF Sandbox!ExecInv, Sandbox!AloneIsOpenAlone
  <1>8. Sandbox!AloneIsOpenAlone'
    BY <1>0, <1>1, <1>2, <1>3, <1>6, <1>7 DEF Sandbox!ExecInv, Sandbox!AloneIsOpenAlone
  <1> QED BY <1>4, <1>5, <1>8 DEF Sandbox!ExecInv

\* A restart of a server takes the children of its requests along.
LEMMA SandboxLoseKeeps ==
  ASSUME Sandbox!ExecInv, NEW s \in Sandbox!Servers, Sandbox!LoseRequests(s), v15' \in {"free", "busy"}
  PROVE  Sandbox!ExecInv'
  <1>0. /\ v11 \in [Requests -> {"new", "polling", "reading", "answered", "lost"}]
        /\ v12 \in [Requests -> {"none", "launched", "runs", "prompts", "ended"}]
        /\ v16 \subseteq Requests
    BY DEF Sandbox!ExecInv, Sandbox!ExecTypeOK
  <1>1. /\ v11' = [r \in Requests |-> IF r \in Sandbox!Of(s) \cap Sandbox!Open THEN "lost" ELSE v11[r]]
        /\ v12' = [r \in Requests |-> IF r \in Sandbox!Of(s) THEN "ended" ELSE v12[r]]
        /\ UNCHANGED <<v10, v13, v14, v16>>
    BY DEF Sandbox!LoseRequests
  <1>2. Sandbox!Open' = Sandbox!Open \ Sandbox!Of(s) /\ \A r \in Sandbox!Of(s) : v11[r] # "new"
    BY <1>0, <1>1 DEF Sandbox!Open, Sandbox!Of
  <1>3. Sandbox!ExecTypeOK'
    BY <1>0, <1>1 DEF Sandbox!ExecInv, Sandbox!ExecTypeOK
  <1>4. Sandbox!AloneIsOpenAlone'
    BY <1>0, <1>1, <1>2 DEF Sandbox!ExecInv, Sandbox!AloneIsOpenAlone
  <1> QED BY <1>1, <1>3, <1>4 DEF Sandbox!ExecInv, Sandbox!OwnText

-----------------------------------------------------------------------------
(***************************************************************************)
(* Every step of the sandbox server                                        *)
(***************************************************************************)
\* No request, no process.
LEMMA SandboxInit ==
  ASSUME Sandbox!Init PROVE Sandbox!IInv
  <1>1. Sandbox!ExecInv
    BY DEF Sandbox!Init, Sandbox!ExecInv, Sandbox!ExecTypeOK, Sandbox!AloneIsOpenAlone, Sandbox!OwnText,
       Sandbox!Open, Sandbox!Servers
  <1> QED BY <1>1, SandboxProcInitHolds DEF Sandbox!Init, Sandbox!IInv

\* A loop is set to one of its states.
LEMMA SandboxSetLoopTypes ==
  ASSUME Sandbox!IInv, NEW s, NEW v \in {"free", "busy"}, Sandbox!SetLoop(s, v)
  PROVE  v8' \in {"free", "busy", "stuck"}
  BY DEF Sandbox!IInv, Sandbox!ProcInv, Sandbox!TypeOK, Sandbox!SetLoop

\* execute() touches nothing of the processes but the loop of its server.
LEMMA SandboxExecKeeps ==
  ASSUME Sandbox!IInv, Sandbox!Exec
  PROVE  Sandbox!IInv'
  <1>1. ASSUME NEW r \in Requests, Sandbox!ReadLine(r) \/ Sandbox!LineEnds(r) PROVE Sandbox!IInv'
    <2>1. UNCHANGED Sandbox!ProcButLoop /\ v8' \in {"free", "busy", "stuck"}
      BY <1>1, SandboxSetLoopTypes DEF Sandbox!ReadLine, Sandbox!LineEnds
    <2> QED BY <1>1, <2>1, SandboxLoopKeeps, SandboxLinesKeep DEF Sandbox!IInv
  <1>2. ASSUME UNCHANGED Sandbox!procVars PROVE Sandbox!ProcInv'
    <2>1. UNCHANGED Sandbox!ProcButLoop /\ v8' \in {"free", "busy", "stuck"}
      BY <1>2 DEF Sandbox!procVars, Sandbox!ProcButLoop, Sandbox!IInv, Sandbox!ProcInv, Sandbox!TypeOK
    <2> QED BY <2>1, SandboxLoopKeeps DEF Sandbox!IInv
  <1>3. ASSUME NEW r \in Requests, NEW s \in Sandbox!Servers, Sandbox!Execute(r, s) PROVE Sandbox!IInv'
    <2>1. UNCHANGED Sandbox!procVars
      BY <1>3 DEF Sandbox!Execute
    <2> QED BY <1>2, <1>3, <2>1, SandboxExecuteKeeps DEF Sandbox!IInv
  <1>4. ASSUME NEW r \in Requests, Sandbox!Finish(r) \/ Sandbox!TimesOut(r) PROVE Sandbox!IInv'
    <2>1. UNCHANGED Sandbox!procVars
      BY <1>4 DEF Sandbox!Finish, Sandbox!TimesOut
    <2> QED BY <1>2, <1>4, <2>1, SandboxAnsweredKeeps DEF Sandbox!IInv
  <1>5. ASSUME NEW r \in Requests, Sandbox!OpenScript(r) \/ Sandbox!Prompt(r) \/ Sandbox!GoOn(r) \/ Sandbox!ChildEnds(r) PROVE Sandbox!IInv'
    <2>1. UNCHANGED Sandbox!procVars
      BY <1>5 DEF Sandbox!OpenScript, Sandbox!Prompt, Sandbox!GoOn, Sandbox!ChildEnds
    <2> QED BY <1>2, <1>5, <2>1, SandboxChildKeeps DEF Sandbox!IInv
  <1> QED BY <1>1, <1>3, <1>4, <1>5 DEF Sandbox!Exec

\* Every step of the server.
LEMMA SandboxStep ==
  ASSUME Sandbox!IInv, [Sandbox!Next]_(Sandbox!vars)
  PROVE  Sandbox!IInv'
  <1>1. CASE Sandbox!Processes
    BY <1>1, SandboxProcStepKeeps, SandboxExecUnchangedKeeps DEF Sandbox!Processes, Sandbox!IInv
  <1>2. CASE Sandbox!Exec
    BY <1>2, SandboxExecKeeps
  <1>3. CASE Sandbox!CrashCore
    <2>1. UNCHANGED Sandbox!ProcButLoop /\ v8' \in {"free", "busy", "stuck"}
      BY <1>3 DEF Sandbox!CrashCore, Sandbox!procVars, Sandbox!ProcButLoop, Sandbox!IInv,
         Sandbox!ProcInv, Sandbox!TypeOK
    <2>2. "core" \in Sandbox!Servers /\ Sandbox!LoseRequests("core") /\ v15' \in {"free", "busy"}
      BY <1>3 DEF Sandbox!CrashCore, Sandbox!Servers
    <2> QED BY <2>1, <2>2, SandboxLoopKeeps, SandboxLoseKeeps DEF Sandbox!IInv
  <1>4. CASE Sandbox!CrashSandbox
    <2>1. "sandbox" \in Sandbox!Servers /\ Sandbox!LoseRequests("sandbox") /\ v15' \in {"free", "busy"}
      BY <1>4 DEF Sandbox!CrashSandbox, Sandbox!Servers, Sandbox!IInv, Sandbox!ExecInv, Sandbox!ExecTypeOK
    <2> QED BY <1>4, <2>1, SandboxCrashKeeps, SandboxLoseKeeps DEF Sandbox!IInv
  <1>5. CASE UNCHANGED Sandbox!vars
    <2>1. UNCHANGED Sandbox!ProcButLoop /\ v8' \in {"free", "busy", "stuck"} /\ UNCHANGED Sandbox!execVars
      BY <1>5 DEF Sandbox!vars, Sandbox!procVars, Sandbox!ProcButLoop, Sandbox!IInv, Sandbox!ProcInv,
         Sandbox!TypeOK
    <2> QED BY <2>1, SandboxLoopKeeps, SandboxExecUnchangedKeeps DEF Sandbox!IInv
  <1> QED BY <1>1, <1>2, <1>3, <1>4, <1>5 DEF Sandbox!Next

-----------------------------------------------------------------------------
(***************************************************************************)
(* The module that runs the components                                     *)
(***************************************************************************)
\* What is unchanged for all components is unchanged for each.
LEMMA Stutters ==
  UNCHANGED vars =>
    /\ UNCHANGED part
    /\ UNCHANGED Versions!vars
    /\ UNCHANGED Tags!vars
    /\ UNCHANGED Scans!vars
    /\ UNCHANGED Links!vars
    /\ UNCHANGED Sandbox!vars
  BY DEF vars, Versions!vars, Tags!vars, Scans!vars, Links!vars, Sandbox!vars,
         Sandbox!procVars, Sandbox!execVars

\* The component is chosen at the start, and only that component takes steps.
LEMMA StepIsOfPart ==
  ASSUME [Next]_vars
  PROVE  /\ part' = part
         /\ part = "Versions" => [Versions!Next]_(Versions!vars)
         /\ part = "Tags" => [Tags!Next]_(Tags!vars)
         /\ part = "Scans" => [Scans!Next]_(Scans!vars)
         /\ part = "Links" => [Links!Next]_(Links!vars)
         /\ part = "Sandbox" => [Sandbox!Next]_(Sandbox!vars)
  BY Stutters
     DEF Next, VersionsRuns, TagsRuns, ScansRuns, LinksRuns, SandboxRuns

\* A scan state that refuses every scan has a scan that will clear it, and a
\* project without a problem has no file that was marked after its last scan,
\* for any number of scans that overlap, fail and put back old dicts.
THEOREM ScanStateStaysTrue == Spec => []ScanStateIsTrue
  <1> DEFINE Inv == part = "Scans" => Scans!IInv
  <1>1. Init => Inv
    BY ScansInit DEF Init
  <1>2. Inv /\ [Next]_vars => Inv'
    BY ScansStep, StepIsOfPart
  <1>3. Inv => ScanStateIsTrue
    BY ScansTrue DEF ScanStateIsTrue
  <1>4. QED
    BY <1>1, <1>2, <1>3, PTL DEF Spec

\* The text of every backup taken can be read back, unless an undo took it or the
\* file had another backup in the same second, whatever was written, restored,
\* moved or failed since, for any names, texts and numbers of backups.
THEOREM BackupsStayReadable == Spec => []BackupsKept
  <1> DEFINE Inv == part = "Versions" => Versions!IInv
  <1>1. Init => Inv
    BY VersionsInit DEF Init
  <1>2. Inv /\ [Next]_vars => Inv'
    BY VersionsStep, StepIsOfPart
  <1>3. Inv => BackupsKept
    BY DEF Versions!IInv, BackupsKept
  <1>4. QED
    BY <1>1, <1>2, <1>3, PTL DEF Spec

\* An accepted patch put its new lines in the place of its old ones, within four
\* lines of where its header says, and a replaced span was one that was looked up;
\* no other line changed; for any lines, hunks, spans and changes of the file
\* between two tags.
THEOREM TagsKeepToTheirLines == Spec => []TagsChangeTheirLines
  <1> DEFINE Inv == part = "Tags" => Tags!IInv
  <1>1. Init => Inv
    BY TagsInit DEF Init
  <1>2. Inv /\ [Next]_vars => Inv'
    BY TagsStep, StepIsOfPart
  <1>3. Inv => TagsChangeTheirLines
    BY DEF TagsChangeTheirLines, Tags!IInv
  <1>4. QED
    BY <1>1, <1>2, <1>3, PTL DEF Spec

\* If a link takes more than one observation, a tick deletes one it spells itself
\* only after its file was off the disk while the row lived, for any files, scans,
\* listings, requests and changes of the disk between its steps.
THEOREM PurgesNeedALoss ==
  ASSUME LinkTtl > 1
  PROVE  Spec => PurgeNeedsLoss
  <1> DEFINE Inv == part = "Links" => Links!IInv
  <1>1. Init => Inv
    BY LinksInit DEF Init
  <1>2. Inv /\ [Next]_vars => Inv'
    BY LinksStep, StepIsOfPart
  <1>3. Inv /\ [Next]_vars => [part = "Links" => Links!PurgeStep]_vars
    BY LinksPurge
  <1>4. QED
    BY <1>1, <1>2, <1>3, PTL DEF Spec, PurgeNeedsLoss

\* The sandbox neither loses nor mistakes a process, whatever the number of
\* processes and requests and whatever the limits: each living process is in
\* the registry, or its spawn was under way when the clean-up ran; each running
\* one is read; a finished one has ended; and a command that met no other one
\* ran its own text (mcp_server.py, execute_commands.py).
THEOREM ProcessesStayKept == Spec => []ProcessesAreKept
  <1> DEFINE Inv == part = "Sandbox" => Sandbox!IInv
  <1>1. Init => Inv
    BY SandboxInit DEF Init
  <1>2. Inv /\ [Next]_vars => Inv'
    BY SandboxStep, StepIsOfPart
  <1>3. Inv => ProcessesAreKept
    BY DEF Sandbox!IInv, Sandbox!ProcInv, Sandbox!ExecInv, Sandbox!ServerTypeOK, ProcessesAreKept
  <1>4. QED
    BY <1>1, <1>2, <1>3, PTL DEF Spec
=============================================================================
