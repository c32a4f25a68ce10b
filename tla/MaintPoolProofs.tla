--------------------------- MODULE MaintPoolProofs ---------------------------
(***************************************************************************)
(* Proofs about the maintenance pool, for any number of workers, projects, *)
(* rows and faults and any lease length.                                   *)
(***************************************************************************)
EXTENDS MaintPool, TLAPS

\* A transaction is open only between its SELECT and its COMMIT; the rows it
\* has locked are expired, stay so, and belong to no other transaction.
TxnInv ==
    /\ \A w \in Workers : proc[w].phase = "claiming" => txn[w].pick \in JobIds
    /\ \A w \in Workers : proc[w].phase # "claiming" => txn[w] = NoTxn
    /\ \A w \in Workers : \A j \in txn[w].expired : Expired(j)
    /\ \A v, w \in Workers : v # w => txn[v].expired \cap txn[w].expired = {}

BusyHasJob == \A w \in Workers : proc[w].phase \in Busy => proc[w].job \in JobIds

IInv == TypeOK /\ TxnInv /\ BusyHasJob /\ OneActivePerProject /\ LeaseIffRunning

\* With timely heartbeats a worker that acts on a job holds its row.
OwnsRow(w) == LET j == proc[w].job IN
    /\ Status(j) = "running"
    /\ jobs[j].worker = w
    /\ jobs[j].lease >= 0

Ownership == \A w \in Workers : proc[w].phase \in Busy => OwnsRow(w)

-----------------------------------------------------------------------------
LEMMA InitIInv == Init => IInv
<1> SUFFICES ASSUME Init PROVE IInv
  OBVIOUS
<1>1. TypeOK
  BY PoolAssumption DEF Init, TypeOK, JobIds, NoTxn, Phases, NoJob
<1>2. TxnInv /\ BusyHasJob
  BY DEF Init, TxnInv, BusyHasJob, Busy, NoTxn
<1>3. OneActivePerProject /\ LeaseIffRunning
  BY DEF Init, OneActivePerProject, LeaseIffRunning, JobIds
<1>4. QED
  BY <1>1, <1>2, <1>3 DEF IInv

LEMMA EnqueueIInv ==
    ASSUME IInv, NEW p \in Projects, NEW k \in Kinds, Enqueue(p, k)
    PROVE  IInv'
<1> USE PoolAssumption DEF IInv, Enqueue
<1>1. JobIds' = JobIds \cup {inserted + 1} /\ inserted + 1 \notin JobIds
  BY DEF JobIds, TypeOK
<1>2. \A j \in JobIds : jobs'[j] = jobs[j]
  BY <1>1 DEF JobIds, TypeOK
<1>3. jobs'[inserted + 1] = [project |-> p, kind |-> k, status |-> "queued",
                             worker |-> NoWorker, lease |-> NoLease]
  BY <1>1 DEF JobIds, TypeOK
<1>4. TypeOK'
  BY <1>1 DEF TypeOK, JobIds, Row, Statuses, NoLease
<1>5. TxnInv'
  <2>1. txn' = txn /\ proc' = proc
    OBVIOUS
  <2>2. \A w \in Workers : \A j \in txn[w].expired : j \in JobIds
    BY DEF TypeOK
  <2>3. \A w \in Workers : \A j \in txn[w].expired : Expired(j)'
    BY <1>2, <2>2 DEF TxnInv, Expired, Status
  <2>4. \A w \in Workers : proc[w].phase = "claiming" => txn[w].pick \in JobIds'
    BY <1>1 DEF TxnInv
  <2>5. QED
    BY <2>1, <2>3, <2>4 DEF TxnInv
<1>6. BusyHasJob'
  BY <1>1 DEF BusyHasJob
<1>7. OneActivePerProject'
  <2> SUFFICES ASSUME NEW i \in JobIds', NEW j \in JobIds',
                      Active(i)', Active(j)', jobs'[i].project = jobs'[j].project
               PROVE  i = j
    BY DEF OneActivePerProject
  <2>1. ASSUME NEW a \in JobIds, Active(a)' PROVE jobs'[a].project # p
    BY <2>1, <1>2 DEF ActiveProjects, Active, Status
  <2>2. CASE i \in JobIds /\ j \in JobIds
    BY <2>2, <1>2 DEF OneActivePerProject, Active, Status
  <2>3. jobs'[inserted + 1].project = p
    BY <1>3
  <2>4. CASE i = inserted + 1 /\ j \in JobIds
    BY <2>1, <2>3, <2>4
  <2>5. CASE i \in JobIds /\ j = inserted + 1
    BY <2>1, <2>3, <2>5
  <2>6. QED
    BY <2>2, <2>4, <2>5, <1>1
<1>8. LeaseIffRunning'
  BY <1>1, <1>2, <1>3 DEF LeaseIffRunning, Status
<1>9. QED
  BY <1>4, <1>5, <1>6, <1>7, <1>8

LEMMA ClaimSelectIInv ==
    ASSUME IInv, NEW w \in Workers, ClaimSelect(w)
    PROVE  IInv'
<1> USE DEF IInv
<1>1. PICK j \in JobIds :
        txn' = [txn EXCEPT ![w] = [expired |-> {i \in JobIds : Expired(i)}, pick |-> j]]
  BY DEF ClaimSelect, Candidates
<1>2. TypeOK'
  BY <1>1 DEF ClaimSelect, TypeOK, JobIds, Phases
<1>3. TxnInv'
  BY <1>1 DEF ClaimSelect, TxnInv, TypeOK, Expired, Status, JobIds, Locked
<1>4. BusyHasJob'
  BY DEF ClaimSelect, BusyHasJob, TypeOK, Busy, JobIds
<1>5. OneActivePerProject' /\ LeaseIffRunning'
  BY DEF ClaimSelect, OneActivePerProject, LeaseIffRunning, Active, Status, JobIds
<1>6. QED
  BY <1>2, <1>3, <1>4, <1>5

\* Writing status, worker_id and lease of a row gives a row.
LEMMA RowEdit ==
    ASSUME NEW r \in Row, NEW s \in Statuses,
           NEW v \in Workers \cup {NoWorker}, NEW l \in NoLease..LeaseLen
    PROVE  [r EXCEPT !.status = s, !.worker = v, !.lease = l] \in Row
  BY DEF Row

LEMMA LeaseValues == NoLease \in NoLease..LeaseLen /\ LeaseLen \in NoLease..LeaseLen
  BY PoolAssumption DEF NoLease

\* What ClaimCommit(w) makes of row j: nothing, a requeued row, or its own.
CommittedRow(w, j) ==
    \/ /\ jobs'[j] = jobs[j]
       /\ j \notin txn[w].expired
    \/ /\ j \in txn[w].expired
       /\ jobs'[j].status = "queued"
       /\ jobs'[j].lease = NoLease
    \/ /\ j = txn[w].pick
       /\ j \in txn[w].expired \/ Status(j) = "queued"
       /\ proc' = [proc EXCEPT ![w] = [phase |-> "claimed", job |-> j]]
       /\ jobs'[j].status = "running"
       /\ jobs'[j].worker = w
       /\ jobs'[j].lease = LeaseLen

\* A table in which one row was edited as the claim's last UPDATE edits it: the
\* other rows are as they were.
LEMMA RowUpdate ==
    ASSUME NEW S, NEW R, NEW f \in [S -> R], NEW q \in S,
           NEW a, NEW b, NEW c, NEW g,
           g = [f EXCEPT ![q].status = a, ![q].worker = b, ![q].lease = c],
           g[q] \in R
    PROVE  /\ g \in [S -> R]
           /\ \A j \in S : j # q => g[j] = f[j]
<1>1. DOMAIN g = S /\ g = [j \in S |-> g[j]]
  OBVIOUS
<1>2. \A j \in S : j # q => g[j] = f[j]
  OBVIOUS
<1>3. \A j \in S : g[j] \in R
  BY <1>2
<1>4. QED
  BY <1>1, <1>2, <1>3

LEMMA CommitRows ==
    ASSUME IInv, NEW w \in Workers, ClaimCommit(w)
    PROVE  /\ JobIds' = JobIds
           /\ jobs' \in [JobIds -> Row]
           /\ \A j \in JobIds : CommittedRow(w, j) /\ jobs'[j].project = jobs[j].project
<1> DEFINE tbl == Requeue(txn[w].expired)
           q == txn[w].pick
<1> USE DEF IInv
<1>1. JobIds' = JobIds
  BY DEF ClaimCommit, JobIds
<1>2. tbl \in [JobIds -> Row]
  <2>1. ASSUME NEW i \in JobIds PROVE tbl[i] \in Row
    <3>1. jobs[i] \in Row
      BY DEF TypeOK
    <3>2. [jobs[i] EXCEPT !.status = "queued", !.worker = NoWorker, !.lease = NoLease] \in Row
      BY <3>1, RowEdit, LeaseValues DEF Statuses
    <3>3. QED
      BY <3>1, <3>2 DEF Requeue
  <2>2. QED
    BY <2>1 DEF Requeue
<1>3. ASSUME NEW j \in JobIds
      PROVE  /\ tbl[j].project = jobs[j].project
             /\ j \notin txn[w].expired => tbl[j] = jobs[j]
             /\ j \in txn[w].expired => tbl[j].status = "queued" /\ tbl[j].lease = NoLease
  <2>1. jobs[j] \in Row
    BY DEF TypeOK
  <2>2. QED
    BY <2>1 DEF Requeue, Row
<1>4. q \in JobIds
  BY DEF ClaimCommit, TxnInv
<1>5. CASE jobs' = tbl
  BY <1>1, <1>2, <1>3, <1>5 DEF CommittedRow
<1>6. CASE /\ tbl[q].status = "queued"
           /\ jobs' = [tbl EXCEPT ![q].status = "running",
                                  ![q].worker = w, ![q].lease = LeaseLen]
           /\ proc' = [proc EXCEPT ![w] = [phase |-> "claimed", job |-> q]]
  <2>1. jobs'[q] = [tbl[q] EXCEPT !.status = "running", !.worker = w, !.lease = LeaseLen]
    BY <1>6, <1>2, <1>4
  <2>2. tbl[q] \in Row
    BY <1>2, <1>4
  <2>3. jobs'[q] \in Row
    <3>1. "running" \in Statuses /\ w \in Workers \cup {NoWorker}
      BY DEF Statuses
    <3>2. [tbl[q] EXCEPT !.status = "running", !.worker = w, !.lease = LeaseLen] \in Row
      BY <2>2, <3>1, RowEdit, LeaseValues
    <3>3. QED
      BY <2>1, <3>2
  <2>4. /\ jobs'[q].project = tbl[q].project
        /\ jobs'[q].status = "running"
        /\ jobs'[q].worker = w
        /\ jobs'[q].lease = LeaseLen
    BY <2>1, <2>2, SMTT(40) DEF Row
  <2>5. q \in txn[w].expired \/ Status(q) = "queued"
    BY <1>6, <1>3, <1>4, SMTT(40) DEF Status
  <2>6. /\ jobs' \in [JobIds -> Row]
        /\ \A j \in JobIds : j # q => jobs'[j] = tbl[j]
    <3> HIDE DEF tbl, q, IInv
    <3>1. QED
      BY <1>2, <1>4, <1>6, <2>3, RowUpdate, ZenonT(60)
  <2>7. jobs' \in [JobIds -> Row]
    BY <2>6
  <2>8. CommittedRow(w, q) /\ jobs'[q].project = jobs[q].project
    BY <1>3, <1>4, <1>6, <2>4, <2>5 DEF CommittedRow
  <2>9. QED
    BY <1>1, <1>3, <2>6, <2>7, <2>8, SMTT(40) DEF CommittedRow
<1>7. QED
  BY <1>5, <1>6, SMTT(40) DEF ClaimCommit

LEMMA ClaimCommitIInv ==
    ASSUME IInv, NEW w \in Workers, ClaimCommit(w)
    PROVE  IInv'
<1>1. /\ JobIds' = JobIds
      /\ jobs' \in [JobIds -> Row]
      /\ \A j \in JobIds : CommittedRow(w, j) /\ jobs'[j].project = jobs[j].project
  BY CommitRows, SMTT(40)
<1> USE DEF IInv
<1>2. txn[w].pick \in JobIds
  BY SMTT(40) DEF ClaimCommit, TxnInv
<1>3. txn' = [txn EXCEPT ![w] = NoTxn] /\ UNCHANGED <<inserted, faults>>
  BY SMTT(40) DEF ClaimCommit
<1>4. \/ proc' = [proc EXCEPT ![w] = [phase |-> "claimed", job |-> txn[w].pick]]
      \/ proc' = [proc EXCEPT ![w].phase = "idle"]
  BY DEF ClaimCommit
<1>5. TypeOK'
  <2>1. txn' \in [Workers -> [expired : SUBSET JobIds, pick : {NoJob} \cup JobIds]]
    BY <1>3 DEF TypeOK, NoTxn
  <2>2. proc' \in [Workers -> [phase : Phases, job : {NoJob} \cup JobIds]]
    BY <1>2, <1>4 DEF TypeOK, Phases
  <2>3. QED
    BY <1>1, <1>3, <2>1, <2>2 DEF TypeOK
<1>6. TxnInv'
  <2>1. ASSUME NEW v \in Workers, NEW j \in txn'[v].expired PROVE Expired(j)'
    <3>1. v # w /\ j \in txn[v].expired
      BY <1>3, <2>1 DEF TypeOK, NoTxn
    <3>2. j \in JobIds /\ j # txn[w].pick /\ j \notin txn[w].expired
      BY <3>1 DEF ClaimCommit, TxnInv, TypeOK
    <3>3. jobs'[j] = jobs[j]
      BY <1>1, <3>2 DEF CommittedRow
    <3>4. QED
      BY <3>1, <3>3 DEF TxnInv, Expired, Status
  <2>2. \A v \in Workers : v # w => proc'[v] = proc[v] /\ txn'[v] = txn[v]
    BY <1>3, <1>4 DEF TypeOK
  <2>3. proc'[w].phase # "claiming" /\ txn'[w] = NoTxn
    BY <1>3, <1>4 DEF TypeOK
  <2>4. ASSUME NEW v \in Workers, NEW u \in Workers, v # u
        PROVE  txn'[v].expired \cap txn'[u].expired = {}
    BY <2>2, <2>3, <2>4 DEF TxnInv, NoTxn
  <2>5. ASSUME NEW v \in Workers
        PROVE  /\ proc'[v].phase = "claiming" => txn'[v].pick \in JobIds
               /\ proc'[v].phase # "claiming" => txn'[v] = NoTxn
    BY <2>2, <2>3, <2>5 DEF TxnInv
  <2>6. QED
    BY <1>1, <2>1, <2>4, <2>5 DEF TxnInv
<1>7. BusyHasJob'
  BY <1>1, <1>2, <1>4 DEF BusyHasJob, TypeOK, Busy
<1>8. ASSUME NEW j \in JobIds PROVE Active(j)' => Active(j)
  <2>1. j \in txn[w].expired => Active(j)
    BY DEF TxnInv, Expired, Active
  <2>2. QED
    BY <1>1, <2>1 DEF CommittedRow, Active, Status
<1>9. OneActivePerProject'
  BY <1>1, <1>8 DEF OneActivePerProject
<1>10. LeaseIffRunning'
  BY <1>1, PoolAssumption DEF CommittedRow, LeaseIffRunning, Status, NoLease
<1>11. QED
  BY <1>5, <1>6, <1>7, <1>9, <1>10

\* Heartbeat, complete_job and fail_job write one row that nobody has locked.
LEMMA RowUpdateIInv ==
    ASSUME IInv, NEW w \in Workers, NEW j \in JobIds, ~Locked(j),
           NEW r \in Row, r.project = jobs[j].project,
           r.status \in {"queued", "running"} => Active(j),
           r.status = "running" <=> r.lease # NoLease,
           jobs' = [jobs EXCEPT ![j] = r],
           proc' = proc \/ ToIdle(w),
           proc[w].phase # "claiming",
           UNCHANGED <<inserted, txn, faults>>
    PROVE  IInv'
<1> USE DEF IInv
<1>1. JobIds' = JobIds
  BY DEF JobIds
<1>2. TypeOK'
  BY <1>1 DEF TypeOK, ToIdle, Phases
<1>3. TxnInv'
  <2>1. ASSUME NEW v \in Workers, NEW i \in txn[v].expired PROVE Expired(i)'
    <3>1. i \in JobIds /\ i # j
      BY DEF TypeOK, Locked
    <3>2. jobs'[i] = jobs[i]
      BY <3>1 DEF TypeOK
    <3>3. QED
      BY <3>2 DEF TxnInv, Expired, Status
  <2>2. ASSUME NEW v \in Workers
        PROVE  proc'[v].phase = "claiming" <=> proc[v].phase = "claiming"
    BY DEF ToIdle, TypeOK
  <2>3. QED
    BY <1>1, <2>1, <2>2 DEF TxnInv
<1>4. BusyHasJob'
  BY <1>1 DEF BusyHasJob, TypeOK, ToIdle, Busy
<1>5. OneActivePerProject'
  BY <1>1 DEF OneActivePerProject, Active, Status, TypeOK
<1>6. LeaseIffRunning'
  BY <1>1 DEF LeaseIffRunning, Status, TypeOK
<1>7. QED
  BY <1>2, <1>3, <1>4, <1>5, <1>6

\* What a worker may do without touching the table.
QuietStep(w) ==
    \/ proc'[w] = proc[w] /\ txn'[w] = txn[w]
    \/ /\ proc[w].phase \in Busy
       /\ proc'[w].phase \in Busy
       /\ proc'[w].job = proc[w].job
       /\ txn'[w] = txn[w]
    \/ /\ proc'[w].phase \in {"idle", "dead"}
       /\ txn'[w] = NoTxn

Quiet ==
    /\ UNCHANGED <<jobs, inserted>>
    /\ faults' \in 0..MaxFaults
    /\ txn' \in [Workers -> [expired : SUBSET JobIds, pick : {NoJob} \cup JobIds]]
    /\ proc' \in [Workers -> [phase : Phases, job : {NoJob} \cup JobIds]]
    /\ \A w \in Workers : QuietStep(w)

LEMMA QuietIInv == IInv /\ Quiet => IInv'
<1> SUFFICES ASSUME IInv, Quiet PROVE IInv'
  OBVIOUS
<1> USE DEF IInv, Quiet
<1>1. JobIds' = JobIds
  BY DEF JobIds
<1>2. TypeOK'
  BY <1>1 DEF TypeOK
<1>3. TxnInv'
  <2>1. ASSUME NEW v \in Workers, NEW i \in txn'[v].expired
        PROVE  i \in txn[v].expired /\ Expired(i)'
    BY DEF QuietStep, NoTxn, TxnInv, Expired, Status
  <2>2. ASSUME NEW v \in Workers
        PROVE  /\ proc'[v].phase = "claiming" => txn'[v].pick \in JobIds
               /\ proc'[v].phase # "claiming" => txn'[v] = NoTxn
    BY DEF QuietStep, TxnInv, Busy
  <2>3. ASSUME NEW v \in Workers, NEW u \in Workers, v # u
        PROVE  txn'[v].expired \cap txn'[u].expired = {}
    BY <2>1, <2>3 DEF TxnInv
  <2>4. QED
    BY <1>1, <2>1, <2>2, <2>3 DEF TxnInv
<1>4. BusyHasJob'
  BY <1>1 DEF QuietStep, BusyHasJob, Busy
<1>5. OneActivePerProject' /\ LeaseIffRunning'
  BY <1>1 DEF OneActivePerProject, LeaseIffRunning, Active, Status
<1>6. QED
  BY <1>2, <1>3, <1>4, <1>5

LEMMA QuietActions ==
    ASSUME IInv, NEW w \in Workers,
           ClaimAbort(w) \/ Lookup(w) \/ Raise(w) \/ Abandon(w) \/ Crash(w)
    PROVE  Quiet
<1> USE PoolAssumption DEF IInv, TypeOK, Fault, Goto, ToIdle, NoTxn, Phases, NoJob
<1>1. UNCHANGED <<jobs, inserted>> /\ faults' \in 0..MaxFaults
  BY DEF ClaimAbort, Lookup, Raise, Abandon, Crash
<1>2. txn' \in [Workers -> [expired : SUBSET JobIds, pick : {NoJob} \cup JobIds]]
  BY DEF ClaimAbort, Lookup, Raise, Abandon, Crash
<1>3. proc' \in [Workers -> [phase : Phases, job : {NoJob} \cup JobIds]]
  BY DEF ClaimAbort, Lookup, Raise, Abandon, Crash
<1>4. \A v \in Workers : v # w => QuietStep(v)
  BY DEF ClaimAbort, Lookup, Raise, Abandon, Crash, QuietStep
<1>5. QuietStep(w)
  <2>1. CASE ClaimAbort(w) \/ Crash(w)
    <3>1. proc'[w].phase \in {"idle", "dead"}
      <4>1. CASE ClaimAbort(w)
        BY <4>1 DEF ClaimAbort
      <4>2. CASE Crash(w)
        BY <4>2 DEF Crash
      <4>3. QED
        BY <2>1, <4>1, <4>2
    <3>2. txn'[w] = NoTxn
      BY <2>1 DEF ClaimAbort, Crash
    <3>3. QED
      BY <3>1, <3>2 DEF QuietStep
  <2>2. CASE Lookup(w) \/ Raise(w)
    <3>1. proc[w].phase \in {"claimed", "running"} /\ txn'[w] = txn[w]
      BY <2>2 DEF Lookup, Raise
    <3>2. proc'[w].phase \in {"running", "failing"} /\ proc'[w].job = proc[w].job
      BY <2>2 DEF Lookup, Raise
    <3>3. QED
      BY <3>1, <3>2 DEF QuietStep, Busy
  <2>3. CASE Abandon(w)
    BY <2>3 DEF Abandon, QuietStep, TxnInv
  <2>4. QED
    BY <2>1, <2>2, <2>3
<1>6. QED
  BY <1>1, <1>2, <1>3, <1>4, <1>5 DEF Quiet

LEMMA RestartQuiet == IInv /\ Restart => Quiet
  BY PoolAssumption
  DEF IInv, TypeOK, Restart, Fault, Quiet, QuietStep, NoTxn, Phases, NoJob

LEMMA TickIInv == IInv /\ Tick => IInv'
<1> SUFFICES ASSUME IInv, Tick PROVE IInv'
  OBVIOUS
<1> USE PoolAssumption DEF IInv
<1>1. JobIds' = JobIds /\ UNCHANGED <<inserted, txn, proc, faults>>
  BY DEF Tick, JobIds
<1>2. ASSUME NEW j \in JobIds
      PROVE  /\ jobs'[j] \in Row
             /\ jobs'[j].project = jobs[j].project
             /\ jobs'[j].status = jobs[j].status
             /\ jobs'[j].lease = NoLease <=> jobs[j].lease = NoLease
             /\ jobs[j].lease = -1 => jobs'[j].lease = -1
  <2>1. jobs[j] \in Row
    BY DEF TypeOK
  <2>2. jobs'[j] = [jobs[j] EXCEPT !.lease = IF @ > -1 THEN @ - 1 ELSE @]
    BY DEF Tick
  <2>3. QED
    BY <2>1, <2>2 DEF Row, NoLease
<1>3. TypeOK'
  BY <1>1, <1>2 DEF TypeOK, Tick
<1>4. TxnInv'
  <2>1. ASSUME NEW v \in Workers, NEW j \in txn[v].expired PROVE Expired(j)'
    <3>1. j \in JobIds /\ Expired(j)
      BY DEF TypeOK, TxnInv
    <3>2. QED
      BY <1>2, <3>1 DEF Expired, Status
  <2>2. QED
    BY <1>1, <2>1 DEF TxnInv
<1>5. BusyHasJob' /\ OneActivePerProject' /\ LeaseIffRunning'
  BY <1>1, <1>2 DEF BusyHasJob, OneActivePerProject, LeaseIffRunning, Active, Status
<1>6. QED
  BY <1>3, <1>4, <1>5

\* The three statements of the program that write a row by job_id alone.
LEMMA WriteActions ==
    ASSUME IInv, NEW w \in Workers, Heartbeat(w) \/ Complete(w) \/ Fail(w)
    PROVE  IInv'
<1> DEFINE j == proc[w].job
<1> USE DEF IInv
<1>1. j \in JobIds /\ ~Locked(j) /\ proc[w].phase # "claiming"
  BY DEF Heartbeat, Complete, Fail, BusyHasJob, Busy
<1>2. jobs[j] \in Row
  BY <1>1 DEF TypeOK
<1>3. PICK r \in Row :
        /\ r.project = jobs[j].project
        /\ r.status \in {"queued", "running"} => Active(j)
        /\ r.status = "running" <=> r.lease # NoLease
        /\ jobs' = [jobs EXCEPT ![j] = r]
  <2>1. CASE Heartbeat(w)
    <3>1. jobs' = [jobs EXCEPT ![j] = [jobs[j] EXCEPT !.lease = LeaseLen]]
      BY <2>1 DEF Heartbeat
    <3>2. [jobs[j] EXCEPT !.lease = LeaseLen] \in Row
      BY <1>2, LeaseValues DEF Row
    <3>3. Status(j) = "running" /\ LeaseLen # NoLease
      BY <2>1, PoolAssumption DEF Heartbeat, NoLease
    <3>4. /\ [jobs[j] EXCEPT !.lease = LeaseLen].lease = LeaseLen
          /\ [jobs[j] EXCEPT !.lease = LeaseLen].status = jobs[j].status
          /\ [jobs[j] EXCEPT !.lease = LeaseLen].project = jobs[j].project
      BY <1>2 DEF Row
    <3>5. QED
      BY <3>1, <3>2, <3>3, <3>4 DEF Active, Status
  <2>2. CASE Complete(w)
    <3>1. jobs' = [jobs EXCEPT ![j] = [jobs[j] EXCEPT !.status = "done", !.lease = NoLease]]
      BY <2>2 DEF Complete
    <3>2. [jobs[j] EXCEPT !.status = "done", !.lease = NoLease] \in Row
      BY <1>2, LeaseValues DEF Row, Statuses
    <3>3. QED
      BY <1>2, <3>1, <3>2 DEF Row
  <2>3. CASE Fail(w)
    <3>1. jobs' = [jobs EXCEPT ![j] = [jobs[j] EXCEPT !.status = "error", !.lease = NoLease]]
      BY <2>3 DEF Fail
    <3>2. [jobs[j] EXCEPT !.status = "error", !.lease = NoLease] \in Row
      BY <1>2, LeaseValues DEF Row, Statuses
    <3>3. QED
      BY <1>2, <3>1, <3>2 DEF Row
  <2>4. QED
    BY <2>1, <2>2, <2>3
<1>4. proc' = proc \/ ToIdle(w)
  BY DEF Heartbeat, Complete, Fail
<1>5. UNCHANGED <<inserted, txn, faults>>
  BY DEF Heartbeat, Complete, Fail
<1>6. QED
  BY <1>1, <1>3, <1>4, <1>5, RowUpdateIInv

LEMMA NextIInv == IInv /\ [Next]_vars => IInv'
<1> SUFFICES ASSUME IInv, [Next]_vars PROVE IInv'
  OBVIOUS
<1>1. ASSUME NEW p \in Projects, NEW k \in Kinds, Enqueue(p, k) PROVE IInv'
  BY <1>1, EnqueueIInv
<1>2. ASSUME NEW w \in Workers, ClaimSelect(w) PROVE IInv'
  BY <1>2, ClaimSelectIInv
<1>3. ASSUME NEW w \in Workers, ClaimCommit(w) PROVE IInv'
  BY <1>3, ClaimCommitIInv
<1>4. ASSUME NEW w \in Workers,
             ClaimAbort(w) \/ Lookup(w) \/ Raise(w) \/ Abandon(w) \/ Crash(w)
      PROVE  IInv'
  BY <1>4, QuietActions, QuietIInv
<1>5. ASSUME NEW w \in Workers, Heartbeat(w) \/ Complete(w) \/ Fail(w) PROVE IInv'
  BY <1>5, WriteActions
<1>6. CASE Restart
  BY <1>6, RestartQuiet, QuietIInv
<1>7. CASE Tick
  BY <1>7, TickIInv
<1>8. CASE UNCHANGED vars
  <2> USE <1>8 DEF vars
  <2>1. JobIds' = JobIds
    BY DEF JobIds
  <2>2. QED
    BY <2>1 DEF IInv, TypeOK, TxnInv, BusyHasJob, OneActivePerProject, LeaseIffRunning,
                Expired, Active, Status
<1>9. QED
  BY <1>1, <1>2, <1>3, <1>4, <1>5, <1>6, <1>7, <1>8 DEF Next

LEMMA Inductive == Spec => []IInv
  BY InitIInv, NextIInv, PTL DEF Spec

\* The variables of the pool always have their types.
THEOREM TypeCorrect == Spec => []TypeOK
  BY Inductive, PTL DEF IInv

\* One active row per project, however late the workers answer.
THEOREM OneActive == Spec => []OneActivePerProject
  BY Inductive, PTL DEF IInv

\* A running row always has a lease that can expire.
THEOREM RunningHasLease == Spec => []LeaseIffRunning
  BY Inductive, PTL DEF IInv

-----------------------------------------------------------------------------
(***************************************************************************)
(* The rest holds when live workers heartbeat in time.  The inductive      *)
(* invariant is strengthened by Ownership: without it a stale worker could *)
(* complete a row that another worker holds by now.                        *)
(***************************************************************************)
LEMMA OwnersDiffer ==
    ASSUME Ownership, NEW v \in Workers, NEW w \in Workers, v # w,
           proc[v].phase \in Busy, proc[w].phase \in Busy
    PROVE  proc[v].job # proc[w].job
  BY DEF Ownership, OwnsRow

LEMMA OwnsRowFrame ==
    ASSUME NEW v \in Workers, OwnsRow(v), proc'[v].job = proc[v].job,
           jobs'[proc[v].job] = jobs[proc[v].job]
    PROVE  OwnsRow(v)'
  BY DEF OwnsRow, Status

LEMMA EnqueueOwnership ==
    ASSUME IInv, Ownership, NEW p \in Projects, NEW k \in Kinds, Enqueue(p, k)
    PROVE  Ownership'
<1> SUFFICES ASSUME NEW v \in Workers, proc'[v].phase \in Busy PROVE OwnsRow(v)'
  BY DEF Ownership
<1>1. proc' = proc /\ proc[v].job \in JobIds
  BY DEF Enqueue, IInv, BusyHasJob
<1>2. jobs'[proc[v].job] = jobs[proc[v].job]
  BY <1>1 DEF Enqueue, JobIds, IInv, TypeOK
<1>3. QED
  BY <1>1, <1>2, OwnsRowFrame DEF Ownership

LEMMA ClaimCommitOwnership ==
    ASSUME IInv, Ownership, NEW w \in Workers, ClaimCommit(w)
    PROVE  Ownership'
<1> DEFINE q == txn[w].pick
<1>1. \A j \in JobIds : CommittedRow(w, j)
  BY CommitRows
<1>2. /\ q \in JobIds
      /\ proc \in [Workers -> [phase : Phases, job : {NoJob} \cup JobIds]]
      /\ proc[w].phase = "claiming"
  BY DEF ClaimCommit, IInv, TxnInv, TypeOK
<1>3. ASSUME NEW v \in Workers, v # w, proc'[v].phase \in Busy PROVE OwnsRow(v)'
  <2>1. proc'[v] = proc[v]
    BY <1>2, <1>3 DEF ClaimCommit
  <2>2. proc[v].job \in JobIds /\ OwnsRow(v)
    BY <1>3, <2>1 DEF IInv, BusyHasJob, Ownership
  <2>3. proc[v].job \notin txn[w].expired
    BY <2>2 DEF IInv, TxnInv, Expired, OwnsRow
  <2>4. Status(proc[v].job) # "queued"
    BY <2>2 DEF OwnsRow
  <2>5. jobs'[proc[v].job] = jobs[proc[v].job]
    BY <1>1, <2>2, <2>3, <2>4 DEF CommittedRow
  <2>6. QED
    BY <2>1, <2>2, <2>5, OwnsRowFrame, SMTT(40)
<1>4. ASSUME proc'[w].phase \in Busy PROVE OwnsRow(w)'
  <2> DEFINE tbl == Requeue(txn[w].expired)
  <2>1. /\ proc' = [proc EXCEPT ![w] = [phase |-> "claimed", job |-> q]]
        /\ jobs' = [tbl EXCEPT ![q].status = "running",
                               ![q].worker = w, ![q].lease = LeaseLen]
    BY <1>2, <1>4 DEF ClaimCommit, Busy
  <2>0. tbl = [j \in JobIds |-> tbl[j]]
    BY DEF Requeue
  <2>2. proc'[w].job = q
    <3> HIDE DEF tbl, q
    <3>1. proc' = [proc EXCEPT ![w] = [phase |-> "claimed", job |-> q]]
      BY <2>1
    <3>2. QED
      BY <1>2, <3>1
  <2>3. jobs'[q] = [tbl[q] EXCEPT !.status = "running", !.worker = w, !.lease = LeaseLen]
    <3> HIDE DEF tbl, q
    <3>1. QED
      BY <1>2, <2>0, <2>1
  <2>4. Requeue(txn[w].expired)[q] \in Row
    <3>1. jobs[q] \in Row
      BY <1>2 DEF IInv, TypeOK
    <3>2. [jobs[q] EXCEPT !.status = "queued", !.worker = NoWorker, !.lease = NoLease] \in Row
      BY <3>1, RowEdit, LeaseValues DEF Statuses
    <3>3. QED
      BY <1>2, <3>1, <3>2 DEF Requeue
  <2>5. jobs'[q].status = "running" /\ jobs'[q].worker = w /\ jobs'[q].lease = LeaseLen
    BY <2>3, <2>4 DEF Row
  <2>6. QED
    BY <2>2, <2>5, PoolAssumption, SMTT(40) DEF OwnsRow, Status
<1>5. QED
  BY <1>3, <1>4 DEF Ownership

\* Only the owner of a row writes it, and an answer ends its work on it.
LEMMA WriteOwnership ==
    ASSUME IInv, Ownership, NEW w \in Workers, Heartbeat(w) \/ Complete(w) \/ Fail(w)
    PROVE  Ownership'
<1> DEFINE j == proc[w].job
<1> SUFFICES ASSUME NEW v \in Workers, proc'[v].phase \in Busy PROVE OwnsRow(v)'
  BY DEF Ownership
<1>1. /\ proc \in [Workers -> [phase : Phases, job : {NoJob} \cup JobIds]]
      /\ jobs \in [JobIds -> Row]
      /\ proc[w].phase \in Busy
      /\ j \in JobIds
  BY DEF Heartbeat, Complete, Fail, IInv, TypeOK, BusyHasJob, Busy
<1>2. proc'[v] = proc[v]
  BY <1>1 DEF Heartbeat, Complete, Fail, ToIdle, Busy
<1>3. proc[v].phase \in Busy /\ OwnsRow(v) /\ proc[v].job \in JobIds
  BY <1>2 DEF Ownership, IInv, BusyHasJob
<1>4. CASE v # w
  <2>1. proc[v].job # j
    BY <1>1, <1>3, <1>4, OwnersDiffer
  <2>2. jobs'[proc[v].job] = jobs[proc[v].job]
    BY <1>1, <1>3, <2>1 DEF Heartbeat, Complete, Fail
  <2>3. QED
    BY <1>2, <1>3, <2>2, OwnsRowFrame
<1>5. CASE v = w
  <2>1. Heartbeat(w)
    BY <1>1, <1>5 DEF Complete, Fail, ToIdle, Busy
  <2>2. jobs'[j] = [jobs[j] EXCEPT !.lease = LeaseLen] /\ jobs[j] \in Row
    BY <1>1, <2>1 DEF Heartbeat
  <2>3. jobs'[j].status = jobs[j].status /\ jobs'[j].worker = jobs[j].worker
        /\ jobs'[j].lease = LeaseLen
    BY <2>2 DEF Row
  <2>4. QED
    BY <1>2, <1>3, <1>5, <2>3, PoolAssumption DEF OwnsRow, Status
<1>6. QED
  BY <1>4, <1>5

LEMMA QuietOwnership == IInv /\ Ownership /\ Quiet => Ownership'
<1> SUFFICES ASSUME IInv, Ownership, Quiet, NEW v \in Workers, proc'[v].phase \in Busy
             PROVE  OwnsRow(v)'
  BY DEF Ownership
<1>1. proc'[v].job = proc[v].job /\ proc[v].phase \in Busy
  BY DEF Quiet, QuietStep, Busy
<1>2. QED
  BY <1>1, OwnsRowFrame DEF Quiet, Ownership

LEMMA TickOwnership ==
    ASSUME TimelyHeartbeat, IInv, Ownership, Tick
    PROVE  Ownership'
<1> SUFFICES ASSUME NEW v \in Workers, proc'[v].phase \in Busy PROVE OwnsRow(v)'
  BY DEF Ownership
<1> DEFINE j == proc[v].job
<1>1. proc' = proc /\ j \in JobIds /\ OwnsRow(v)
  BY DEF Tick, IInv, BusyHasJob, Ownership
<1>2. jobs[j].lease > 0
  BY <1>1 DEF Tick, Timely
<1>3. jobs[j] \in Row /\ jobs'[j] = [jobs[j] EXCEPT !.lease = IF @ > -1 THEN @ - 1 ELSE @]
  BY <1>1 DEF Tick, IInv, TypeOK
<1>4. /\ jobs'[j].status = jobs[j].status
      /\ jobs'[j].worker = jobs[j].worker
      /\ jobs'[j].lease >= 0
  BY <1>2, <1>3 DEF Row, NoLease
<1>5. QED
  BY <1>1, <1>4 DEF OwnsRow, Status

LEMMA NextOwnership ==
    ASSUME TimelyHeartbeat, IInv, Ownership, [Next]_vars
    PROVE  Ownership'
<1>1. ASSUME NEW p \in Projects, NEW k \in Kinds, Enqueue(p, k) PROVE Ownership'
  BY <1>1, EnqueueOwnership
<1>2. ASSUME NEW w \in Workers, ClaimSelect(w) PROVE Ownership'
  <2> SUFFICES ASSUME NEW v \in Workers, proc'[v].phase \in Busy PROVE OwnsRow(v)'
    BY DEF Ownership
  <2>1. proc'[v] = proc[v] /\ UNCHANGED jobs
    BY <1>2 DEF ClaimSelect, IInv, TypeOK, Busy
  <2>2. QED
    BY <2>1, OwnsRowFrame DEF Ownership
<1>3. ASSUME NEW w \in Workers, ClaimCommit(w) PROVE Ownership'
  BY <1>3, ClaimCommitOwnership
<1>4. ASSUME NEW w \in Workers,
             ClaimAbort(w) \/ Lookup(w) \/ Raise(w) \/ Abandon(w) \/ Crash(w)
      PROVE  Ownership'
  BY <1>4, QuietActions, QuietOwnership
<1>5. ASSUME NEW w \in Workers, Heartbeat(w) \/ Complete(w) \/ Fail(w) PROVE Ownership'
  BY <1>5, WriteOwnership
<1>6. CASE Restart
  BY <1>6, RestartQuiet, QuietOwnership
<1>7. CASE Tick
  BY <1>7, TickOwnership
<1>8. CASE UNCHANGED vars
  BY <1>8 DEF vars, Ownership, OwnsRow, Status
<1>9. QED
  BY <1>1, <1>2, <1>3, <1>4, <1>5, <1>6, <1>7, <1>8 DEF Next

LEMMA OwnershipHolds ==
    ASSUME TimelyHeartbeat
    PROVE  Spec => [](IInv /\ Ownership)
<1>1. Init => Ownership
  BY DEF Init, Ownership, Busy
<1>2. IInv /\ Ownership /\ [Next]_vars => Ownership'
  BY NextOwnership
<1>3. QED
  BY <1>1, <1>2, Inductive, NextIInv, PTL DEF Spec

\* Busy workers whose rows belong to one project share the row, hence are one.
LEMMA OwnershipExcludes == IInv /\ Ownership => ProjectExclusion
  BY DEF IInv, BusyHasJob, Ownership, OwnsRow, OneActivePerProject, Active, ProjectExclusion

\* No two workers act on one project at a time, if heartbeats are timely.
THEOREM Exclusion ==
    ASSUME TimelyHeartbeat
    PROVE  Spec => []ProjectExclusion
  BY OwnershipHolds, OwnershipExcludes, PTL

LEMMA LifecycleStep ==
    ASSUME IInv, Ownership, [Next]_vars, NEW j \in JobIds, jobs'[j].status # Status(j)
    PROVE  \/ Status(j) = "queued" /\ jobs'[j].status = "running"
           \/ Status(j) = "running" /\ jobs'[j].status \in {"queued", "done", "error"}
<1>1. jobs \in [JobIds -> Row]
  BY DEF IInv, TypeOK
<1>2. ASSUME NEW p \in Projects, NEW k \in Kinds, Enqueue(p, k) PROVE FALSE
  BY <1>1, <1>2 DEF Enqueue, JobIds, IInv, TypeOK, Status
<1>3. ASSUME NEW w \in Workers, ClaimCommit(w)
      PROVE  \/ Status(j) = "queued" /\ jobs'[j].status = "running"
             \/ Status(j) = "running" /\ jobs'[j].status = "queued"
  <2>1. CommittedRow(w, j) /\ (j \in txn[w].expired => Status(j) = "running")
    BY <1>3, CommitRows DEF IInv, TxnInv, Expired
  <2>2. QED
    BY <2>1 DEF CommittedRow, Status
<1>4. ASSUME NEW w \in Workers, Heartbeat(w) \/ Complete(w) \/ Fail(w)
      PROVE  Status(j) = "running" /\ jobs'[j].status \in {"done", "error"}
  <2> DEFINE i == proc[w].job
  <2>1. i \in JobIds /\ Status(i) = "running"
    BY <1>4 DEF Heartbeat, Complete, Fail, Busy, IInv, BusyHasJob, Ownership, OwnsRow
  <2>2. jobs[j] \in Row
    BY <1>1
  <2>3. CASE Heartbeat(w)
    <3>1. jobs'[j] = jobs[j] \/ jobs'[j] = [jobs[j] EXCEPT !.lease = LeaseLen]
      BY <1>1, <2>1, <2>3 DEF Heartbeat
    <3>2. QED
      BY <2>2, <3>1 DEF Row, Status
  <2>4. CASE Complete(w)
    <3>1. jobs'[j] = jobs[j] \/ (j = i /\ jobs'[j] = [jobs[j] EXCEPT !.status = "done", !.lease = NoLease])
      BY <1>1, <2>1, <2>4 DEF Complete
    <3>2. QED
      BY <2>1, <2>2, <3>1 DEF Row, Status
  <2>5. CASE Fail(w)
    <3>1. jobs'[j] = jobs[j] \/ (j = i /\ jobs'[j] = [jobs[j] EXCEPT !.status = "error", !.lease = NoLease])
      BY <1>1, <2>1, <2>5 DEF Fail
    <3>2. QED
      BY <2>1, <2>2, <3>1 DEF Row, Status
  <2>6. QED
    BY <1>4, <2>3, <2>4, <2>5
<1>5. CASE Tick
  BY <1>1, <1>5 DEF Tick, Status, Row
<1>6. CASE UNCHANGED jobs
  BY <1>6 DEF Status
<1>7. QED
  BY <1>2, <1>3, <1>4, <1>5, <1>6
  DEF Next, vars, ClaimSelect, ClaimAbort, Lookup, Raise, Abandon, Crash, Restart

\* A row only moves along queued -> running -> done or error, or back from
\* running to queued, if heartbeats are timely.
THEOREM Lifecycle ==
    ASSUME TimelyHeartbeat
    PROVE  Spec => StatusLifecycle
<1>1. IInv /\ Ownership /\ [Next]_vars
      => [\A j \in JobIds : jobs'[j].status # Status(j) =>
            \/ Status(j) = "queued" /\ jobs'[j].status = "running"
            \/ Status(j) = "running" /\ jobs'[j].status \in {"queued", "done", "error"}
         ]_vars
  BY LifecycleStep
<1>2. QED
  BY <1>1, OwnershipHolds, PTL DEF Spec, StatusLifecycle

-----------------------------------------------------------------------------
(***************************************************************************)
(* The pool implements ProjectSlots, for any number of workers, projects   *)
(* and rows, as long as heartbeats are timely: each step of the pool is a  *)
(* step of the slots or leaves them alone.                                 *)
(***************************************************************************)
\* The slot of a project in terms of its rows.
SlotIs(p) ==
    /\ \A j \in JobIds : jobs[j].project = p /\ Status(j) = "running" => slotOf[p] = "held"
    /\ \A j \in JobIds : jobs[j].project = p /\ Status(j) = "queued" => slotOf[p] = "waiting"
    /\ (\A j \in JobIds : jobs[j].project = p => ~Active(j)) => slotOf[p] = "free"

LEMMA SlotValue ==
    ASSUME IInv, NEW p \in Projects
    PROVE  SlotIs(p)
<1>1. ASSUME NEW i \in JobIds, NEW j \in JobIds, jobs[i].project = p, jobs[j].project = p,
             Active(i), Active(j)
      PROVE  i = j
  BY <1>1 DEF IInv, OneActivePerProject
<1>2. p \in ActiveProjects <=> \E j \in JobIds : jobs[j].project = p /\ Active(j)
  BY DEF ActiveProjects
<1>3. QED
  BY <1>1, <1>2 DEF SlotIs, slotOf, Active

LEMMA SlotValueNext ==
    ASSUME IInv', NEW p \in Projects
    PROVE  SlotIs(p)'
<1>1. ASSUME NEW i \in JobIds', NEW j \in JobIds', jobs'[i].project = p, jobs'[j].project = p,
             Active(i)', Active(j)'
      PROVE  i = j
  BY <1>1 DEF IInv, OneActivePerProject
<1>2. p \in ActiveProjects' <=> \E j \in JobIds' : jobs'[j].project = p /\ Active(j)'
  BY DEF ActiveProjects
<1>3. QED
  BY <1>1, <1>2 DEF SlotIs, slotOf, Active

\* Slots follow the projects and the statuses of the rows.
LEMMA SlotFrame ==
    ASSUME NEW p \in Projects, JobIds' = JobIds,
           \A j \in JobIds : jobs'[j].project = jobs[j].project,
           \A j \in JobIds : jobs[j].project = p => jobs'[j].status = jobs[j].status
    PROVE  slotOf'[p] = slotOf[p]
<1>1. p \in ActiveProjects' <=> p \in ActiveProjects
  BY DEF ActiveProjects, Active, Status
<1>2. QED
  BY <1>1 DEF slotOf, Status

LEMMA SlotsAreFunctions ==
    /\ slotOf = [p \in Projects |-> slotOf[p]]
    /\ slotOf' = [p \in Projects |-> slotOf'[p]]
    /\ executingOf = [w \in Workers |-> executingOf[w]]
    /\ executingOf' = [w \in Workers |-> executingOf'[w]]
  BY DEF slotOf, executingOf

-----------------------------------------------------------------------------
\* A project with a new row gets a slot that waits.
LEMMA EnqueueRequests ==
    ASSUME IInv, IInv', NEW p \in Projects, NEW k \in Kinds, Enqueue(p, k)
    PROVE  Slots!Request(p)
<1>1. /\ JobIds' = JobIds \cup {inserted + 1} /\ inserted + 1 \notin JobIds
      /\ \A j \in JobIds : jobs'[j] = jobs[j]
      /\ jobs'[inserted + 1].project = p /\ jobs'[inserted + 1].status = "queued"
      /\ proc' = proc
  BY DEF Enqueue, JobIds, IInv, TypeOK
<1>2. slotOf[p] = "free"
  BY SlotValue DEF SlotIs, Enqueue, ActiveProjects
<1>3. slotOf'[p] = "waiting"
  BY <1>1, SlotValueNext DEF SlotIs, Status
<1>4. ASSUME NEW q \in Projects, q # p PROVE slotOf'[q] = slotOf[q]
  <2>1. q \in ActiveProjects' <=> q \in ActiveProjects
    BY <1>1, <1>4 DEF ActiveProjects, Active, Status
  <2>2. QED
    BY <1>1, <1>4, <2>1 DEF slotOf, Status
<1>5. executingOf' = executingOf
  BY <1>1 DEF executingOf, IInv, BusyHasJob
<1>6. slotOf' = [slotOf EXCEPT ![p] = "waiting"]
  BY <1>3, <1>4, SlotsAreFunctions
<1>7. QED
  BY <1>2, <1>5, <1>6 DEF Slots!Request

\* Steps that leave the table alone and start no work: workers are lost.
LEMMA QuietLoses ==
    ASSUME UNCHANGED <<jobs, inserted>>,
           \A w \in Workers : proc'[w].phase \in Busy =>
               proc[w].phase \in Busy /\ proc'[w].job = proc[w].job
    PROVE  Slots!Next
<1> DEFINE W == {w \in Workers : proc'[w].phase \notin Busy}
<1>1. slotOf' = slotOf
  BY DEF slotOf, ActiveProjects, Active, Status, JobIds
<1>2. ASSUME NEW w \in Workers
      PROVE  executingOf'[w] = IF w \in W THEN {} ELSE executingOf[w]
  BY DEF executingOf
<1>3. executingOf' = [w \in Workers |-> IF w \in W THEN {} ELSE executingOf[w]]
  BY <1>2, SlotsAreFunctions
<1>4. Slots!Lose(W)
  BY <1>1, <1>3 DEF Slots!Lose
<1>5. QED
  BY <1>4 DEF Slots!Next

\* Leases are below the slots.
LEMMA LeasesAreHidden ==
    ASSUME IInv, JobIds' = JobIds, proc' = proc,
           \A j \in JobIds : /\ jobs'[j].project = jobs[j].project
                             /\ jobs'[j].status = jobs[j].status
    PROVE  UNCHANGED <<slotOf, executingOf>>
<1>1. \A p \in Projects : slotOf'[p] = slotOf[p]
  BY SlotFrame
<1>2. \A w \in Workers : executingOf'[w] = executingOf[w]
  BY DEF executingOf, IInv, BusyHasJob
<1>3. QED
  BY <1>1, <1>2, SlotsAreFunctions

-----------------------------------------------------------------------------
\* A worker that answers owns its row, and the slot is free again.
LEMMA AnswerReleases ==
    ASSUME IInv, IInv', Ownership, NEW w \in Workers, Complete(w) \/ Fail(w)
    PROVE  Slots!Next
<1> DEFINE j == proc[w].job
           p == jobs[j].project
<1>1. /\ proc[w].phase \in Busy /\ j \in JobIds /\ Status(j) = "running"
      /\ p \in Projects /\ jobs \in [JobIds -> Row] /\ jobs[j] \in Row
  BY DEF Complete, Fail, Busy, IInv, BusyHasJob, Ownership, OwnsRow, TypeOK, Row
<1>2. /\ JobIds' = JobIds
      /\ \A v \in Workers \ {w} : proc'[v] = proc[v]
      /\ proc'[w].phase \notin Busy
  BY DEF Complete, Fail, ToIdle, Busy, JobIds, IInv, TypeOK
<1>3. PICK st \in {"done", "error"} : jobs' = [jobs EXCEPT ![j].status = st, ![j].lease = NoLease]
  BY DEF Complete, Fail
<1>4. /\ jobs'[j].status \in {"done", "error"}
      /\ \A i \in JobIds : jobs'[i].project = jobs[i].project
      /\ \A i \in JobIds \ {j} : jobs'[i] = jobs[i]
  <2>1. jobs'[j] = [jobs[j] EXCEPT !.status = st, !.lease = NoLease]
    BY <1>1, <1>3
  <2>2. \A i \in JobIds \ {j} : jobs'[i] = jobs[i]
    BY <1>1, <1>3
  <2>3. QED
    BY <1>1, <2>1, <2>2 DEF Row
<1> HIDE DEF j
<1>5. slotOf'[p] = "free"
  <2>1. \A i \in JobIds : jobs[i].project = p /\ Active(i) => i = j
    BY <1>1 DEF IInv, OneActivePerProject, Active
  <2>2. \A i \in JobIds : jobs'[i].project = p => ~Active(i)'
    BY <1>4, <2>1 DEF Active, Status
  <2>3. QED
    BY <1>1, <1>2, <2>2, SlotValueNext DEF SlotIs
<1>6. \A q \in Projects \ {p} : slotOf'[q] = slotOf[q]
  BY <1>2, <1>4, SlotFrame
<1>7. slotOf' = [slotOf EXCEPT ![p] = "free"]
  BY <1>5, <1>6, SlotsAreFunctions
<1>8. executingOf[w] = {p} /\ executingOf'[w] = {}
  BY <1>1, <1>2 DEF executingOf, j
<1>9. \A v \in Workers \ {w} : executingOf'[v] = executingOf[v]
  BY <1>2, <1>4 DEF executingOf, IInv, BusyHasJob
<1>10. executingOf' = [executingOf EXCEPT ![w] = {}]
  BY <1>8, <1>9, SlotsAreFunctions
<1>11. Slots!Release(w, p)
  BY <1>7, <1>8, <1>10 DEF Slots!Release
<1>12. QED
  BY <1>1, <1>11 DEF Slots!Next

\* The rows that a claim requeues belong to slots whose holder is lost: a
\* worker that still acts on such a project would own its only active row,
\* with a lease that is not over.
LEMMA ExpiredOrphaned ==
    ASSUME IInv, Ownership, NEW i \in JobIds, Expired(i)
    PROVE  Slots!Orphaned(jobs[i].project)
<1> DEFINE q == jobs[i].project
<1>1. q \in Projects /\ Status(i) = "running" /\ jobs[i].lease = -1
  BY DEF Expired, IInv, TypeOK, Row
<1>2. slotOf[q] = "held"
  BY <1>1, SlotValue DEF SlotIs
<1>3. ASSUME NEW v \in Workers, q \in executingOf[v] PROVE FALSE
  <2>1. proc[v].phase \in Busy /\ jobs[proc[v].job].project = q
    BY <1>3 DEF executingOf
  <2>2. proc[v].job \in JobIds /\ Status(proc[v].job) = "running" /\ jobs[proc[v].job].lease >= 0
    BY <2>1 DEF IInv, BusyHasJob, Ownership, OwnsRow
  <2>3. proc[v].job = i
    BY <1>1, <2>1, <2>2 DEF IInv, OneActivePerProject, Active
  <2>4. QED
    BY <1>1, <2>2, <2>3
<1>4. QED
  BY <1>2, <1>3 DEF Slots!Orphaned

\* A claim requeues the expired rows and takes one row, or none.
LEMMA ClaimTakes ==
    ASSUME IInv, IInv', Ownership, NEW w \in Workers, ClaimCommit(w)
    PROVE  Slots!Next \/ UNCHANGED <<slotOf, executingOf>>
<1> DEFINE E == txn[w].expired
           S == {jobs[i].project : i \in E}
           j == txn[w].pick
<1>1. /\ JobIds' = JobIds /\ jobs' \in [JobIds -> Row]
      /\ \A i \in JobIds : CommittedRow(w, i) /\ jobs'[i].project = jobs[i].project
  BY CommitRows
<1>2. /\ E \subseteq JobIds /\ j \in JobIds
      /\ \A i \in E : Expired(i)
      /\ proc[w].phase = "claiming"
      /\ \A i \in JobIds : jobs[i].project \in Projects
  BY DEF ClaimCommit, IInv, TxnInv, TypeOK, Row
<1>3. S \in SUBSET Projects
  BY <1>2
<1>4. \A q \in S : Slots!Orphaned(q)
  BY <1>2, ExpiredOrphaned
<1>5. \A i \in E : Status(i) = "running"
  BY <1>2 DEF Expired
\* Projects apart from that of the row taken.
<1>6. ASSUME NEW q \in Projects, \A i \in JobIds : jobs[i].project = q => jobs'[i].status # "running" \/ jobs'[i] = jobs[i]
      PROVE  slotOf'[q] = IF q \in S THEN "waiting" ELSE slotOf[q]
  <2>1. CASE q \in S
    <3>1. PICK i \in E : jobs[i].project = q
      BY <2>1
    <3>2. /\ i \in JobIds /\ CommittedRow(w, i)
          /\ jobs'[i].project = q /\ jobs[i].lease = -1
          /\ jobs'[i].status # "running" \/ jobs'[i] = jobs[i]
      BY <1>1, <1>2, <1>6, <3>1 DEF Expired
    <3>3. jobs'[i].lease # LeaseLen \/ jobs'[i].status # "running"
      BY <3>2, PoolAssumption
    <3>4. jobs'[i].status = "queued"
      BY <3>1, <3>2, <3>3 DEF CommittedRow
    <3>5. QED
      BY <1>1, <2>1, <3>2, <3>4, SlotValueNext DEF SlotIs, Status
  <2>2. CASE q \notin S
    <3>1. \A i \in JobIds : jobs[i].project = q => i \notin E
      BY <2>2
    <3>2. \A i \in JobIds : jobs[i].project = q => jobs'[i] = jobs[i]
      BY <1>1, <1>6, <3>1 DEF CommittedRow
    <3>3. QED
      BY <1>1, <2>2, <3>2, SlotFrame
  <2>3. QED
    BY <2>1, <2>2
<1>7. CASE proc' = [proc EXCEPT ![w] = [phase |-> "claimed", job |-> j]]
           /\ jobs'[j].status = "running" /\ (j \in E \/ Status(j) = "queued")
  <2> DEFINE p == jobs[j].project
  <2>1. p \in Projects /\ slotOf'[p] = "held"
    BY <1>1, <1>2, <1>7, SlotValueNext DEF SlotIs, Status
  <2>2. ASSUME NEW q \in Projects, q # p
        PROVE  slotOf'[q] = IF q \in S THEN "waiting" ELSE slotOf[q]
    <3>1. \A i \in JobIds : jobs[i].project = q => jobs'[i].status # "running" \/ jobs'[i] = jobs[i]
      BY <1>1, <2>2 DEF CommittedRow
    <3>2. QED
      BY <1>6, <3>1
  <2>3. slotOf' = [q \in Projects |-> IF q = p THEN "held"
                                     ELSE IF q \in S THEN "waiting" ELSE slotOf[q]]
    BY <2>1, <2>2, SlotsAreFunctions
  <2>4. slotOf[p] = "waiting" \/ p \in S
    BY <1>2, <1>7, <2>1, SlotValue DEF SlotIs
  <2>5. Slots!Idle(w)
    BY <1>2 DEF Slots!Idle, executingOf, Busy
  <2>6. proc'[w] = [phase |-> "claimed", job |-> j] /\ \A v \in Workers \ {w} : proc'[v] = proc[v]
    BY <1>7 DEF IInv, TypeOK
  <2>7. executingOf'[w] = {p}
    BY <1>1, <1>2, <2>6 DEF executingOf, Busy
  <2>8. \A v \in Workers \ {w} : executingOf'[v] = executingOf[v]
    BY <1>1, <2>6 DEF executingOf, IInv, BusyHasJob
  <2>9. executingOf' = [executingOf EXCEPT ![w] = {p}]
    BY <2>7, <2>8, SlotsAreFunctions
  <2>10. Slots!Take(w, p, S)
    BY <1>4, <2>3, <2>4, <2>5, <2>9 DEF Slots!Take
  <2>11. QED
    BY <1>3, <2>1, <2>10 DEF Slots!Next
<1>8. CASE jobs' = Requeue(E) /\ proc' = [proc EXCEPT ![w].phase = "idle"]
  <2>1. ASSUME NEW i \in JobIds PROVE jobs'[i].status # "running" \/ jobs'[i] = jobs[i]
    <3>1. jobs[i] \in Row
      BY DEF IInv, TypeOK
    <3>2. QED
      BY <1>8, <3>1 DEF Requeue, Row
  <2>2. \A q \in Projects : slotOf'[q] = IF q \in S THEN "waiting" ELSE slotOf[q]
    BY <1>6, <2>1
  <2>3. \A v \in Workers : executingOf'[v] = executingOf[v]
    <3>1. /\ \A v \in Workers \ {w} : proc'[v] = proc[v]
          /\ proc'[w].phase = "idle"
      BY <1>8 DEF IInv, TypeOK
    <3>2. QED
      BY <1>1, <1>2, <3>1 DEF executingOf, IInv, BusyHasJob, Busy
  <2>4. executingOf' = executingOf
    BY <2>3, SlotsAreFunctions
  <2>5. slotOf' = [q \in Projects |-> IF q \in S THEN "waiting" ELSE slotOf[q]]
    BY <2>2, SlotsAreFunctions
  <2>6. CASE S = {}
    BY <2>4, <2>5, <2>6, SlotsAreFunctions
  <2>7. CASE S # {}
    <3>1. Slots!Reclaim(S)
      BY <1>4, <2>4, <2>5, <2>7 DEF Slots!Reclaim
    <3>2. QED
      BY <1>3, <3>1 DEF Slots!Next
  <2>8. QED
    BY <2>6, <2>7
<1>9. QED
  <2>1. CASE Requeue(E)[j].status = "queued"
    <3>1. proc' = [proc EXCEPT ![w] = [phase |-> "claimed", job |-> j]]
          /\ jobs' = [Requeue(E) EXCEPT ![j].status = "running", ![j].worker = w, ![j].lease = LeaseLen]
      BY <2>1 DEF ClaimCommit
    <3>2. j \in E \/ Status(j) = "queued"
      BY <1>2, <2>1 DEF Requeue, Status
    <3>3. jobs'[j].status = "running"
      <4>1. Requeue(E)[j] \in Row
        <5>1. jobs[j] \in Row
          BY <1>2 DEF IInv, TypeOK
        <5>2. [jobs[j] EXCEPT !.status = "queued", !.worker = NoWorker, !.lease = NoLease] \in Row
          BY <5>1, RowEdit, LeaseValues, ZenonT(60) DEF Statuses
        <5>3. QED
          BY <1>2, <5>1, <5>2 DEF Requeue
      <4>2. jobs'[j] = [Requeue(E)[j] EXCEPT !.status = "running", !.worker = w, !.lease = LeaseLen]
        BY <1>2, <3>1, ZenonT(60) DEF Requeue
      <4>3. QED
        BY <4>1, <4>2 DEF Row
    <3>4. QED
      BY <1>7, <3>1, <3>2, <3>3, SMTT(40)
  <2>2. CASE Requeue(E)[j].status # "queued"
    BY <1>8, <2>2 DEF ClaimCommit
  <2>3. QED
    BY <2>1, <2>2, SMTT(40)
-----------------------------------------------------------------------------
LEMMA InitSlots == Init => Slots!Init
  BY DEF Init, Slots!Init, slotOf, executingOf, ActiveProjects, JobIds, Busy

LEMMA QuietSlots ==
    ASSUME Quiet
    PROVE  Slots!Next
<1>1. UNCHANGED <<jobs, inserted>>
  BY DEF Quiet
<1>2. ASSUME NEW w \in Workers, proc'[w].phase \in Busy
      PROVE  proc[w].phase \in Busy /\ proc'[w].job = proc[w].job
  BY <1>2 DEF Quiet, QuietStep, Busy
<1>3. QED
  BY <1>1, <1>2, QuietLoses

\* Each step of the pool is a step of the slots, or leaves them alone.
LEMMA NextSlots ==
    ASSUME IInv, IInv', Ownership, [Next]_vars
    PROVE  Slots!Next \/ UNCHANGED <<slotOf, executingOf>>
<1>1. ASSUME NEW p \in Projects, NEW k \in Kinds, Enqueue(p, k) PROVE Slots!Next
  BY <1>1, EnqueueRequests DEF Slots!Next
<1>2. ASSUME NEW w \in Workers, ClaimSelect(w) PROVE Slots!Next
  <2>1. UNCHANGED <<jobs, inserted>>
    BY <1>2 DEF ClaimSelect
  <2>2. \A v \in Workers : proc'[v].phase \in Busy => proc'[v] = proc[v]
    BY <1>2 DEF ClaimSelect, IInv, TypeOK, Busy
  <2>3. QED
    BY <2>1, <2>2, QuietLoses
<1>3. ASSUME NEW w \in Workers, ClaimCommit(w)
      PROVE  Slots!Next \/ UNCHANGED <<slotOf, executingOf>>
  BY <1>3, ClaimTakes
<1>4. ASSUME NEW w \in Workers,
             ClaimAbort(w) \/ Lookup(w) \/ Raise(w) \/ Abandon(w) \/ Crash(w)
      PROVE  Slots!Next
  BY <1>4, QuietActions, QuietSlots
<1>5. ASSUME NEW w \in Workers, Heartbeat(w)
      PROVE  UNCHANGED <<slotOf, executingOf>>
  <2> DEFINE j == proc[w].job
  <2>1. JobIds' = JobIds /\ proc' = proc
    BY <1>5 DEF Heartbeat, JobIds
  <2>2. ASSUME NEW i \in JobIds
        PROVE  jobs'[i].project = jobs[i].project /\ jobs'[i].status = jobs[i].status
    <3>1. jobs[i] \in Row /\ jobs \in [JobIds -> Row]
      BY DEF IInv, TypeOK
    <3>2. jobs'[i] = jobs[i] \/ jobs'[i] = [jobs[i] EXCEPT !.lease = LeaseLen]
      BY <1>5, <3>1 DEF Heartbeat
    <3>3. QED
      BY <3>1, <3>2 DEF Row
  <2>3. QED
    BY <2>1, <2>2, LeasesAreHidden
<1>6. ASSUME NEW w \in Workers, Complete(w) \/ Fail(w) PROVE Slots!Next
  BY <1>6, AnswerReleases
<1>7. CASE Restart
  BY <1>7, RestartQuiet, QuietSlots
<1>8. CASE Tick
  <2>1. JobIds' = JobIds /\ proc' = proc
    BY <1>8 DEF Tick, JobIds
  <2>2. ASSUME NEW i \in JobIds
        PROVE  jobs'[i].project = jobs[i].project /\ jobs'[i].status = jobs[i].status
    <3>1. jobs[i] \in Row
      BY DEF IInv, TypeOK
    <3>2. jobs'[i] = [jobs[i] EXCEPT !.lease = IF @ > -1 THEN @ - 1 ELSE @]
      BY <1>8 DEF Tick
    <3>3. QED
      BY <3>1, <3>2 DEF Row
  <2>3. QED
    BY <2>1, <2>2, LeasesAreHidden
<1>9. CASE UNCHANGED vars
  <2>1. JobIds' = JobIds /\ proc' = proc /\ jobs' = jobs
    BY <1>9 DEF vars, JobIds
  <2>2. QED
    BY <2>1, LeasesAreHidden
<1>10. QED
  BY <1>1, <1>2, <1>3, <1>4, <1>5, <1>6, <1>7, <1>8, <1>9 DEF Next

\* The pool gives every project one slot, held by one worker at a time and
\* reclaimed only when its holder is lost, if heartbeats are timely.
THEOREM Implements ==
    ASSUME TimelyHeartbeat
    PROVE  Spec => ImplementsSlots
<1>1. (IInv /\ Ownership) /\ (IInv /\ Ownership)' /\ [Next]_vars
      => [Slots!Next]_<<slotOf, executingOf>>
  BY NextSlots
<1>2. Init => Slots!Init
  BY InitSlots
<1>3. QED
  BY <1>1, <1>2, OwnershipHolds, PTL DEF Spec, ImplementsSlots, Slots!Spec, Slots!vars
=============================================================================
