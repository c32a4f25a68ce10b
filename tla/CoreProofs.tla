----------------------------- MODULE CoreProofs -----------------------------
(***************************************************************************)
(* Proofs about the components of the core, for every value of their       *)
(* settings and bounds.  Each component's inductive invariant is in its    *)
(* own module; here are its three facts, and, at the end, the theorems     *)
(* about the module that runs all components.                              *)
(***************************************************************************)
EXTENDS MCCore, Integers, Sequences, FiniteSets, FiniteSetTheorems, SequenceTheorems,
        TLAPS, WellFoundedInduction

\* A set of numbers that is not empty has a least one.
LEMMA LeastExists ==
  ASSUME NEW S \in SUBSET Nat, S # {}
  PROVE  \E i \in S : \A j \in S : i <= j
  <1>1. PICK x \in S : \A y \in S : ~ (<<y, x>> \in OpToRel(<, Nat))
    BY NatLessThanWellFounded, WFMin
  <1>2. ASSUME NEW y \in S PROVE x <= y
    <2>1. x \in Nat /\ y \in Nat
      OBVIOUS
    <2>2. y < x => <<y, x>> \in OpToRel(<, Nat)
      BY <2>1 DEF OpToRel
    <2>3. ~ (y < x)
      BY <1>1, <2>2
    <2>4. QED
      BY <2>1, <2>3
  <1>3. QED
    BY <1>2

\* A set of numbers below a bound that is not empty has a largest one.
LEMMA LargestExists ==
  ASSUME NEW n \in Nat, NEW S \in SUBSET (1..n), S # {}
  PROVE  \E i \in S : \A j \in S : j <= i
  <1> DEFINE below == {n - i : i \in S}
  <1>1. below \subseteq Nat /\ below # {}
    <2>1. \A i \in S : n - i \in Nat
      OBVIOUS
    <2>2. PICK i \in S : TRUE
      OBVIOUS
    <2>3. n - i \in below
      OBVIOUS
    <2>4. QED
      BY <2>1, <2>3
  <1> HIDE DEF below
  <1>2. PICK x \in below : \A y \in below : x <= y
    BY <1>1, LeastExists
  <1>3. PICK i \in S : x = n - i
    BY DEF below
  <1>4. ASSUME NEW j \in S PROVE j <= i
    <2>1. x <= n - j
      BY <1>2 DEF below
    <2>2. QED
      BY <1>3, <2>1
  <1>5. QED
    BY <1>4

\* An element of a sequence over a set is in the set.
LEMMA ElementOf ==
  ASSUME NEW S, NEW s \in Seq(S), NEW i \in DOMAIN s
  PROVE  s[i] \in S
  OBVIOUS

-----------------------------------------------------------------------------
(***************************************************************************)
(* Password rotation                                                       *)
(***************************************************************************)
\* At first all passwords are the same, and a token has it or is in plain text.
LEMMA RotationInit == Rotation!Init => Rotation!IInv
  <1> SUFFICES ASSUME Rotation!Init PROVE Rotation!IInv
    OBVIOUS
  <1>1. /\ v4 \in [Clients -> [value : Nat \cup {None}, key : Nat \cup {None}]]
        /\ \A u \in Clients : v4[u].key \in {None, 0}
    BY DEF Rotation!Init
  <1>2. <<>> \in Rotation!Rows
    <2>1. <<>> \in [{} -> Nat]
      OBVIOUS
    <2>2. QED
      BY <2>1 DEF Rotation!Rows
  <1>3. Rotation!TypeOK
    BY <1>1, <1>2 DEF Rotation!Init, Rotation!TypeOK, Rotation!NoRotation
  <1>4. QED
    BY <1>1, <1>3 DEF Rotation!Init, Rotation!IInv, Rotation!RotationGoesOn, Rotation!OpensAtEachPlace,
                      Rotation!Settled, Rotation!Opens, Rotation!At, Rotation!NoRotation

\* A core that starts opens the database with the secret or stays down; a token
\* that opened with the secret still does, and others than those in plain text
\* stay as they are.
LEMMA RotationBooted ==
  ASSUME Rotation!TypeOK, Rotation!Booted(v2)
  PROVE  /\ v4' \in [Clients -> [value : Nat \cup {None}, key : Nat \cup {None}]]
         /\ v5' \in Nat \cup {None}
         /\ \A u \in Clients : /\ Rotation!Opens(v4[u], v2) => Rotation!Opens(v4'[u], v2)
                               /\ v2 # v1 \/ ~Rotation!InPlainText(u) => v4'[u] = v4[u]
  BY DEF Rotation!TypeOK, Rotation!Booted, Rotation!Opens, Rotation!InPlainText

\* Every step of a rotation, of the core and of the people who set tokens keeps
\* the invariant.
LEMMA RotationStep == Rotation!IInv /\ [Rotation!Next]_(Rotation!vars) => Rotation!IInv'
  <1> SUFFICES ASSUME Rotation!IInv, [Rotation!Next]_(Rotation!vars) PROVE Rotation!IInv'
    OBVIOUS
  <1> USE DEF Rotation!IInv, Rotation!RotationGoesOn, Rotation!OpensAtEachPlace,
              Rotation!Settled, Rotation!Opens, Rotation!At
  <1> USE DEF Rotation!Then, Rotation!Abort, Rotation!NoRotation, Rotation!soFar, Rotation!passwords
  <1>a. <<>> \in Rotation!Rows
    <2>1. <<>> \in [{} -> Nat]
      OBVIOUS
    <2>2. QED
      BY <2>1 DEF Rotation!Rows
  <1>b. \A r \in Rotation!Rows : DOMAIN r \subseteq Clients /\ \A u \in DOMAIN r : r[u] \in Nat
    BY DEF Rotation!Rows
  <1>1. ASSUME NEW skipDb \in BOOLEAN, NEW skipTokens \in BOOLEAN, Rotation!Begin(skipDb, skipTokens)
        PROVE  Rotation!IInv'
    <2>1. Rotation!TypeOK'
      BY <1>1, <1>a DEF Rotation!Begin, Rotation!TypeOK
    <2>2. /\ v6'.pc = (IF skipDb THEN "write" ELSE IF skipTokens THEN "alter" ELSE "pull")
          /\ v6'.old \in Nat /\ v6'.new \in Nat /\ v6'.skipTokens = (skipDb \/ skipTokens)
          /\ v6.pc = "none" /\ UNCHANGED <<v1, v2, v4, v7, v11>>
      BY <1>1 DEF Rotation!Begin, Rotation!TypeOK
    <2>3. QED
      BY <2>1, <2>2
  <1>2. CASE Rotation!Pull
    <2> DEFINE rows == [u \in Rotation!WithToken |-> v4[u].value]
    <2>1. v6.pc = "pull" /\ UNCHANGED <<v1, v2, v3, v4, v5, v7, v8, v9, v10>>
      BY <1>2 DEF Rotation!Pull
    <2>2. CASE v6' = Rotation!NoRotation /\ v11' = v11
      <3>1. Rotation!TypeOK'
        BY <1>a, <2>1, <2>2 DEF Rotation!TypeOK
      <3>2. QED
        BY <2>1, <2>2, <3>1
    <2>3. CASE /\ v6' = [v6 EXCEPT !.pc = "alter", !.rows = rows] /\ v11' = {}
               /\ \A u \in Clients : Rotation!Opens(v4[u], v6.old)
      <3>1. rows \in [Rotation!WithToken -> Nat] /\ Rotation!WithToken \subseteq Clients
        BY DEF Rotation!TypeOK, Rotation!WithToken
      <3>2. \A u \in Clients \ DOMAIN rows : v4[u].value = None
        BY DEF Rotation!WithToken
      <3> HIDE DEF rows
      <3>3. rows \in Rotation!Rows
        BY <3>1 DEF Rotation!Rows
      <3>4. /\ v6'.pc = "alter" /\ v6'.rows = rows /\ v6'.old = v6.old /\ v6'.new = v6.new
            /\ v6'.skipTokens = v6.skipTokens
        BY <2>3 DEF Rotation!TypeOK
      <3>5. Rotation!TypeOK'
        BY <2>1, <2>3, <3>3 DEF Rotation!TypeOK
      <3>6. Rotation!RotationGoesOn'
        BY <2>1, <2>3, <3>2, <3>4
      <3>7. ~v7 => v2 = v1 /\ \A u \in Clients : Rotation!Opens(v4[u], v2)
        <4>1. PICK old : old = v6.old /\ v5 # None /\ v1 = old
          BY <1>2, <2>1, <2>3, <3>4 DEF Rotation!Pull
        <4>2. QED
          BY <2>1, <2>3, <4>1
      <3>8. QED
        BY <2>1, <2>3, <3>4, <3>5, <3>6, <3>7
    <2>4. QED
      BY <1>2, <2>2, <2>3 DEF Rotation!Pull
  <1>3. CASE Rotation!AlterRoles
    <2>1. Rotation!TypeOK'
      BY <1>3 DEF Rotation!AlterRoles, Rotation!TypeOK
    <2>2. /\ v6.pc = "alter" /\ v1' = v6.new /\ UNCHANGED <<v2, v4, v7, v11>>
          /\ v6'.pc = "write" /\ v6'.rows = v6.rows /\ v6'.new = v6.new /\ v6'.old = v6.old
          /\ v6'.skipTokens = v6.skipTokens
      BY <1>3 DEF Rotation!AlterRoles, Rotation!TypeOK
    <2>3. QED
      BY <2>1, <2>2
  <1>4. CASE Rotation!WriteSecretFile
    <2>1. Rotation!TypeOK'
      BY <1>4 DEF Rotation!WriteSecretFile, Rotation!TypeOK
    <2>2. /\ v6.pc = "write" /\ v2' = v6.new /\ UNCHANGED <<v1, v4, v11>>
          /\ v6'.rows = v6.rows /\ v6'.new = v6.new /\ v6'.old = v6.old
          /\ v6'.skipTokens = v6.skipTokens /\ (v7' <=> (v7 \/ v6.skipTokens))
      BY <1>4 DEF Rotation!WriteSecretFile, Rotation!TypeOK
    <2>3. CASE v6.skipTokens \/ DOMAIN v6.rows = {}
      <3>1. v6'.pc = "replace"
        BY <1>4, <2>3 DEF Rotation!WriteSecretFile, Rotation!TypeOK
      <3>2. ~v7' => v1 = v6.new /\ \A u \in Clients \ v11 : Rotation!Opens(v4[u], v6.new)
        BY <2>2, <2>3
      <3>3. QED
        BY <2>1, <2>2, <3>1, <3>2
    <2>4. CASE ~(v6.skipTokens \/ DOMAIN v6.rows = {})
      <3>1. v6'.pc = "push"
        BY <1>4, <2>4 DEF Rotation!WriteSecretFile, Rotation!TypeOK
      <3>2. QED
        BY <2>1, <2>2, <2>4, <3>1
    <2>5. QED
      BY <2>3, <2>4
  <1>5. CASE Rotation!Push
    <2>1. v6.pc = "push" /\ UNCHANGED <<v1, v2, v3, v5, v8, v9, v10, v11>>
      BY <1>5 DEF Rotation!Push
    <2>2. CASE v5 # None
      <3>1. /\ v6' = [v6 EXCEPT !.pc = "replace"] /\ v7' = v7
            /\ v4' = [u \in Clients |-> IF u \in DOMAIN v6.rows
                                        THEN [value |-> v6.rows[u], key |-> v6.new] ELSE v4[u]]
        BY <1>5, <2>2 DEF Rotation!Push, Rotation!PushKey
      <3>2. /\ v6'.pc = "replace" /\ v6'.old = v6.old /\ v6'.new = v6.new
        BY <3>1 DEF Rotation!TypeOK
      <3>3. v6.rows \in Rotation!Rows /\ v6.new \in Nat /\ ~v6.skipTokens
        BY <2>1 DEF Rotation!TypeOK
      <3>4. \A u \in DOMAIN v6.rows : v6.rows[u] \in Nat
        BY <1>b, <3>3
      <3>5. v4' \in [Clients -> [value : Nat \cup {None}, key : Nat \cup {None}]]
        BY <3>1, <3>3, <3>4 DEF Rotation!TypeOK
      <3>6. Rotation!TypeOK'
        BY <2>1, <3>1, <3>5 DEF Rotation!TypeOK
      <3>7. ~v7 => Rotation!Settled'
        <4>1. SUFFICES ASSUME ~v7, NEW u \in Clients, u \notin v11 PROVE Rotation!Opens(v4'[u], v2)
          BY <2>1
        <4>2. v2 = v6.new
          BY <2>1, <4>1
        <4>3. CASE u \in DOMAIN v6.rows
          BY <3>1, <4>2, <4>3
        <4>4. CASE u \notin DOMAIN v6.rows
          BY <2>1, <3>1, <3>3, <4>1, <4>2, <4>4
        <4>5. QED
          BY <4>3, <4>4
      <3>8. QED
        BY <2>1, <3>1, <3>2, <3>3, <3>6, <3>7
    <2>3. CASE v5 = None
      <3>1. v6' = Rotation!NoRotation /\ v7' /\ v4' = v4
        BY <1>5, <2>3 DEF Rotation!Push
      <3>2. Rotation!TypeOK'
        BY <1>5, <1>a, <2>1, <2>3, <3>1 DEF Rotation!Push, Rotation!TypeOK
      <3>3. QED
        BY <2>1, <3>1, <3>2
    <2>4. QED
      BY <2>2, <2>3
  <1>6. CASE Rotation!ReplaceInFiles
    <2>1. Rotation!TypeOK'
      BY <1>6 DEF Rotation!ReplaceInFiles, Rotation!TypeOK
    <2>2. v6'.pc = "restart" /\ v6'.old = v6.old /\ v6'.new = v6.new
      BY <1>6 DEF Rotation!ReplaceInFiles, Rotation!TypeOK
    <2>3. QED
      BY <1>6, <2>1, <2>2 DEF Rotation!ReplaceInFiles
  <1>7. ASSUME NEW skip \in BOOLEAN, Rotation!RestartCore(skip) PROVE Rotation!IInv'
    <2>1. /\ v6.pc = "restart" /\ v6' = Rotation!NoRotation
          /\ UNCHANGED <<v1, v2, v3, v7, v8, v9, v10, v11>>
      BY <1>7 DEF Rotation!RestartCore
    <2>2. /\ v4' \in [Clients -> [value : Nat \cup {None}, key : Nat \cup {None}]]
          /\ v5' \in Nat \cup {None}
          /\ Rotation!Settled => Rotation!Settled'
      <3>1. CASE skip
        BY <1>7, <3>1 DEF Rotation!RestartCore, Rotation!TypeOK
      <3>2. CASE ~skip
        BY <1>7, <2>1, <3>2, RotationBooted DEF Rotation!RestartCore
      <3>3. QED
        BY <3>1, <3>2
    <2>3. Rotation!TypeOK'
      BY <1>a, <2>1, <2>2 DEF Rotation!TypeOK
    <2>4. QED
      BY <2>1, <2>2, <2>3
  <1>8. CASE Rotation!Stopped
    <2>1. Rotation!TypeOK'
      BY <1>8, <1>a DEF Rotation!Stopped, Rotation!TypeOK
    <2>2. v6' = Rotation!NoRotation /\ UNCHANGED <<v1, v2, v4, v11>>
      BY <1>8 DEF Rotation!Stopped
    <2>3. ~v7' => ~v7 /\ v6.pc \in {"pull", "alter", "replace", "restart"}
      BY <1>8 DEF Rotation!Stopped, Rotation!TypeOK
    <2>4. QED
      BY <2>1, <2>2, <2>3
  <1>9. CASE Rotation!CoreRestarts
    <2>1. UNCHANGED <<v1, v2, v3, v6, v7, v8, v9>> /\ v10' = v10 + 1 /\ Rotation!Booted(v2)
      BY <1>9 DEF Rotation!CoreRestarts
    <2>2. v11 \subseteq v11' /\ v11' \subseteq Clients
      BY <1>9 DEF Rotation!CoreRestarts, Rotation!TypeOK
    <2>3. Rotation!TypeOK'
      BY <2>1, <2>2, RotationBooted DEF Rotation!TypeOK
    <2>4. Rotation!Settled => Rotation!Settled'
      BY <2>1, <2>2, RotationBooted
    <2>5. ASSUME NEW u \in Clients, u \notin DOMAIN v6.rows, u \notin v11'
          PROVE  /\ v6.pc = "alter" /\ ~v6.skipTokens => v4'[u].value = None \/ v4'[u].key = None
                 /\ v6.pc \in {"write", "push"} /\ ~v6.skipTokens /\ ~v7 =>
                       Rotation!Opens(v4'[u], v6.new)
      <3>1. CASE v6.pc = "alter" /\ ~v6.skipTokens
        <4>1. v2 # v1 \/ ~Rotation!InPlainText(u)
          BY <1>9, <2>5, <3>1 DEF Rotation!CoreRestarts
        <4>2. v4'[u] = v4[u]
          BY <2>1, <4>1, RotationBooted
        <4>3. QED
          BY <2>2, <2>5, <3>1, <4>2
      <3>2. CASE v6.pc \in {"write", "push"} /\ ~v6.skipTokens /\ ~v7
        <4>1. v1 = v6.new /\ Rotation!Opens(v4[u], v6.new)
          BY <2>2, <2>5, <3>2
        <4>2. CASE v2 = v1
          BY <2>1, <3>2, <4>1, <4>2, RotationBooted
        <4>3. CASE v2 # v1
          <5>1. v4'[u] = v4[u]
            BY <2>1, <4>3, RotationBooted
          <5>2. QED
            BY <3>2, <4>1, <5>1
        <4>4. QED
          BY <4>2, <4>3
      <3>3. QED
        BY <3>1, <3>2
    <2>6. Rotation!RotationGoesOn'
      BY <2>1, <2>5
    <2>7. QED
      BY <2>1, <2>3, <2>4, <2>6
  <1>10. ASSUME NEW u \in Clients, Rotation!SetToken(u) PROVE Rotation!IInv'
    <2>1. UNCHANGED <<v1, v2, v3, v5, v6, v7, v8, v10>> /\ v9' = v9 + 1 /\ v11' = v11 \ {u}
      BY <1>10 DEF Rotation!SetToken
    <2>2. /\ v4' \in [Clients -> [value : Nat \cup {None}, key : Nat \cup {None}]]
          /\ v4'[u].key = None /\ \A w \in Clients \ {u} : v4'[w] = v4[w]
      BY <1>10 DEF Rotation!SetToken, Rotation!TypeOK
    <2>3. Rotation!Settled => Rotation!Settled'
      BY <2>1, <2>2
    <2>4. Rotation!TypeOK'
      BY <2>1, <2>2 DEF Rotation!TypeOK
    <2>5. Rotation!RotationGoesOn'
      BY <2>1, <2>2
    <2>6. QED
      BY <2>1, <2>3, <2>4, <2>5
  <1>11. CASE UNCHANGED Rotation!vars
    BY <1>11 DEF Rotation!vars, Rotation!TypeOK, Rotation!InPlainText
  <1>12. QED
    BY <1>1, <1>2, <1>3, <1>4, <1>5, <1>6, <1>7, <1>8, <1>9, <1>10, <1>11 DEF Rotation!Next
-----------------------------------------------------------------------------
(***************************************************************************)
(* Scheduler (enabled v1, registered v2, up v3, deaf v4, hour v5, due v6,  *)
(* runs v7, coroutine v8, cut v10)                                         *)
(***************************************************************************)
\* At first no job has run.
LEMMA SchedulerInit == Scheduler!Init => Scheduler!IInv
  <1> SUFFICES ASSUME Scheduler!Init PROVE Scheduler!IInv
    OBVIOUS
  <1>1. Scheduler!TypeOK
    <2>1. v7 = <<>> /\ v8 = [j \in CronJobs |-> [pc |-> "none", run |-> None, status |-> None]]
      BY DEF Scheduler!Init, Scheduler!Asleep
    <2>2. v7 \in Seq([job : CronJobs, status : {"running", "success", "failed"}, at : Nat \cup {None}])
      BY <2>1
    <2>3. v8 \in [CronJobs -> [pc : {"none", "insert", "dispatch", "finish", "kill"},
                              run : Nat \cup {None}, status : {None, "success", "failed"}]]
      BY <2>1
    <2>4. v1 \subseteq CronJobs /\ v2 = v1 /\ v6 = {} /\ v3 = TRUE /\ v4 = FALSE /\ v5 = 0
      BY DEF Scheduler!Init
    <2>5. QED
      BY <2>2, <2>3, <2>4 DEF Scheduler!TypeOK
  <1>2. v6 = {} /\ DOMAIN v7 = {} /\ \A j \in CronJobs : v8[j].pc = "none"
    BY DEF Scheduler!Init, Scheduler!Asleep
  <1>3. QED
    BY <1>1, <1>2 DEF Scheduler!IInv, Scheduler!DueAsleep, Scheduler!RunsHaveRows, Scheduler!RunningGoesOn

\* Steps that change neither a row nor a coroutine keep the invariant.
LEMMA SchedulerIdle ==
  ASSUME Scheduler!IInv, UNCHANGED <<v7, v8, v10>>,
         v1' \subseteq CronJobs, v2' \subseteq CronJobs, v6' \subseteq {j \in CronJobs : v8[j].pc = "none"},
         v3' \in BOOLEAN, v4' \in BOOLEAN, v5' \in Nat
  PROVE  Scheduler!IInv'
  BY DEF Scheduler!IInv, Scheduler!TypeOK, Scheduler!DueAsleep, Scheduler!RunsHaveRows, Scheduler!RunningGoesOn

\* A core that stops cuts every run that has a row without an end.
LEMMA SchedulerStopped ==
  ASSUME Scheduler!IInv, Scheduler!Stopped, UNCHANGED <<v1, v5, v7>>
  PROVE  Scheduler!IInv'
  <1>1. Scheduler!TypeOK'
    BY DEF Scheduler!IInv, Scheduler!TypeOK, Scheduler!Stopped, Scheduler!Asleep
  <1>2. Scheduler!DueAsleep' /\ Scheduler!RunsHaveRows'
    BY DEF Scheduler!DueAsleep, Scheduler!RunsHaveRows, Scheduler!Stopped, Scheduler!Asleep
  <1>3. Scheduler!RunningGoesOn'
    BY DEF Scheduler!IInv, Scheduler!RunningGoesOn, Scheduler!Stopped
  <1>4. QED
    BY <1>1, <1>2, <1>3 DEF Scheduler!IInv

\* Every step of the scheduler, and of the core around it, keeps the invariant.
LEMMA SchedulerStep == Scheduler!IInv /\ [Scheduler!Next]_(Scheduler!vars) => Scheduler!IInv'
  <1> SUFFICES ASSUME Scheduler!IInv, [Scheduler!Next]_(Scheduler!vars) PROVE Scheduler!IInv'
    OBVIOUS
  <1> USE DEF Scheduler!At, Scheduler!Go, Scheduler!Asleep, Scheduler!Loss, Scheduler!tables
  <1>0. v6 \subseteq {j \in CronJobs : v8[j].pc = "none"}
    BY DEF Scheduler!IInv, Scheduler!TypeOK, Scheduler!DueAsleep
  <1>1. CASE Scheduler!Hour \/ Scheduler!Boot \/ Scheduler!MissCheck \/ Scheduler!CoreStatus \/ UNCHANGED Scheduler!vars
    <2>1. UNCHANGED <<v7, v8, v10>> /\ v1' = v1 /\ v2' \in {v1, v2}
      BY <1>1 DEF Scheduler!Hour, Scheduler!Boot, Scheduler!MissCheck, Scheduler!CoreStatus, Scheduler!vars
    <2>2. v3' \in {v3, TRUE} /\ v4' \in {v4, TRUE} /\ v5' \in {v5, v5 + 1}
      BY <1>1 DEF Scheduler!Hour, Scheduler!Boot, Scheduler!MissCheck, Scheduler!CoreStatus, Scheduler!vars
    <2>3. v6' = v6 \/ v6' \subseteq {j \in v2 : v8[j].pc = "none"}
      BY <1>1 DEF Scheduler!Hour, Scheduler!Boot, Scheduler!MissCheck, Scheduler!CoreStatus, Scheduler!vars
    <2>4. v1 \subseteq CronJobs /\ v2 \subseteq CronJobs /\ v3 \in BOOLEAN /\ v4 \in BOOLEAN /\ v5 \in Nat
      BY DEF Scheduler!IInv, Scheduler!TypeOK
    <2>5. v1' \subseteq CronJobs /\ v2' \subseteq CronJobs /\ v3' \in BOOLEAN /\ v4' \in BOOLEAN /\ v5' \in Nat
      <3>1. v1' \subseteq CronJobs /\ v2' \subseteq CronJobs
        BY <2>1, <2>4
      <3>2. v3' \in BOOLEAN /\ v4' \in BOOLEAN
        BY <2>2, <2>4, Zenon
      <3>3. v5' \in Nat
        BY <2>2, <2>4
      <3>4. QED
        BY <3>1, <3>2, <3>3
    <2>6. v6' \subseteq {j \in CronJobs : v8[j].pc = "none"}
      BY <1>0, <2>3, <2>4
    <2>7. QED
      BY <2>1, <2>5, <2>6, SchedulerIdle
  <1>2. CASE Scheduler!Stop
    BY <1>2, SchedulerStopped DEF Scheduler!Stop
  <1>3. ASSUME NEW j \in CronJobs, Scheduler!Start(j) \/ Scheduler!Switch(j) PROVE Scheduler!IInv'
    <2>1. /\ v1' \subseteq CronJobs /\ v2' \subseteq CronJobs /\ v6' \subseteq v6
          /\ v3' \in BOOLEAN /\ v4' \in BOOLEAN /\ v5' \in Nat /\ UNCHANGED <<v7, v10>>
      BY <1>3 DEF Scheduler!Start, Scheduler!Switch, Scheduler!IInv, Scheduler!TypeOK
    <2>2. CASE UNCHANGED v8
      BY <1>0, <2>1, <2>2, SchedulerIdle
    <2>3. CASE Scheduler!Start(j) /\ v8' = [v8 EXCEPT ![j] = [Scheduler!Asleep EXCEPT !.pc = "insert"]]
      <3>1. v8'[j].pc = "insert" /\ \A i \in CronJobs \ {j} : v8'[i] = v8[i]
        BY <2>3 DEF Scheduler!IInv, Scheduler!TypeOK
      <3>2. v6' = v6 \ {j} /\ v8[j].pc = "none"
        BY <1>0, <2>3 DEF Scheduler!Start
      <3>3. Scheduler!TypeOK'
        BY <2>1, <2>3 DEF Scheduler!IInv, Scheduler!TypeOK
      <3>4. Scheduler!DueAsleep' /\ Scheduler!RunsHaveRows'
        BY <1>0, <2>1, <3>1, <3>2 DEF Scheduler!IInv, Scheduler!DueAsleep, Scheduler!RunsHaveRows
      <3>5. Scheduler!RunningGoesOn'
        BY <2>1, <3>1, <3>2 DEF Scheduler!IInv, Scheduler!RunningGoesOn
      <3>6. QED
        BY <3>3, <3>4, <3>5 DEF Scheduler!IInv
    <2>4. QED
      BY <1>3, <2>2, <2>3 DEF Scheduler!Start, Scheduler!Switch
  <1>4. ASSUME NEW j \in CronJobs, Scheduler!InsertRunStart(j) PROVE Scheduler!IInv'
    <2> DEFINE row == [job |-> j, status |-> "running", at |-> None]
    <2>1. v7' = Append(v7, row) /\ UNCHANGED <<v1, v2, v3, v4, v5, v6, v10>> /\ v8[j].pc = "insert"
      BY <1>4 DEF Scheduler!InsertRunStart
    <2>2. /\ v8'[j].pc \in {"dispatch", "finish"} /\ v8'[j].run = Len(v7) + 1
          /\ v8'[j].pc = "finish" => v8'[j].status = "success"
          /\ \A i \in CronJobs \ {j} : v8'[i] = v8[i]
      BY <1>4 DEF Scheduler!InsertRunStart, Scheduler!IInv, Scheduler!TypeOK
    <2>3. /\ DOMAIN v7' = DOMAIN v7 \cup {Len(v7) + 1}
          /\ \A k \in DOMAIN v7 : v7'[k] = v7[k]
      BY <2>1 DEF Scheduler!IInv, Scheduler!TypeOK
    <2>4. Scheduler!TypeOK'
      <3>1. v7' \in Seq([job : CronJobs, status : {"running", "success", "failed"}, at : Nat \cup {None}])
        BY <2>1 DEF Scheduler!IInv, Scheduler!TypeOK
      <3>2. v8' \in [CronJobs -> [pc : {"none", "insert", "dispatch", "finish", "kill"},
                                  run : Nat \cup {None}, status : {None, "success", "failed"}]]
        BY <1>4 DEF Scheduler!InsertRunStart, Scheduler!IInv, Scheduler!TypeOK
      <3>3. QED
        BY <2>1, <3>1, <3>2 DEF Scheduler!IInv, Scheduler!TypeOK
    <2>5. Scheduler!DueAsleep' /\ Scheduler!RunsHaveRows'
      BY <1>0, <2>1, <2>2, <2>3 DEF Scheduler!IInv, Scheduler!DueAsleep, Scheduler!RunsHaveRows
    <2>6. Scheduler!RunningGoesOn'
      BY <2>1, <2>2, <2>3 DEF Scheduler!IInv, Scheduler!RunningGoesOn
    <2>7. QED
      BY <2>4, <2>5, <2>6 DEF Scheduler!IInv
  <1>5. ASSUME NEW j \in CronJobs, Scheduler!Dispatch(j) PROVE Scheduler!IInv'
    <2>1. UNCHANGED <<v1, v2, v3, v4, v5, v6, v7, v10>>
      BY <1>5 DEF Scheduler!Dispatch
    <2>2. /\ v8[j].pc = "dispatch" /\ v8'[j].pc = "finish" /\ v8'[j].run = v8[j].run
          /\ v8'[j].status \in {"success", "failed"}
          /\ \A i \in CronJobs \ {j} : v8'[i] = v8[i]
      BY <1>5 DEF Scheduler!Dispatch, Scheduler!IInv, Scheduler!TypeOK
    <2>3. Scheduler!TypeOK'
      BY <1>5, <2>1, ZenonT(40) DEF Scheduler!Dispatch, Scheduler!IInv, Scheduler!TypeOK
    <2>4. Scheduler!DueAsleep' /\ Scheduler!RunsHaveRows'
      BY <1>0, <2>1, <2>2 DEF Scheduler!IInv, Scheduler!DueAsleep, Scheduler!RunsHaveRows
    <2>5. Scheduler!RunningGoesOn'
      BY <2>1, <2>2 DEF Scheduler!IInv, Scheduler!RunningGoesOn
    <2>6. QED
      BY <2>3, <2>4, <2>5 DEF Scheduler!IInv
  <1>6. ASSUME NEW j \in CronJobs, Scheduler!InsertRunFinish(j) PROVE Scheduler!IInv'
    <2> DEFINE k0 == v8[j].run
    <2>1. UNCHANGED <<v1, v2, v3, v4, v5, v6, v10>> /\ v8[j].pc = "finish"
      BY <1>6 DEF Scheduler!InsertRunFinish
    <2>2. k0 \in DOMAIN v7 /\ v8[j].status \in {"success", "failed"}
      BY <2>1 DEF Scheduler!IInv, Scheduler!RunsHaveRows
    <2>3. /\ v8'[j].pc \in {"none", "kill"}
          /\ \A i \in CronJobs \ {j} : v8'[i] = v8[i]
      BY <1>6 DEF Scheduler!InsertRunFinish, Scheduler!IInv, Scheduler!TypeOK
    <2>4. v7' = [v7 EXCEPT ![k0] = [v7[k0] EXCEPT !.status = v8[j].status, !.at = v5]]
      BY <1>6 DEF Scheduler!InsertRunFinish, Scheduler!Finished
    <2>5. v7 \in Seq([job : CronJobs, status : {"running", "success", "failed"}, at : Nat \cup {None}]) /\ v5 \in Nat
      BY DEF Scheduler!IInv, Scheduler!TypeOK
    <2>6. [v7[k0] EXCEPT !.status = v8[j].status, !.at = v5]
             \in [job : CronJobs, status : {"success", "failed"}, at : Nat \cup {None}]
      <3>1. v7[k0] \in [job : CronJobs, status : {"running", "success", "failed"}, at : Nat \cup {None}]
        BY <2>2, <2>5, ElementOf
      <3>2. QED
        BY <2>2, <2>5, <3>1
    <2>7. /\ v7' \in Seq([job : CronJobs, status : {"running", "success", "failed"}, at : Nat \cup {None}])
          /\ DOMAIN v7' = DOMAIN v7 /\ v7'[k0].status # "running"
          /\ \A k \in DOMAIN v7 \ {k0} : v7'[k] = v7[k]
      BY <2>2, <2>4, <2>5, <2>6
    <2>8. Scheduler!TypeOK'
      BY <1>6, <2>1, <2>7, ZenonT(40) DEF Scheduler!InsertRunFinish, Scheduler!IInv, Scheduler!TypeOK
    <2>9. Scheduler!DueAsleep' /\ Scheduler!RunsHaveRows'
      BY <1>0, <2>1, <2>3, <2>7 DEF Scheduler!IInv, Scheduler!DueAsleep, Scheduler!RunsHaveRows
    <2>10. Scheduler!RunningGoesOn'
      BY <2>1, <2>3, <2>7 DEF Scheduler!IInv, Scheduler!RunningGoesOn
    <2>11. QED
      BY <2>8, <2>9, <2>10 DEF Scheduler!IInv
  <1>7. ASSUME NEW j \in CronJobs, Scheduler!StatementFails(j) PROVE Scheduler!IInv'
    <2>1. UNCHANGED <<v1, v2, v3, v4, v5, v6, v7>> /\ v8[j].pc \in {"insert", "finish"}
      BY <1>7 DEF Scheduler!StatementFails
    <2>2. v8' = [v8 EXCEPT ![j] = Scheduler!Asleep] /\ v10' = IF v8[j].pc = "finish" THEN v10 \cup {v8[j].run} ELSE v10
      BY <1>7 DEF Scheduler!StatementFails
    <2>3. v8'[j].pc = "none" /\ \A i \in CronJobs \ {j} : v8'[i] = v8[i]
      BY <2>2 DEF Scheduler!IInv, Scheduler!TypeOK
    <2>4. Scheduler!TypeOK'
      BY <2>1, <2>2 DEF Scheduler!IInv, Scheduler!TypeOK
    <2>5. Scheduler!DueAsleep' /\ Scheduler!RunsHaveRows'
      BY <1>0, <2>1, <2>3 DEF Scheduler!IInv, Scheduler!DueAsleep, Scheduler!RunsHaveRows
    <2>6. Scheduler!RunningGoesOn'
      BY <2>1, <2>2, <2>3 DEF Scheduler!IInv, Scheduler!RunningGoesOn
    <2>7. QED
      BY <2>4, <2>5, <2>6 DEF Scheduler!IInv
  <1>8. ASSUME NEW j \in CronJobs, Scheduler!Kill(j) PROVE Scheduler!IInv'
    <2>1. CASE v4
      <3>1. UNCHANGED <<v1, v2, v3, v4, v5, v6, v7, v10>> /\ v8[j].pc = "kill" /\ v8' = [v8 EXCEPT ![j] = Scheduler!Asleep]
        BY <1>8, <2>1 DEF Scheduler!Kill
      <3>2. v8'[j].pc = "none" /\ \A i \in CronJobs \ {j} : v8'[i] = v8[i]
        BY <3>1 DEF Scheduler!IInv, Scheduler!TypeOK
      <3>3. Scheduler!TypeOK'
        BY <3>1 DEF Scheduler!IInv, Scheduler!TypeOK
      <3>4. Scheduler!DueAsleep' /\ Scheduler!RunsHaveRows' /\ Scheduler!RunningGoesOn'
        BY <1>0, <3>1, <3>2 DEF Scheduler!IInv, Scheduler!DueAsleep, Scheduler!RunsHaveRows, Scheduler!RunningGoesOn
      <3>5. QED
        BY <3>3, <3>4 DEF Scheduler!IInv
    <2>2. CASE ~v4
      BY <1>8, <2>2, SchedulerStopped DEF Scheduler!Kill
    <2>3. QED
      BY <2>1, <2>2
  <1>9. QED
    BY <1>1, <1>2, <1>3, <1>4, <1>5, <1>6, <1>7, <1>8 DEF Scheduler!Next

-----------------------------------------------------------------------------
(***************************************************************************)
(* Processes of the container (settings v1, core v2, held v4, pass v5,     *)
(* child v6, workers v7, file v8, boots v9, faults v10, outright v11)      *)
(***************************************************************************)
\* At first nothing runs.
LEMMA ProcessesInit == Processes!Init => Processes!IInv
  <1> SUFFICES ASSUME Processes!Init PROVE Processes!IInv
    OBVIOUS
  <1>1. Processes!TypeOK
    BY DEF Processes!Init, Processes!TypeOK, Processes!NoChild
  <1>2. v2 = "down" /\ v6.pc = "none" /\ v5 = "none" /\ \A s \in Processes!SlotSet : v7[s] = "none"
    BY DEF Processes!Init, Processes!NoChild
  <1>3. QED
    BY <1>1, <1>2 DEF Processes!IInv, Processes!ChildIsHeld, Processes!ChildRuns, Processes!WorkersHaveChild,
                      Processes!NoneAlive, Processes!WorkersAreListed, Processes!PassIsAsked

\* Every step of the core, of its child and of the workers keeps the types.
LEMMA ProcessesTyped == Processes!TypeOK /\ [Processes!Next]_(Processes!vars) => Processes!TypeOK'
  <1> SUFFICES ASSUME Processes!TypeOK, [Processes!Next]_(Processes!vars) PROVE Processes!TypeOK'
    OBVIOUS
  <1> USE DEF Processes!TypeOK, Processes!Fault, Processes!main, Processes!pool, Processes!NoChild
  <1> DEFINE Children == [pc : {"none", "starting", "spawning", "looping", "ending", "ended"}, slot : Nat]
             States == [Processes!SlotSet -> {"none", "alive", "told", "dead"}]
  <1>0. v6 \in Children /\ v6.slot \in Nat
    OBVIOUS
  <1>1. CASE Processes!Boot
    BY <1>1 DEF Processes!Boot
  <1>2. CASE Processes!MaintChildStartup
    <2>1. v6' \in Children
      <3>1. v6' \in {v6, [pc |-> "starting", slot |-> 1]}
        BY <1>2 DEF Processes!MaintChildStartup
      <3>2. QED
        BY <3>1, <1>0
    <2>2. v10' \in Nat
      BY <1>2 DEF Processes!MaintChildStartup
    <2>3. v4' \in BOOLEAN
      <3>1. v4' \in {v4, TRUE}
        BY <1>2, Zenon DEF Processes!MaintChildStartup
      <3>2. QED
        BY <3>1
    <2>4. QED
      BY <1>2, <2>1, <2>2, <2>3 DEF Processes!MaintChildStartup
  <1>3. CASE Processes!StartupPass \/ Processes!ScansEnd \/ Processes!PassEnds \/ Processes!CoreStatus \/ Processes!Terminate
    BY <1>3 DEF Processes!StartupPass, Processes!ScansEnd, Processes!PassEnds, Processes!CoreStatus, Processes!Terminate
  <1>4. CASE Processes!MaintChildShutdown
    <2>1. v6' \in Children
      BY <1>0, <1>4 DEF Processes!MaintChildShutdown
    <2>2. v2' \in {"waiting", "leaving"}
      BY <1>4 DEF Processes!MaintChildShutdown
    <2>3. v4' \in BOOLEAN
      <3>1. v4' \in {v4, FALSE}
        BY <1>4, Zenon DEF Processes!MaintChildShutdown
      <3>2. QED
        BY <3>1
    <2>4. v11' \in BOOLEAN
      <3>1. v11' \in {v11, (v6.pc \in {"starting", "spawning"})}
        BY <1>4, Zenon DEF Processes!MaintChildShutdown
      <3>2. (v6.pc \in {"starting", "spawning"}) \in BOOLEAN
        OBVIOUS
      <3>3. QED
        BY <3>1, <3>2, Zenon
    <2>5. QED
      BY <1>4, <2>1, <2>2, <2>3, <2>4 DEF Processes!MaintChildShutdown
  <1>5. CASE Processes!MaintChildStopped
    <2>1. v6' \in Children
      BY <1>0, <1>5 DEF Processes!MaintChildStopped
    <2>2. v2' = "leaving" /\ v4' = FALSE /\ v11' \in BOOLEAN
      BY <1>5 DEF Processes!MaintChildStopped
    <2>3. QED
      BY <1>5, <2>1, <2>2 DEF Processes!MaintChildStopped
  <1>6. CASE Processes!CoreLeaves \/ Processes!CoreDies
    <2>1. v6' \in Children /\ v7' \in States
      BY <1>6 DEF Processes!CoreLeaves, Processes!CoreDies, Processes!Gone
    <2>2. v10' \in Nat
      BY <1>6 DEF Processes!CoreLeaves, Processes!CoreDies, Processes!Gone
    <2>3. QED
      BY <1>6, <2>1, <2>2 DEF Processes!CoreLeaves, Processes!CoreDies, Processes!Gone
  <1>7. CASE Processes!ChildReady \/ Processes!ChildDies
    <2>1. v6' \in Children
      BY <1>0, <1>7 DEF Processes!ChildReady, Processes!ChildDies
    <2>2. v10' \in Nat
      BY <1>7 DEF Processes!ChildReady, Processes!ChildDies
    <2>3. v11' \in BOOLEAN
      <3>1. v11' \in {v11, TRUE}
        BY <1>7, Zenon DEF Processes!ChildReady, Processes!ChildDies
      <3>2. QED
        BY <3>1
    <2>4. QED
      BY <1>7, <2>1, <2>2, <2>3 DEF Processes!ChildReady, Processes!ChildDies
  <1>8. CASE Processes!SpawnPoolWorkers
    BY <1>8 DEF Processes!SpawnPoolWorkers
  <1>9. CASE Processes!Handlers \/ Processes!Loop
    BY <1>9 DEF Processes!Handlers, Processes!Loop, Processes!SyncMaintPoolStatusFile, Processes!AfterException
  <1>10. CASE Processes!ShutdownPoolWorkers
    <2>1. v6' \in Children
      BY <1>0, <1>10 DEF Processes!ShutdownPoolWorkers
    <2>2. v7' \in States
      BY <1>10 DEF Processes!ShutdownPoolWorkers
    <2>3. QED
      BY <1>10, <2>1, <2>2 DEF Processes!ShutdownPoolWorkers
  <1>11. ASSUME NEW s \in Processes!SlotSet, Processes!WorkerEnds(s) PROVE Processes!TypeOK'
    BY <1>11 DEF Processes!WorkerEnds
  <1>12. CASE UNCHANGED Processes!vars
    BY <1>12 DEF Processes!vars
  <1>13. QED
    BY <1>1, <1>2, <1>3, <1>4, <1>5, <1>6, <1>7, <1>8, <1>9, <1>10, <1>11, <1>12 DEF Processes!Next

\* The same steps keep who is held, alive, listed and asked for.
LEMMA ProcessesStep == Processes!IInv /\ [Processes!Next]_(Processes!vars) => Processes!IInv'
  <1> SUFFICES ASSUME Processes!IInv, [Processes!Next]_(Processes!vars) PROVE Processes!IInv'
    OBVIOUS
  <1>0. Processes!TypeOK /\ Processes!TypeOK'
    BY ProcessesTyped DEF Processes!IInv
  <1> DEFINE Rest == Processes!ChildIsHeld /\ Processes!WorkersHaveChild
                     /\ Processes!WorkersAreListed /\ Processes!PassIsAsked
  <1> SUFFICES Rest'
    BY <1>0 DEF Processes!IInv
  <1> USE DEF Processes!IInv, Processes!ChildIsHeld, Processes!WorkersHaveChild, Processes!NoneAlive,
              Processes!WorkersAreListed, Processes!PassIsAsked, Processes!ChildRuns, Processes!startup_file_maintenance_enabled
  <1> USE DEF Processes!Fault, Processes!main, Processes!pool, Processes!NoChild
  <1>1. CASE Processes!Boot
    BY <1>1 DEF Processes!Boot
  <1>2. CASE Processes!MaintChildStartup
    BY <1>2 DEF Processes!MaintChildStartup
  <1>3. CASE Processes!StartupPass \/ Processes!ScansEnd \/ Processes!PassEnds \/ Processes!CoreStatus \/ Processes!Terminate
    BY <1>3 DEF Processes!StartupPass, Processes!ScansEnd, Processes!PassEnds, Processes!CoreStatus, Processes!Terminate
  <1>4. CASE Processes!MaintChildShutdown
    BY <1>0, <1>4 DEF Processes!MaintChildShutdown, Processes!TypeOK
  <1>5. CASE Processes!MaintChildStopped
    BY <1>0, <1>5 DEF Processes!MaintChildStopped, Processes!TypeOK
  <1>6. CASE Processes!CoreLeaves \/ Processes!CoreDies
    BY <1>6 DEF Processes!CoreLeaves, Processes!CoreDies, Processes!Gone
  <1>7. CASE Processes!ChildReady \/ Processes!ChildDies
    BY <1>0, <1>7 DEF Processes!ChildReady, Processes!ChildDies, Processes!TypeOK
  <1>8. CASE Processes!SpawnPoolWorkers
    BY <1>0, <1>8 DEF Processes!SpawnPoolWorkers, Processes!TypeOK
  <1>9. CASE Processes!Handlers \/ Processes!Loop
    BY <1>0, <1>9 DEF Processes!Handlers, Processes!Loop, Processes!SyncMaintPoolStatusFile, Processes!AfterException, Processes!TypeOK
  <1>10. CASE Processes!ShutdownPoolWorkers
    BY <1>0, <1>10 DEF Processes!ShutdownPoolWorkers, Processes!TypeOK
  <1>11. ASSUME NEW s \in Processes!SlotSet, Processes!WorkerEnds(s) PROVE Rest'
    BY <1>0, <1>11 DEF Processes!WorkerEnds, Processes!TypeOK
  <1>12. CASE UNCHANGED Processes!vars
    BY <1>12 DEF Processes!vars
  <1>13. QED
    BY <1>1, <1>2, <1>3, <1>4, <1>5, <1>6, <1>7, <1>8, <1>9, <1>10, <1>11, <1>12 DEF Processes!Next

\* An invariant state explains every orphan, and never has the pass and the
\* child at work together unless the settings ask for both.
LEMMA ProcessesExplained ==
  Processes!IInv => Processes!OrphansExplained /\ Processes!WorkersAreListed /\ Processes!NotBoth
  BY DEF Processes!IInv, Processes!TypeOK, Processes!ChildIsHeld, Processes!WorkersHaveChild, Processes!NoneAlive,
         Processes!PassIsAsked, Processes!OrphansExplained, Processes!NotBoth, Processes!ChildRuns,
         Processes!startup_file_maintenance_enabled

-----------------------------------------------------------------------------
(***************************************************************************)
(* Maintenance loop (blind v1, mode v2, failed v3, pooled v4, selected v5, *)
(* pc v6, event v7, forceAge v8, pollAge v9, age v10, beatAge v11, job     *)
(* v12, dirty v13, late v14, loopChanges v15, loopFaults v16)              *)
(***************************************************************************)
\* At first no change waits.
LEMMA LoopInit == Loop!Init => Loop!IInv
  <1> SUFFICES ASSUME Loop!Init PROVE Loop!IInv
    OBVIOUS
  <1>1. v3 \subseteq Subtrees /\ v2 \in {"active", "inotify"}
    <2>1. PICK slow \in SUBSET Subtrees, others \in BOOLEAN :
             \E m \in {[mode |-> "active", failed |-> {}], [mode |-> "inotify", failed |-> {}],
                       Loop!SelfTest(slow, others)} : v2 = m.mode /\ v3 = m.failed
      BY DEF Loop!Init
    <2>2. Loop!SelfTest(slow, others).mode \in {"active", "inotify"}
      BY DEF Loop!SelfTest
    <2>3. Loop!SelfTest(slow, others).failed \subseteq Subtrees
      BY RootAssumption DEF Loop!SelfTest
    <2>4. QED
      BY <2>1, <2>2, <2>3
  <1>2. /\ v14 = [s \in Subtrees |-> 0] /\ v8 = 0 /\ v9 = 0 /\ v6 = "top" /\ v12 = "none"
        /\ v4 \in BOOLEAN /\ v5 \in BOOLEAN /\ v7 = FALSE
    BY DEF Loop!Init
  <1>3. Loop!TypeOK
    BY <1>1, <1>2 DEF Loop!TypeOK
  <1>4. QED
    BY <1>2, <1>3, IntervalsAssumption DEF Loop!IInv, Loop!WaitsForTick, Loop!WaitsForPoll

\* The intervals that hold at a time are those of the settings, or shorter.
LEMMA LoopIntervals ==
  /\ ForceAfter \in Nat \ {0} /\ Poll \in Nat \ {0}
  /\ Loop!ForceEvery \in Nat /\ Loop!ForceEvery <= ForceAfter
  /\ Loop!PollEvery \in Nat /\ Loop!PollEvery <= Poll
  BY IntervalsAssumption DEF Loop!ForceEvery, Loop!PollEvery, Loop!AtMost

\* What a step must show of one subtree.
LEMMA LoopStepOf ==
  ASSUME Loop!TypeOK', v3' = v3,
         \A s \in Subtrees :
            /\ v3 = {} => Loop!WaitsForTick(s)'
            /\ s \in Loop!PolledTrees => Loop!WaitsForPoll(s)'
  PROVE  Loop!IInv'
  BY DEF Loop!IInv, Loop!PolledTrees

\* Every step of the loop, of the disk, of the choice of projects and of a job
\* keeps what a change may have waited.
LEMMA LoopStep == Loop!IInv /\ [Loop!Next]_(Loop!vars) => Loop!IInv'
  <1> SUFFICES ASSUME Loop!IInv, [Loop!Next]_(Loop!vars) PROVE Loop!IInv'
    OBVIOUS
  <1>0. /\ v8 \in Nat /\ v9 \in Nat /\ v14 \in [Subtrees -> Nat] /\ v3 \subseteq Subtrees /\ Loop!TypeOK
        /\ v2 \in {"active", "inotify"} /\ v4 \in BOOLEAN /\ v5 \in BOOLEAN /\ v7 \in BOOLEAN
    BY DEF Loop!IInv, Loop!TypeOK
  <1>00. \A s \in Subtrees : /\ v14[s] \in Nat
                             /\ v3 = {} => Loop!WaitsForTick(s)
                             /\ s \in Loop!PolledTrees => Loop!WaitsForPoll(s) /\ v3 # {}
    BY DEF Loop!IInv, Loop!TypeOK, Loop!PolledTrees
  <1> USE LoopIntervals
  <1>1. ASSUME NEW s \in Subtrees, NEW kind \in {"new", "gone"}, Loop!Change(s, kind) PROVE Loop!IInv'
    <2>1. UNCHANGED <<v2, v3, v4, v5, v6, v8, v9, v12, v14>> /\ v7' \in BOOLEAN
      BY <1>0, <1>1 DEF Loop!Change, Loop!config, Loop!timers
    <2>2. Loop!TypeOK'
      BY <1>0, <2>1 DEF Loop!TypeOK
    <2>3. QED
      BY <1>00, <2>1, <2>2, LoopStepOf DEF Loop!WaitsForTick, Loop!WaitsForPoll
  <1>2. CASE Loop!Select
    <2>1. /\ UNCHANGED <<v2, v3, v4, v6, v7, v8, v9, v12>> /\ v5' \in BOOLEAN
          /\ v14' = [s \in Subtrees |-> IF s \in Loop!PolledTrees THEN v14[s] ELSE 0]
      BY <1>2 DEF Loop!Select, Loop!config, Loop!timers
    <2>2. Loop!TypeOK'
      BY <1>0, <2>1 DEF Loop!TypeOK
    <2>3. \A s \in Subtrees : v3 = {} => Loop!WaitsForTick(s)'
      <3>1. v3 = {} => \A s \in Subtrees : v14'[s] = 0
        BY <1>00, <2>1
      <3>2. QED
        BY <1>0, <2>1, <3>1 DEF Loop!WaitsForTick
    <2>4. \A s \in Subtrees : s \in Loop!PolledTrees => Loop!WaitsForPoll(s)'
      BY <1>00, <2>1 DEF Loop!WaitsForPoll
    <2>5. QED
      BY <2>1, <2>2, <2>3, <2>4, LoopStepOf
  <1>3. CASE Loop!ActiveRound \/ Loop!StartWait \/ Loop!WatchesSet \/ (\E heartbeat \in BOOLEAN : Loop!WaitSees(heartbeat))
    <2>1. UNCHANGED <<v2, v3, v4, v5, v8, v9, v12, v14>>
      BY <1>3 DEF Loop!ActiveRound, Loop!StartWait, Loop!WatchesSet, Loop!WaitSees, Loop!config, Loop!timers
    <2>2. v7' \in BOOLEAN
      <3>1. v7' \in {v7, TRUE, FALSE}
        BY <1>3, Zenon DEF Loop!ActiveRound, Loop!StartWait, Loop!WatchesSet, Loop!WaitSees
      <3>2. QED
        BY <1>0, <3>1
    <2>3. v6' \in {"tick", "arm", "wait", "poll"} /\ (v6' \in {"arm", "wait"} => v6 \in {"top", "arm"}) /\ v6 # "poll"
      BY <1>3 DEF Loop!ActiveRound, Loop!StartWait, Loop!WatchesSet, Loop!WaitSees
    <2>4. Loop!TypeOK'
      BY <1>0, <2>1, <2>2, <2>3 DEF Loop!TypeOK
    <2>5. QED
      BY <1>00, <2>1, <2>3, <2>4, LoopStepOf DEF Loop!WaitsForTick, Loop!WaitsForPoll
  <1>4. CASE Loop!WaitTimesOut
    <2>1. /\ v6 = "wait" /\ v6' = "poll" /\ UNCHANGED <<v2, v3, v4, v5, v7, v12>>
          /\ v8' = Loop!AtMost(v8 + 1, ForceAfter) /\ v9' = Loop!AtMost(v9 + 1, Poll)
          /\ v14' = [s \in Subtrees |-> IF Loop!Waits(s) THEN Loop!AtMost(v14[s] + 1, ForceAfter + 1) ELSE v14[s]]
      BY <1>4 DEF Loop!WaitTimesOut, Loop!RoundPassed, Loop!config
    <2>2. Loop!TypeOK'
      BY <1>0, <2>1 DEF Loop!TypeOK, Loop!AtMost
    <2>3. ASSUME NEW s \in Subtrees, v3 = {} PROVE Loop!WaitsForTick(s)'
      <3>1. Loop!WaitsForTick(s) /\ v14[s] \in Nat
        BY <1>00, <2>3
      <3>2. Loop!Waits(s) => v5 /\ v12 = "none"
        BY <2>3 DEF Loop!Waits, Loop!PolledTrees
      <3>3. CASE Loop!Waits(s)
        <4>1. v14[s] < ForceAfter /\ v14[s] <= v8
          BY <2>1, <3>1, <3>2, <3>3 DEF Loop!WaitsForTick
        <4>2. v14'[s] = v14[s] + 1
          BY <2>1, <3>1, <3>3, <4>1 DEF Loop!AtMost
        <4>3. v14'[s] <= ForceAfter /\ v14'[s] <= v8'
          BY <1>0, <2>1, <3>1, <4>1, <4>2 DEF Loop!AtMost
        <4>4. QED
          BY <2>1, <3>2, <3>3, <4>3 DEF Loop!WaitsForTick
      <3>4. CASE ~ Loop!Waits(s)
        <4>1. v14'[s] = v14[s]
          BY <2>1, <3>4
        <4>2. v14[s] <= v8 => v14[s] <= v8'
          BY <1>0, <2>1, <3>1 DEF Loop!AtMost, Loop!WaitsForTick
        <4>3. QED
          BY <2>1, <3>1, <4>1, <4>2 DEF Loop!WaitsForTick
      <3>5. QED
        BY <3>3, <3>4
    <2>4. ASSUME NEW s \in Subtrees, s \in Loop!PolledTrees PROVE Loop!WaitsForPoll(s)'
      <3>1. v14[s] \in Nat /\ v14[s] <= v9 /\ v14[s] < Poll
        BY <1>00, <2>1, <2>4 DEF Loop!WaitsForPoll
      <3>2. v14'[s] <= v14[s] + 1 /\ v14'[s] \in Nat
        BY <2>1, <3>1 DEF Loop!AtMost
      <3>3. v14'[s] <= v9' /\ v14'[s] <= Poll
        BY <1>0, <2>1, <3>1, <3>2 DEF Loop!AtMost
      <3>4. QED
        BY <2>1, <3>3 DEF Loop!WaitsForPoll
    <2>5. QED
      BY <2>1, <2>2, <2>3, <2>4, LoopStepOf
  <1>5. CASE Loop!WaitRaises
    <2>1. v6' = "poll" /\ v6 # "poll" /\ v7' = TRUE /\ UNCHANGED <<v2, v3, v4, v5, v8, v9, v12, v14>>
      BY <1>5 DEF Loop!WaitRaises, Loop!config, Loop!timers
    <2>2. Loop!TypeOK'
      BY <1>0, <2>1 DEF Loop!TypeOK
    <2>3. QED
      BY <1>00, <2>1, <2>2, LoopStepOf DEF Loop!WaitsForTick, Loop!WaitsForPoll
  <1>6. CASE Loop!PollStep
    <2>1. v6 = "poll" /\ v6' = "decide" /\ UNCHANGED <<v2, v3, v4, v5, v7, v8, v12>>
      BY <1>6 DEF Loop!PollStep, Loop!config
    <2>2. CASE Loop!PollDue
      <3>1. v9' = 0 /\ v14' = [s \in Subtrees |-> IF s \in Loop!PolledTrees THEN 0 ELSE v14[s]] /\ v3 # {}
        BY <1>6, <2>2 DEF Loop!PollStep, Loop!Polled, Loop!PollDue
      <3>2. Loop!TypeOK'
        BY <1>0, <2>1, <3>1 DEF Loop!TypeOK
      <3>3. QED
        BY <1>00, <2>1, <3>1, <3>2, LoopStepOf DEF Loop!WaitsForPoll
    <2>3. CASE ~ Loop!PollDue
      <3>1. UNCHANGED <<v9, v14>>
        BY <1>6, <2>3 DEF Loop!PollStep
      <3>2. Loop!TypeOK'
        BY <1>0, <2>1, <3>1 DEF Loop!TypeOK
      <3>3. ASSUME NEW s \in Subtrees, s \in Loop!PolledTrees PROVE Loop!WaitsForPoll(s)'
        <4>1. v9 < Poll
          BY <1>0, <1>00, <2>3, <3>3 DEF Loop!PollDue
        <4>2. QED
          BY <1>0, <1>00, <2>1, <3>1, <3>3, <4>1 DEF Loop!WaitsForPoll
      <3>4. \A s \in Subtrees : v3 = {} => Loop!WaitsForTick(s)'
        BY <1>00, <2>1, <3>1 DEF Loop!WaitsForTick
      <3>5. QED
        BY <2>1, <3>2, <3>3, <3>4, LoopStepOf
    <2>4. QED
      BY <2>2, <2>3
  <1>7. CASE Loop!PollRaises \/ Loop!RunTickRaises
    <2>1. v6' = "top" /\ v14' = [s \in Subtrees |-> 0] /\ UNCHANGED <<v2, v3, v4, v5, v7, v8, v9, v12>>
      BY <1>7 DEF Loop!PollRaises, Loop!RunTickRaises, Loop!config, Loop!timers
    <2>2. Loop!TypeOK'
      BY <1>0, <2>1 DEF Loop!TypeOK
    <2>3. QED
      BY <1>0, <1>00, <2>1, <2>2, LoopStepOf DEF Loop!WaitsForTick, Loop!WaitsForPoll
  <1>8. CASE Loop!Decide
    <2>1. v6 = "decide" /\ UNCHANGED <<v2, v3, v4, v5, v7, v12>>
      BY <1>8 DEF Loop!Decide, Loop!config
    <2>2. CASE v6' = "tick" /\ UNCHANGED <<v14, v9, v8>>
      <3>1. Loop!TypeOK'
        BY <1>0, <2>1, <2>2 DEF Loop!TypeOK
      <3>2. QED
        BY <1>00, <2>1, <2>2, <3>1, LoopStepOf DEF Loop!WaitsForTick, Loop!WaitsForPoll
    <2>3. CASE v6' = "top" /\ v3 # {} /\ v8' = 0 /\ Loop!Polled({})
      <3>1. v9' = 0 /\ v14' = [s \in Subtrees |-> IF s \in Loop!PolledTrees THEN 0 ELSE v14[s]]
        BY <2>3 DEF Loop!Polled
      <3>2. Loop!TypeOK'
        BY <1>0, <2>1, <2>3, <3>1 DEF Loop!TypeOK
      <3>3. QED
        BY <1>00, <2>1, <2>3, <3>1, <3>2, LoopStepOf DEF Loop!WaitsForPoll
    <2>4. CASE v6' = "top" /\ ~ Loop!ForceDue /\ UNCHANGED <<v14, v9, v8>>
      <3>1. Loop!TypeOK'
        BY <1>0, <2>1, <2>4 DEF Loop!TypeOK
      <3>2. v8 < ForceAfter
        BY <1>0, <2>4 DEF Loop!ForceDue
      <3>3. \A s \in Subtrees : v3 = {} => Loop!WaitsForTick(s)'
        BY <1>0, <1>00, <2>1, <2>4, <3>2 DEF Loop!WaitsForTick
      <3>4. \A s \in Subtrees : s \in Loop!PolledTrees => Loop!WaitsForPoll(s)'
        BY <1>00, <2>1, <2>4 DEF Loop!WaitsForPoll
      <3>5. QED
        BY <2>1, <3>1, <3>3, <3>4, LoopStepOf
    <2>5. QED
      BY <1>8, <2>2, <2>3, <2>4 DEF Loop!Decide
  <1>9. CASE Loop!RunTick
    <2>1. /\ UNCHANGED <<v2, v3, v4, v5, v7, v9, v14>> /\ v6 = "tick"
          /\ v12' = (IF v5 /\ v12 = "none" THEN "queued" ELSE v12)
          /\ v6' = (IF v5 /\ ~v4 THEN "inside" ELSE "top") /\ v8' \in {0, v8}
      BY <1>9 DEF Loop!RunTick, Loop!config
    <2>2. Loop!TypeOK'
      BY <1>0, <2>1 DEF Loop!TypeOK
    <2>3. v12' # "none" \/ ~ v5
      BY <2>1
    <2>4. \A s \in Subtrees : v3 = {} => Loop!WaitsForTick(s)'
      BY <1>00, <2>1, <2>2, <2>3 DEF Loop!WaitsForTick, Loop!TypeOK
    <2>5. \A s \in Subtrees : s \in Loop!PolledTrees => Loop!WaitsForPoll(s)'
      BY <1>00, <2>1 DEF Loop!WaitsForPoll
    <2>6. QED
      BY <2>1, <2>2, <2>4, <2>5, LoopStepOf
  <1>10. CASE Loop!Find
    <2>1. v12' = "found" /\ v14' = [s \in Subtrees |-> 0] /\ UNCHANGED <<v2, v3, v4, v5, v6, v7, v8, v9>>
      BY <1>10 DEF Loop!Find, Loop!config, Loop!timers
    <2>2. Loop!TypeOK'
      BY <1>0, <2>1 DEF Loop!TypeOK
    <2>3. QED
      BY <1>0, <1>00, <2>1, <2>2, LoopStepOf DEF Loop!WaitsForTick, Loop!WaitsForPoll
  <1>11. CASE Loop!TickEnds
    <2>1. /\ v12 = "found" /\ v12' = "none" /\ UNCHANGED <<v2, v3, v4, v5, v7, v9, v14>> /\ v6' \in {v6, "top"}
          /\ v8' \in {0, v8} /\ (v6' # v6 => v6 = "inside")
      BY <1>11 DEF Loop!TickEnds, Loop!config
    <2>2. Loop!TypeOK'
      BY <1>0, <2>1 DEF Loop!TypeOK
    <2>3. \A s \in Subtrees : v3 = {} => Loop!WaitsForTick(s)'
      BY <1>0, <1>00, <2>1 DEF Loop!WaitsForTick
    <2>4. \A s \in Subtrees : s \in Loop!PolledTrees => Loop!WaitsForPoll(s)'
      BY <1>00, <2>1 DEF Loop!WaitsForPoll
    <2>5. QED
      BY <2>1, <2>2, <2>3, <2>4, LoopStepOf
  <1>12. CASE Loop!TickFails
    <2>1. /\ v12' = "none" /\ UNCHANGED <<v2, v3, v4, v5, v7, v8, v9>> /\ v6' \in {v6, "top"} /\ (v6' # v6 => v6 = "inside")
          /\ v14' = [s \in Subtrees |-> IF s \in Loop!PolledTrees THEN v14[s] ELSE 0]
      BY <1>12 DEF Loop!TickFails, Loop!config, Loop!timers
    <2>2. Loop!TypeOK'
      BY <1>0, <2>1 DEF Loop!TypeOK
    <2>3. \A s \in Subtrees : v3 = {} => Loop!WaitsForTick(s)'
      BY <1>0, <1>00, <2>1 DEF Loop!WaitsForTick
    <2>4. \A s \in Subtrees : s \in Loop!PolledTrees => Loop!WaitsForPoll(s)'
      BY <1>00, <2>1 DEF Loop!WaitsForPoll
    <2>5. QED
      BY <2>1, <2>2, <2>3, <2>4, LoopStepOf
  <1>13. CASE UNCHANGED Loop!vars
    BY <1>13 DEF Loop!vars, Loop!IInv, Loop!TypeOK, Loop!WaitsForTick, Loop!WaitsForPoll, Loop!PolledTrees
  <1>14. QED
    BY <1>1, <1>2, <1>3, <1>4, <1>5, <1>6, <1>7, <1>8, <1>9, <1>10, <1>11, <1>12, <1>13 DEF Loop!Next

\* An invariant state lets no change wait longer.
LEMMA LoopTried == Loop!IInv => Loop!ChangeIsTried
  BY DEF Loop!IInv, Loop!WaitsForTick, Loop!WaitsForPoll, Loop!ChangeIsTried

-----------------------------------------------------------------------------
(***************************************************************************)
(* Project of a post (rows v1, dirs v2, sessions v3, registry v4, default  *)
(* v5, posts v6, picked v7, spent v8)                                      *)
(***************************************************************************)
\* At first there are no projects, rows of sessions or posts.
LEMMA ProjectInit == Project!Init => Project!IInv
  <1> SUFFICES ASSUME Project!Init PROVE Project!IInv
    OBVIOUS
  <1>1. Project!TypeOK
    BY DEF Project!Init, Project!TypeOK, Project!NoRow, Project!NoPost
  <1>2. (\A n \in 1..ProjectPosts : v6[n] = Project!NoPost) /\ (\A s \in Clients : v3[s] = Project!NoRow)
        /\ (\A p \in Project!Ids : v4[p] = None)
    BY DEF Project!Init
  <1>3. QED
    BY <1>1, <1>2 DEF Project!IInv, Project!RowIsPicked, Project!PostsFollow, Project!WorksWhereSelected,
         Project!AnswerFollowsPost, Project!OneDirectory, Project!NoRow, Project!NoPost

\* The manager that is asked for has the id asked for, or there is none, and the
\* registry stays true.
LEMMA ProjectGot ==
  ASSUME Project!IInv, NEW p \in Project!Ids
  PROVE  /\ Project!Got(p).of \in {p, None}
         /\ Project!Got(p).registry \in [Project!Ids -> Names \cup {None}]
         /\ \A q \in Project!Ids : Project!Got(p).registry[q] # None => Project!Got(p).registry[q] = v1[q]
  <1>1. v4 \in [Project!Ids -> Names \cup {None}] /\ v1 \in [Project!Ids -> Names \cup {None}]
        /\ \A q \in Project!Ids : v4[q] # None => v4[q] = v1[q]
    BY DEF Project!IInv, Project!TypeOK, Project!OneDirectory
  <1>2. QED
    BY <1>1 DEF Project!Got, Project!Loaded

\* Steps that change neither a post nor what a row of a session says keep the
\* invariant when the registry stays true.
LEMMA ProjectKept ==
  ASSUME Project!IInv, UNCHANGED <<v3, v5, v6, v7>>,
         v1' \in [Project!Ids -> Names \cup {None}], v4' \in [Project!Ids -> Names \cup {None}],
         Project!OneDirectory'
  PROVE  Project!IInv'
  <1>1. Project!TypeOK'
    BY DEF Project!IInv, Project!TypeOK
  <1>2. QED
    BY <1>1 DEF Project!IInv, Project!RowIsPicked, Project!PostsFollow, Project!WorksWhereSelected,
         Project!AnswerFollowsPost, Project!Manager

\* A session's row changes, and the posts that wait notice it.
LEMMA ProjectSelected ==
  ASSUME Project!IInv, NEW s \in Clients, NEW p \in Project!Ids \cup {None}, UNCHANGED <<v1, v4, v5>>,
         NEW row \in [here : BOOLEAN, project : Project!Ids \cup {None}, chat : BOOLEAN], row.project = p,
         v3' = [v3 EXCEPT ![s] = row], v6' = Project!Noticed(s, p),
         v7' \in [Clients -> Project!Ids \cup {None}],
         \A u \in Clients : u # s => v7'[u] = v7[u],
         row.here => v7'[s] = p
  PROVE  Project!IInv'
  <1>1. /\ v3' \in [Clients -> [here : BOOLEAN, project : Project!Ids \cup {None}, chat : BOOLEAN]]
        /\ v3'[s] = row /\ \A u \in Clients : u # s => v3'[u] = v3[u]
    BY DEF Project!IInv, Project!TypeOK
  <1> DEFINE Posts == [pc : {"none", "sent", "working", "asking", "done"},
                       session : Clients \cup {None}, took : Project!Ids \cup {None},
                       project : Project!Ids \cup {None}, since : SUBSET (Project!Ids \cup {None}),
                       did : Project!Ids \cup {None}, answer : Project!Ids \cup {None}]
  <1>2. ASSUME NEW n \in 1..ProjectPosts
        PROVE  /\ v6[n] \in Posts /\ v6'[n] \in Posts
               /\ v6[n].since \subseteq v6'[n].since
               /\ v6[n].pc = "sent" /\ v6[n].session = s => p \in v6'[n].since
               /\ v6'[n].pc = v6[n].pc /\ v6'[n].session = v6[n].session /\ v6'[n].took = v6[n].took
               /\ v6'[n].project = v6[n].project /\ v6'[n].did = v6[n].did /\ v6'[n].answer = v6[n].answer
    <2> DEFINE more == [v6[n] EXCEPT !.since = @ \cup {p}]
    <2>1. v6[n] \in Posts
      BY DEF Project!IInv, Project!TypeOK
    <2>2. v6'[n] = IF v6[n].session = s /\ v6[n].pc = "sent" THEN more ELSE v6[n]
      BY DEF Project!Noticed
    <2>3. /\ more \in Posts /\ v6[n].since \subseteq more.since /\ p \in more.since
          /\ more.pc = v6[n].pc /\ more.session = v6[n].session /\ more.took = v6[n].took
          /\ more.project = v6[n].project /\ more.did = v6[n].did /\ more.answer = v6[n].answer
      BY <2>1
    <2> HIDE DEF more, Posts
    <2>4. QED
      BY <2>1, <2>2, <2>3
  <1>3. v6' \in [1..ProjectPosts -> Posts]
    <2> HIDE DEF Posts
    <2>1. v6' = [n \in 1..ProjectPosts |-> v6'[n]]
      BY DEF Project!Noticed
    <2>2. QED
      BY <1>2, <2>1
  <1>4. Project!TypeOK'
    BY <1>1, <1>3 DEF Project!IInv, Project!TypeOK
  <1>5. Project!RowIsPicked'
    BY <1>1 DEF Project!IInv, Project!RowIsPicked
  <1>6. Project!PostsFollow'
    <2> HIDE DEF Posts
    <2>1. ASSUME NEW n \in 1..ProjectPosts, v6[n].pc = "sent"
          PROVE  v3'[v6[n].session].project \in v6'[n].since /\ v6[n].session \in Clients /\ v6[n].took = None
      BY <1>1, <1>2, <2>1 DEF Project!IInv, Project!PostsFollow
    <2>2. QED
      BY <1>2, <2>1 DEF Project!IInv, Project!PostsFollow, Project!Manager
  <1>7. Project!WorksWhereSelected' /\ Project!AnswerFollowsPost'
    <2> HIDE DEF Posts
    <2>1. QED
      BY <1>2 DEF Project!IInv, Project!WorksWhereSelected, Project!AnswerFollowsPost
  <1>8. QED
    BY <1>4, <1>5, <1>6, <1>7 DEF Project!IInv, Project!OneDirectory

\* A post goes on: it keeps the invariant if it does so itself.
LEMMA ProjectPosted ==
  ASSUME Project!IInv, NEW n \in 1..ProjectPosts, UNCHANGED <<v1, v3, v5, v7>>,
         v4' \in [Project!Ids -> Names \cup {None}], Project!OneDirectory',
         NEW post \in [pc : {"none", "sent", "working", "asking", "done"},
                       session : Clients \cup {None}, took : Project!Ids \cup {None},
                       project : Project!Ids \cup {None}, since : SUBSET (Project!Ids \cup {None}),
                       did : Project!Ids \cup {None}, answer : Project!Ids \cup {None}],
         v6' = [v6 EXCEPT ![n] = post],
         post.pc = "sent" => post.session \in Clients /\ post.took = None /\ v3[post.session].project \in post.since,
         post.pc = "asking" => post.did = Project!Manager(post.project),
         post.pc \in {"none", "sent", "working", "asking"} => post.answer = None,
         post.pc = "working" => post.took \in post.since,
         post.answer # None => post.answer = post.did
  PROVE  Project!IInv'
  <1>1. Project!TypeOK'
    BY DEF Project!IInv, Project!TypeOK
  <1>2. v6'[n] = post /\ \A m \in 1..ProjectPosts : m # n => v6'[m] = v6[m]
    BY DEF Project!IInv, Project!TypeOK
  <1>3. Project!PostsFollow'
    BY <1>2 DEF Project!IInv, Project!PostsFollow, Project!Manager
  <1>4. QED
    BY <1>1, <1>2, <1>3 DEF Project!IInv, Project!RowIsPicked, Project!WorksWhereSelected, Project!AnswerFollowsPost

\* Every step of a session, of a project and of a post keeps the invariant.
LEMMA ProjectStep == Project!IInv /\ [Project!Next]_(Project!vars) => Project!IInv'
  <1> SUFFICES ASSUME Project!IInv, [Project!Next]_(Project!vars) PROVE Project!IInv'
    OBVIOUS
  <1> DEFINE Rows == [here : BOOLEAN, project : Project!Ids \cup {None}, chat : BOOLEAN]
             Posts == [pc : {"none", "sent", "working", "asking", "done"},
                       session : Clients \cup {None}, took : Project!Ids \cup {None},
                       project : Project!Ids \cup {None}, since : SUBSET (Project!Ids \cup {None}),
                       did : Project!Ids \cup {None}, answer : Project!Ids \cup {None}]
  <1>0. /\ v1 \in [Project!Ids -> Names \cup {None}] /\ v4 \in [Project!Ids -> Names \cup {None}]
        /\ v3 \in [Clients -> Rows] /\ v5 \in Project!Ids \cup {None}
        /\ v6 \in [1..ProjectPosts -> Posts] /\ v7 \in [Clients -> Project!Ids \cup {None}]
    BY DEF Project!IInv, Project!TypeOK
  <1>1. ASSUME NEW s \in Clients, Project!login(s) PROVE Project!IInv'
    <2> DEFINE row == [Project!NoRow EXCEPT !.here = TRUE]
    <2>0. row \in Rows /\ row.here /\ row.project = None
      BY DEF Project!NoRow
    <2> HIDE DEF row, Rows
    <2>1. v3' = [v3 EXCEPT ![s] = row] /\ v7' = [v7 EXCEPT ![s] = None] /\ UNCHANGED <<v1, v4, v5, v6>>
          /\ \A n \in 1..ProjectPosts : v6[n].session # s \/ v6[n].pc = "done"
      BY <1>1 DEF Project!login, row
    <2>2. Project!TypeOK'
      BY <1>0, <2>0, <2>1 DEF Project!TypeOK, Rows
    <2>3. v3'[s] = row /\ v7'[s] = None /\ \A u \in Clients : u # s => v3'[u] = v3[u] /\ v7'[u] = v7[u]
      BY <1>0, <2>1
    <2>4. Project!RowIsPicked'
      BY <2>0, <2>3 DEF Project!IInv, Project!RowIsPicked
    <2>5. Project!PostsFollow'
      BY <2>1, <2>3 DEF Project!IInv, Project!PostsFollow, Project!Manager
    <2>6. QED
      BY <2>1, <2>2, <2>4, <2>5 DEF Project!IInv, Project!WorksWhereSelected, Project!AnswerFollowsPost, Project!OneDirectory
  <1>2. ASSUME NEW s \in Clients, Project!logout(s) PROVE Project!IInv'
    <2>1. v3' = [v3 EXCEPT ![s] = Project!NoRow] /\ v6' = Project!Noticed(s, None) /\ UNCHANGED <<v1, v4, v5, v7>>
      BY <1>2 DEF Project!logout
    <2>2. Project!NoRow \in Rows /\ Project!NoRow.project = None /\ ~ Project!NoRow.here
      BY DEF Project!NoRow
    <2>3. QED
      BY <1>0, <2>1, <2>2, ProjectSelected
  <1>3. ASSUME NEW s \in Clients, NEW p \in Project!Ids \cup {None}, Project!select_project(s, p) PROVE Project!IInv'
    <2> DEFINE row == Project!insert_or_replace(v3[s], [project |-> p])
    <2>1. row \in Rows /\ row.project = p
      BY <1>0 DEF Project!insert_or_replace
    <2> HIDE DEF row
    <2>2. v3' = [v3 EXCEPT ![s] = row] /\ v7' = [v7 EXCEPT ![s] = p] /\ v6' = Project!Noticed(s, p) /\ UNCHANGED <<v1, v4, v5>>
      BY <1>3 DEF Project!select_project, row
    <2>3. v7' \in [Clients -> Project!Ids \cup {None}] /\ v7'[s] = p /\ \A u \in Clients : u # s => v7'[u] = v7[u]
      BY <1>0, <2>2
    <2>4. QED
      BY <2>1, <2>2, <2>3, ProjectSelected
  <1>4. ASSUME NEW s \in Clients, Project!select_chat(s) PROVE Project!IInv'
    <2> DEFINE row == Project!insert_or_replace(v3[s], [chat |-> TRUE])
    <2>1. row \in Rows /\ row.project = v3[s].project
      BY <1>0 DEF Project!insert_or_replace
    <2> HIDE DEF row
    <2>2. v3' = [v3 EXCEPT ![s] = row] /\ v3[s].here /\ UNCHANGED <<v1, v4, v5, v6, v7>>
      BY <1>4 DEF Project!select_chat, row
    <2>3. Project!TypeOK'
      BY <1>0, <2>1, <2>2 DEF Project!TypeOK
    <2>4. v3'[s] = row /\ \A u \in Clients : u # s => v3'[u] = v3[u]
      BY <1>0, <2>2
    <2>5. Project!RowIsPicked'
      BY <2>1, <2>2, <2>4 DEF Project!IInv, Project!RowIsPicked
    <2>6. Project!PostsFollow'
      BY <2>1, <2>2, <2>4 DEF Project!IInv, Project!PostsFollow, Project!Manager
    <2>7. QED
      BY <2>2, <2>3, <2>5, <2>6 DEF Project!IInv, Project!WorksWhereSelected, Project!AnswerFollowsPost, Project!OneDirectory
  <1>5. ASSUME NEW name \in Names, Project!create_project(name) PROVE Project!IInv'
    <2>1. UNCHANGED <<v3, v4, v5, v6, v7>>
      BY <1>5 DEF Project!create_project
    <2>2. CASE v1' = v1
      BY <1>0, <2>1, <2>2, ProjectKept DEF Project!IInv, Project!OneDirectory
    <2>3. ASSUME NEW p \in Project!Ids, v1[p] = None, v1' = [v1 EXCEPT ![p] = name] PROVE Project!IInv'
      <3>1. v1' \in [Project!Ids -> Names \cup {None}] /\ \A q \in Project!Ids : q # p => v1'[q] = v1[q]
        BY <1>0, <2>3
      <3>2. v4[p] = None
        BY <2>3 DEF Project!IInv, Project!OneDirectory
      <3>3. Project!OneDirectory'
        BY <2>1, <3>1, <3>2 DEF Project!IInv, Project!OneDirectory
      <3>4. QED
        BY <1>0, <2>1, <3>1, <3>3, ProjectKept
    <2>4. QED
      BY <1>5, <2>2, <2>3 DEF Project!create_project, Project!Created, Project!Known
  <1>6. ASSUME NEW p \in Project!Ids, NEW name \in Names, Project!update_project(p, name) PROVE Project!IInv'
    <2> DEFINE reg == Project!Got(p).registry
    <2>1. UNCHANGED <<v3, v5, v6, v7>> /\ v1' = [v1 EXCEPT ![p] = name] /\ v4' = [reg EXCEPT ![p] = name]
      BY <1>6 DEF Project!update_project, Project!Renamed
    <2>2. reg \in [Project!Ids -> Names \cup {None}] /\ \A q \in Project!Ids : reg[q] # None => reg[q] = v1[q]
      BY ProjectGot
    <2> HIDE DEF reg
    <2>3. v1' \in [Project!Ids -> Names \cup {None}] /\ v4' \in [Project!Ids -> Names \cup {None}]
      BY <1>0, <2>1, <2>2
    <2>4. Project!OneDirectory'
      BY <1>0, <2>1, <2>2 DEF Project!OneDirectory
    <2>5. QED
      BY <2>1, <2>3, <2>4, ProjectKept
  <1>7. ASSUME NEW s \in Clients, NEW n \in 1..ProjectPosts, Project!post_message(s, n) PROVE Project!IInv'
    <2> DEFINE post == [Project!NoPost EXCEPT !.pc = "sent", !.session = s, !.since = {v7[s]}]
    <2>1. v6' = [v6 EXCEPT ![n] = post] /\ v3[s].here /\ UNCHANGED <<v1, v3, v4, v5, v7>>
      BY <1>7 DEF Project!post_message
    <2>2. post \in Posts /\ post.pc = "sent" /\ post.session = s /\ post.took = None /\ post.answer = None /\ post.since = {v7[s]}
      BY <1>0 DEF Project!NoPost
    <2> HIDE DEF post, Posts
    <2>3. v3[s].project = v7[s]
      BY <2>1 DEF Project!IInv, Project!RowIsPicked
    <2>4. Project!OneDirectory' /\ v4' \in [Project!Ids -> Names \cup {None}]
      BY <1>0, <2>1 DEF Project!IInv, Project!OneDirectory
    <2>5. QED
      BY <2>1, <2>2, <2>3, <2>4, ProjectPosted DEF Posts
  <1>8. ASSUME NEW n \in 1..ProjectPosts, Project!process_post(n) PROVE Project!IInv'
    <2> DEFINE p == v3[v6[n].session].project
    <2>1. v6[n] \in Posts /\ v6[n].pc = "sent" /\ v6[n].took = None /\ p \in v6[n].since /\ v6[n].answer = None
          /\ UNCHANGED <<v1, v3, v5, v7>> /\ p \in Project!Ids \cup {None}
      BY <1>0, <1>8 DEF Project!process_post, Project!IInv, Project!PostsFollow
    <2>2. CASE p = None
      <3> DEFINE post == [v6[n] EXCEPT !.pc = "working"]
      <3>1. v6' = [v6 EXCEPT ![n] = post] /\ v4' = v4
        BY <1>0, <1>8, <2>2 DEF Project!process_post, Project!active_project
      <3>2. post \in Posts /\ post.pc = "working" /\ post.took = None /\ post.since = v6[n].since /\ post.answer = None
        BY <2>1
      <3> HIDE DEF post, Posts
      <3>3. Project!OneDirectory' /\ v4' \in [Project!Ids -> Names \cup {None}]
        BY <1>0, <2>1, <3>1 DEF Project!IInv, Project!OneDirectory
      <3>4. QED
        BY <2>1, <2>2, <3>1, <3>2, <3>3, ProjectPosted DEF Posts
    <2>3. CASE p # None
      <3> DEFINE of == Project!Got(p).of
                 post == [v6[n] EXCEPT !.pc = "working", !.took = p, !.project = of]
      <3>1. v6' = [v6 EXCEPT ![n].pc = "working", ![n].took = p, ![n].project = of] /\ v4' = Project!Got(p).registry
        BY <1>8, <2>3 DEF Project!process_post, Project!active_project
      <3>2. of \in Project!Ids \cup {None} /\ v4' \in [Project!Ids -> Names \cup {None}]
            /\ \A q \in Project!Ids : v4'[q] # None => v4'[q] = v1[q]
        BY <2>1, <2>3, <3>1, ProjectGot
      <3> HIDE DEF of
      <3>3. v6' = [v6 EXCEPT ![n] = post]
        BY <1>0, <2>1, <3>1
      <3>4. post \in Posts /\ post.pc = "working" /\ post.took = p /\ post.since = v6[n].since /\ post.answer = None
        BY <2>1, <2>3, <3>2
      <3>5. Project!OneDirectory'
        BY <2>1, <3>2 DEF Project!OneDirectory
      <3> HIDE DEF post, Posts, p
      <3>6. QED
        BY <2>1, <3>2, <3>3, <3>4, <3>5, ProjectPosted DEF Posts
    <2>4. QED
      BY <2>2, <2>3
  <1>9. ASSUME NEW n \in 1..ProjectPosts, NEW asks \in BOOLEAN, Project!handle_block(n, asks) PROVE Project!IInv'
    <2> DEFINE did == Project!Manager(v6[n].project)
               pc == IF asks THEN "asking" ELSE "done"
               post == [v6[n] EXCEPT !.pc = pc, !.did = did]
    <2>0. pc \in {"asking", "done"}
      OBVIOUS
    <2>1. v6' = [v6 EXCEPT ![n].pc = pc, ![n].did = did] /\ v6[n].pc = "working"
          /\ UNCHANGED <<v1, v3, v4, v5, v7>>
      BY <1>9 DEF Project!handle_block
    <2>2. v6[n] \in Posts /\ did \in Project!Ids \cup {None} /\ v6[n].answer = None
      BY <1>0, <2>1 DEF Project!Manager, Project!IInv, Project!PostsFollow
    <2> HIDE DEF did, pc
    <2>3. v6' = [v6 EXCEPT ![n] = post]
      BY <1>0, <2>1, <2>2
    <2>4. post \in Posts /\ post.pc \in {"asking", "done"} /\ post.did = did /\ post.answer = None /\ post.project = v6[n].project
      BY <2>0, <2>2
    <2>5. Project!OneDirectory' /\ v4' \in [Project!Ids -> Names \cup {None}]
      BY <1>0, <2>1 DEF Project!IInv, Project!OneDirectory
    <2>6. post.did = Project!Manager(post.project)
      BY <2>4 DEF did
    <2> HIDE DEF post, Posts
    <2>7. QED
      BY <2>1, <2>3, <2>4, <2>5, <2>6, ProjectPosted DEF Posts
  <1>10. ASSUME NEW n \in 1..ProjectPosts, Project!process_answer(n) PROVE Project!IInv'
    <2> DEFINE ans == Project!Manager(v6[n].project)
               post == [v6[n] EXCEPT !.pc = "done", !.answer = ans]
    <2>1. v6' = [v6 EXCEPT ![n].pc = "done", ![n].answer = ans] /\ v6[n].pc = "asking"
          /\ UNCHANGED <<v1, v3, v4, v5, v7>>
      BY <1>10 DEF Project!process_answer, Project!active_project
    <2>2. v6[n] \in Posts /\ ans \in Project!Ids \cup {None} /\ v6[n].did = ans
      BY <1>0, <2>1 DEF Project!Manager, Project!IInv, Project!PostsFollow
    <2> HIDE DEF ans
    <2>3. v6' = [v6 EXCEPT ![n] = post]
      BY <1>0, <2>1, <2>2
    <2>4. post \in Posts /\ post.pc = "done" /\ post.did = ans /\ post.answer = ans
      BY <2>2
    <2>5. Project!OneDirectory' /\ v4' \in [Project!Ids -> Names \cup {None}]
      BY <1>0, <2>1 DEF Project!IInv, Project!OneDirectory
    <2>6. /\ post.pc \notin {"none", "sent", "working", "asking"}
          /\ post.answer # None => post.answer = post.did
      BY <2>4
    <2> HIDE DEF post, Posts
    <2>7. /\ ~ (post.pc = "sent") /\ ~ (post.pc = "asking") /\ ~ (post.pc = "working")
      BY <2>6
    <2>8. QED
      BY <2>1, <2>3, <2>4, <2>5, <2>6, <2>7, ProjectPosted DEF Posts
  <1>11. CASE Project!Start
    <2>1. UNCHANGED <<v1, v3, v7>>
          /\ v6' = [n \in 1..ProjectPosts |-> IF v6[n].pc = "none" THEN Project!NoPost ELSE [v6[n] EXCEPT !.pc = "done"]]
      BY <1>11 DEF Project!Start
    <2>2. PICK p \in (IF Project!Known = {} THEN {None} ELSE Project!Known) :
             v5' = p /\ v4' = [q \in Project!Ids |-> IF q = p THEN v1[q] ELSE None]
      BY <1>11 DEF Project!Start
    <2>3. p \in Project!Ids \cup {None}
      BY DEF Project!Known
    <2>4. v6' \in [1..ProjectPosts -> Posts]
      BY <1>0, <2>1 DEF Project!NoPost
    <2>5. Project!TypeOK'
      BY <1>0, <2>1, <2>2, <2>3, <2>4 DEF Project!TypeOK
    <2>6. ASSUME NEW n \in 1..ProjectPosts
          PROVE  v6'[n].pc \in {"none", "done"} /\ (v6'[n].pc = "none" => v6'[n].answer = None)
                 /\ (v6'[n].answer # None => v6'[n].answer = v6'[n].did)
      <3>1. CASE v6[n].pc = "none"
        BY <2>1, <3>1 DEF Project!NoPost
      <3>2. CASE v6[n].pc # "none"
        <4>1. v6'[n] = [v6[n] EXCEPT !.pc = "done"] /\ v6[n] \in Posts
          BY <1>0, <2>1, <3>2
        <4>2. QED
          BY <4>1 DEF Project!IInv, Project!AnswerFollowsPost
      <3>3. QED
        BY <3>1, <3>2
    <2>7. Project!OneDirectory'
      BY <2>1, <2>2 DEF Project!OneDirectory
    <2>8. Project!RowIsPicked'
      BY <2>1 DEF Project!IInv, Project!RowIsPicked
    <2>9. QED
      BY <2>5, <2>6, <2>7, <2>8 DEF Project!IInv, Project!PostsFollow, Project!WorksWhereSelected, Project!AnswerFollowsPost
  <1>12. CASE UNCHANGED Project!vars
    BY <1>0, <1>12, ProjectKept DEF Project!vars, Project!IInv, Project!OneDirectory
  <1>13. QED
    BY <1>1, <1>2, <1>3, <1>4, <1>5, <1>6, <1>7, <1>8, <1>9, <1>10, <1>11, <1>12 DEF Project!Next

-----------------------------------------------------------------------------
(***************************************************************************)
(* Migration of the database (old v1, new v2, made v3, sequence v4, next   *)
(* v5, ended v6, taken v7, refused v8, spent v9, pending v10, top v11,     *)
(* slipped v12)                                                            *)
(***************************************************************************)
\* The old tables are all the names, and the old rows' ids are ids.
LEMMA MigrateNames ==
  /\ \A k \in DOMAIN Tables : Tables[k] \in Migrate!TableNames
  /\ Keyed \subseteq Migrate!TableNames
  /\ \A t \in Keyed : \E k \in DOMAIN Tables : Tables[k] = t
  /\ DOMAIN Tables = 1..Len(Tables) /\ Len(Tables) \in Nat
  /\ 1..MaxRow \subseteq Migrate!Ids
  <1>1. \A k \in DOMAIN Tables : Tables[k] \in Migrate!TableNames
    BY DEF Migrate!TableNames
  <1>2. Keyed \subseteq Migrate!TableNames
    BY TablesAssumption DEF Migrate!TableNames
  <1>3. \A t \in Keyed : \E k \in DOMAIN Tables : Tables[k] = t
    BY TablesAssumption
  <1>4. DOMAIN Tables = 1..Len(Tables) /\ Len(Tables) \in Nat
    BY TablesAssumption
  <1>5. 1..MaxRow \subseteq Migrate!Ids
    BY TablesAssumption DEF Migrate!Ids
  <1>6. QED
    BY <1>1, <1>2, <1>3, <1>4, <1>5

\* An id is used when the table has a row with it, of either origin.
LEMMA MigrateUsed ==
  ASSUME Migrate!TypeOK, NEW t \in Migrate!TableNames
  PROVE  /\ Migrate!Used(t) \in SUBSET Migrate!Ids
         /\ \A i \in Migrate!Ids : /\ v2[t][i].old \in Nat /\ v2[t][i].core \in Nat
                                   /\ i \in Migrate!Used(t) <=> v2[t][i].old > 0 \/ v2[t][i].core > 0
  BY DEF Migrate!TypeOK, Migrate!Used, Migrate!Rows

\* The MAX of a table is a number, 0 if it has no row.
LEMMA MigrateTop ==
  ASSUME Migrate!TypeOK, NEW t \in Migrate!TableNames
  PROVE  Migrate!Top(t) \in Nat
  <1>1. Migrate!Used(t) \in SUBSET (1..MaxId) /\ MaxId \in Nat
    BY MigrateUsed, TablesAssumption DEF Migrate!Ids
  <1>2. CASE Migrate!Used(t) = {}
    BY <1>2 DEF Migrate!Top
  <1>3. CASE Migrate!Used(t) # {}
    <2>1. \E i \in Migrate!Used(t) : \A j \in Migrate!Used(t) : j <= i
      BY <1>1, <1>3, LargestExists
    <2>2. Migrate!Top(t) \in Migrate!Used(t)
      BY <1>3, <2>1 DEF Migrate!Top
    <2>3. QED
      BY <1>1, <2>2
  <1>4. QED
    BY <1>2, <1>3

\* A run that sets sequences has migrated all tables, and comes to the sequence of
\* one table at a time.
LEMMA MigrateSyncs ==
  ASSUME Migrate!TypeOK, Migrate!EndedIsOver, Migrate!DoneAreMigrated, Migrate!Syncing, Migrate!NextSync
  PROVE  /\ ~v6 /\ v5' \in Nat /\ v6' \in BOOLEAN /\ (v6' => v5' = 0)
         /\ Migrate!SyncTable \in Migrate!TableNames
         /\ \A t \in Keyed : Migrate!Migrated(t)
         /\ \A t \in Keyed \ {Migrate!SyncTable} : Migrate!IsSynced(t)' => Migrate!IsSynced(t)
  <1>1. /\ v5 \in Nat /\ v5 - Len(Tables) \in 1..Len(Tables) /\ Len(Tables) \in Nat
        /\ DOMAIN Tables = 1..Len(Tables)
    BY MigrateNames DEF Migrate!TypeOK, Migrate!Syncing
  <1>2. /\ v5' = IF v5 = 2 * Len(Tables) THEN 0 ELSE v5 + 1
        /\ v6' \in BOOLEAN /\ (v6' => v5 = 2 * Len(Tables))
    BY Zenon DEF Migrate!NextSync
  <1>3. ~v6
    BY <1>1 DEF Migrate!EndedIsOver
  <1>4. Migrate!SyncTable \in Migrate!TableNames
    BY <1>1, MigrateNames DEF Migrate!SyncTable
  <1>5. \A k \in 1..Len(Tables) : k < v5
    BY <1>1
  <1>6. \A t \in Keyed : Migrate!Migrated(t)
    BY <1>1, <1>5, MigrateNames DEF Migrate!DoneAreMigrated
  <1>7. ASSUME NEW t \in Keyed, t # Migrate!SyncTable, Migrate!IsSynced(t)' PROVE Migrate!IsSynced(t)
    <2>1. PICK k \in 1..Len(Tables) : Tables[k] = t /\ Len(Tables) + k <= v5
      <3>1. CASE v6'
        <4>1. PICK k \in 1..Len(Tables) : Tables[k] = t
          BY <1>1, MigrateNames
        <4>2. Len(Tables) + k <= v5
          BY <1>1, <1>2, <3>1
        <4>3. QED
          BY <4>1, <4>2
      <3>2. CASE ~v6'
        <4>1. PICK k \in 1..Len(Tables) : Len(Tables) + k < v5' /\ Tables[k] = t
          BY <1>1, <1>7, <3>2 DEF Migrate!IsSynced
        <4>2. Len(Tables) + k <= v5
          BY <1>1, <1>2, <4>1
        <4>3. QED
          BY <4>1, <4>2
      <3>3. QED
        BY <3>1, <3>2
    <2>2. k # v5 - Len(Tables)
      BY <1>7, <2>1 DEF Migrate!SyncTable
    <2>3. Len(Tables) + k < v5
      BY <1>1, <2>1, <2>2
    <2>4. QED
      BY <1>1, <2>1, <2>3 DEF Migrate!IsSynced
  <1>8. v5' \in Nat /\ v6' \in BOOLEAN /\ (v6' => v5' = 0)
    BY <1>1, <1>2
  <1>9. QED
    BY <1>3, <1>4, <1>6, <1>7, <1>8

\* At first the new database is empty.
LEMMA MigrateInit == Migrate!Init => Migrate!IInv
  <1> SUFFICES ASSUME Migrate!Init PROVE Migrate!IInv
    OBVIOUS
  <1>1. /\ v1 \in [Migrate!TableNames -> SUBSET Migrate!Ids]
        /\ v2 = [t \in Migrate!TableNames |-> [i \in Migrate!Ids |-> [old |-> 0, core |-> 0]]]
        /\ v3 = {} /\ v4 = [t \in Keyed |-> 1] /\ v5 = 0 /\ v6 = FALSE
        /\ v7 = [t \in Migrate!TableNames |-> {}] /\ v8 = {} /\ v10 = [t \in Keyed |-> {}]
        /\ v11 = Migrate!Unread /\ v12 = {}
    BY MigrateNames DEF Migrate!Init
  <1>2. Migrate!TypeOK
    BY <1>1 DEF Migrate!TypeOK, Migrate!Rows
  <1>3. Migrate!IdsAreOnce
    BY <1>1, MigrateNames DEF Migrate!IdsAreOnce
  <1>4. \A k \in DOMAIN Tables : ~ (k < v5) /\ ~ (Len(Tables) + k < v5)
    BY <1>1, MigrateNames
  <1>5. QED
    BY <1>1, <1>2, <1>3, <1>4
    DEF Migrate!IInv, Migrate!EndedIsOver, Migrate!DoneAreMigrated, Migrate!Ahead, Migrate!IsSynced,
        Migrate!SequencesAhead

\* Every step of a run and of the core keeps the invariant.
LEMMA MigrateStep == Migrate!IInv /\ [Migrate!Next]_(Migrate!vars) => Migrate!IInv'
  <1> SUFFICES ASSUME Migrate!IInv, [Migrate!Next]_(Migrate!vars) PROVE Migrate!IInv'
    OBVIOUS
  <1>0. /\ v1 \in [Migrate!TableNames -> SUBSET Migrate!Ids]
        /\ v2 \in [Migrate!TableNames -> [Migrate!Ids -> Migrate!Rows]]
        /\ v3 \subseteq Migrate!TableNames /\ v4 \in [Keyed -> Nat] /\ v5 \in Nat /\ v6 \in BOOLEAN
        /\ v7 \in [Migrate!TableNames -> SUBSET Migrate!Ids] /\ (v6 => v5 = 0)
        /\ v8 \subseteq Keyed /\ v10 \in [Keyed -> SUBSET Migrate!Ids]
        /\ v11 \in Nat \cup {Migrate!Unread} /\ v12 \subseteq Keyed /\ v8 \subseteq v12
    BY DEF Migrate!IInv, Migrate!TypeOK, Migrate!EndedIsOver, Migrate!SequencesAhead
  <1>a. /\ Migrate!TypeOK /\ Migrate!EndedIsOver /\ Migrate!IdsAreOnce /\ Migrate!DoneAreMigrated
        /\ Migrate!Ahead /\ Migrate!SequencesAhead
    BY DEF Migrate!IInv
  <1>1. CASE Migrate!main
    <2>1. v5' = 1 /\ v6' = FALSE /\ UNCHANGED <<v1, v2, v3, v4, v7, v8, v10, v11, v12>>
      BY <1>1 DEF Migrate!main, Migrate!core
    <2>2. Migrate!TypeOK'
      BY <1>0, <2>1 DEF Migrate!TypeOK
    <2>3. \A k \in DOMAIN Tables : ~ (k < v5') /\ ~ (Len(Tables) + k < v5')
      BY <2>1, MigrateNames
    <2>4. Migrate!IdsAreOnce'
      BY <1>a, <2>1 DEF Migrate!IdsAreOnce, Migrate!Used
    <2>5. QED
      BY <1>0, <2>1, <2>2, <2>3, <2>4
      DEF Migrate!IInv, Migrate!EndedIsOver, Migrate!DoneAreMigrated, Migrate!Ahead,
          Migrate!IsSynced, Migrate!SequencesAhead
  <1>2. CASE Migrate!migrate_table
    <2> DEFINE t == Tables[v5]
               row == [i \in Migrate!Ids |-> Migrate!Inserted(t, i)]
               came == {i \in v1[t] : v2[t][i].core > 0}
    <2>1. /\ v5 \in DOMAIN Tables /\ v3' = v3 \cup {t} /\ v2' = [v2 EXCEPT ![t] = row]
          /\ v7' = [v7 EXCEPT ![t] = v7[t] \cup came] /\ v5' = v5 + 1
          /\ (t \in Keyed => v10[t] \cap v1[t] = {})
          /\ UNCHANGED <<v1, v4, v6, v8, v10, v11, v12>>
      BY <1>2 DEF Migrate!migrate_table
    <2>2. t \in Migrate!TableNames /\ v5 # 0
      BY <2>1, MigrateNames
    <2>3. \A i \in Migrate!Ids : /\ v2[t][i].old \in Nat /\ v2[t][i].core \in Nat
                                 /\ i \in Migrate!Used(t) <=> v2[t][i].old > 0 \/ v2[t][i].core > 0
      BY <2>2, MigrateUsed DEF Migrate!IInv
    <2>4. row \in [Migrate!Ids -> Migrate!Rows]
      <3>1. v2[t] \in [Migrate!Ids -> Migrate!Rows]
        BY <1>0, <2>2
      <3>2. ASSUME NEW i \in Migrate!Ids PROVE Migrate!Inserted(t, i) \in Migrate!Rows
        <4>1. v2[t][i] \in Migrate!Rows
          BY <3>1
        <4>2. [v2[t][i] EXCEPT !.old = @ + 1] \in Migrate!Rows
          BY <4>1 DEF Migrate!Rows
        <4>3. QED
          BY <4>1, <4>2 DEF Migrate!Inserted
      <3>3. QED
        BY <3>2
    <2>5. ASSUME t \in Keyed, NEW i \in Migrate!Ids
          PROVE  /\ row[i].core = v2[t][i].core
                 /\ row[i].old = IF i \in v1[t] /\ i \notin Migrate!Used(t) THEN 1 ELSE v2[t][i].old
      BY <1>0, <2>2, <2>3, <2>5 DEF Migrate!Inserted, Migrate!Rows
    <2>6. came \subseteq v1[t] /\ v1[t] \subseteq Migrate!Ids /\ \A i \in came : v2[t][i].core > 0
      BY <1>0, <2>2
    <2>7. \A i \in v1[t] : v2[t][i].core > 0 => i \in came
      OBVIOUS
    <2> HIDE DEF t, row, came
    <2>8. v2'[t] = row /\ v7'[t] = v7[t] \cup came
          /\ \A u \in Migrate!TableNames : u # t => v2'[u] = v2[u] /\ v7'[u] = v7[u]
      BY <1>0, <2>1, <2>2
    <2>9. Migrate!TypeOK'
      <3>1. v2' \in [Migrate!TableNames -> [Migrate!Ids -> Migrate!Rows]]
        BY <1>0, <2>1, <2>4
      <3>2. v7[t] \cup came \in SUBSET Migrate!Ids
        BY <1>0, <2>2, <2>6
      <3>3. v7' \in [Migrate!TableNames -> SUBSET Migrate!Ids]
        BY <1>0, <2>1, <3>2
      <3>4. v3' \subseteq Migrate!TableNames /\ v5' \in Nat
        BY <1>0, <2>1, <2>2
      <3>5. QED
        BY <1>0, <2>1, <3>1, <3>3, <3>4 DEF Migrate!TypeOK
    <2>10. ~ v6'
      BY <1>0, <2>1, <2>2
    <2>11. Migrate!IdsAreOnce'
      <3>1. ASSUME NEW u \in Keyed, u # t
            PROVE  /\ \A i \in Migrate!Ids : v2'[u][i].old + v2'[u][i].core <= 1
                   /\ \A i \in v7'[u] : v2'[u][i].core = 1
                   /\ v10'[u] \cap Migrate!Used(u)' = {}
        BY <1>a, <2>1, <2>8, <3>1, MigrateNames DEF Migrate!IdsAreOnce, Migrate!Used
      <3>2. ASSUME t \in Keyed
            PROVE  /\ \A i \in Migrate!Ids : row[i].old + row[i].core <= 1
                   /\ \A i \in v7[t] \cup came : row[i].core = 1
                   /\ \A i \in Migrate!Ids : row[i].old > 0 \/ row[i].core > 0 => i \notin v10[t]
        <4>1. \A i \in Migrate!Ids : v2[t][i].old + v2[t][i].core <= 1
          BY <3>2 DEF Migrate!IInv, Migrate!IdsAreOnce
        <4>2. \A i \in v7[t] : i \in Migrate!Ids /\ v2[t][i].core = 1
          BY <1>0, <2>2, <3>2 DEF Migrate!IInv, Migrate!IdsAreOnce
        <4>3. \A i \in Migrate!Ids : row[i].old + row[i].core <= 1
          BY <2>3, <2>5, <3>2, <4>1
        <4>4. \A i \in came : i \in Migrate!Ids /\ v2[t][i].core = 1
          BY <2>3, <2>6, <4>1
        <4>5. ASSUME NEW i \in Migrate!Ids, row[i].old > 0 \/ row[i].core > 0 PROVE i \notin v10[t]
          <5>1. i \in v1[t] \/ i \in Migrate!Used(t)
            BY <2>3, <2>5, <3>2, <4>5
          <5>2. QED
            BY <1>a, <2>1, <3>2, <5>1 DEF Migrate!IdsAreOnce
        <4>6. QED
          BY <2>1, <2>5, <3>2, <4>2, <4>3, <4>4, <4>5
      <3>3. \A u \in Keyed : v10'[u] \cap Migrate!Used(u)' = {}
        BY <2>1, <2>8, <3>1, <3>2 DEF Migrate!Used
      <3>4. QED
        BY <2>8, <3>1, <3>2, <3>3 DEF Migrate!IdsAreOnce
    <2>12. Migrate!DoneAreMigrated'
      <3>1. ASSUME NEW u \in Keyed, u # t, \E k \in DOMAIN Tables : k < v5' /\ Tables[k] = u PROVE Migrate!Migrated(u)'
        <4>1. PICK k \in DOMAIN Tables : k < v5' /\ Tables[k] = u
          BY <3>1
        <4>2. k # v5
          BY <3>1, <4>1 DEF t
        <4>3. k < v5
          BY <1>0, <2>1, <4>1, <4>2, MigrateNames
        <4>4. Migrate!Migrated(u)
          BY <4>1, <4>3 DEF Migrate!IInv, Migrate!DoneAreMigrated
        <4>5. QED
          BY <2>1, <2>8, <3>1, <4>4, MigrateNames DEF Migrate!Migrated
      <3>2. ASSUME NEW u \in Keyed, u = t PROVE Migrate!Migrated(u)'
        <4>1. ASSUME NEW i \in v1[t] PROVE row[i].old = 1 \/ i \in v7[t] \cup came
          <5>1. i \in Migrate!Ids
            BY <2>6
          <5>2. v2[t][i].old + v2[t][i].core <= 1
            BY <3>2, <5>1 DEF Migrate!IInv, Migrate!IdsAreOnce
          <5>3. CASE i \notin Migrate!Used(t)
            BY <2>5, <3>2, <4>1, <5>1, <5>3
          <5>4. CASE v2[t][i].core > 0
            BY <2>7, <4>1, <5>4
          <5>5. CASE v2[t][i].old > 0
            BY <2>3, <2>5, <3>2, <5>1, <5>2, <5>5
          <5>6. QED
            BY <2>3, <5>1, <5>3, <5>4, <5>5
        <4>2. QED
          BY <2>1, <2>8, <3>2, <4>1 DEF Migrate!Migrated
      <3>3. QED
        BY <2>10, <3>1, <3>2 DEF Migrate!DoneAreMigrated
    <2>13. \A k \in DOMAIN Tables : ~ (Len(Tables) + k < v5')
      BY <1>0, <2>1, MigrateNames
    <2>14. QED
      BY <1>0, <2>1, <2>9, <2>10, <2>11, <2>12, <2>13
      DEF Migrate!IInv, Migrate!EndedIsOver, Migrate!Ahead, Migrate!IsSynced, Migrate!SequencesAhead
  <1>3. CASE Migrate!read_max
    <2>1. v11' = Migrate!Top(Migrate!SyncTable) /\ UNCHANGED <<v1, v2, v3, v4, v5, v6, v7, v8, v10, v12>>
      BY <1>3 DEF Migrate!read_max, Migrate!core
    <2>2. v11' \in Nat
      BY <1>3, <1>a, <2>1, MigrateTop, MigrateNames DEF Migrate!read_max
    <2>3. Migrate!TypeOK'
      BY <1>0, <2>1, <2>2 DEF Migrate!TypeOK
    <2>4. Migrate!IdsAreOnce'
      BY <1>a, <2>1 DEF Migrate!IdsAreOnce, Migrate!Used
    <2>5. Migrate!DoneAreMigrated' /\ Migrate!Ahead'
      BY <1>a, <2>1
      DEF Migrate!DoneAreMigrated, Migrate!Migrated, Migrate!Ahead, Migrate!IsSynced, Migrate!Used
    <2>6. QED
      BY <1>0, <2>1, <2>3, <2>4, <2>5 DEF Migrate!IInv, Migrate!EndedIsOver, Migrate!SequencesAhead
  <1>4. CASE Migrate!setval
    <2> DEFINE t == Migrate!SyncTable
    <2>1. /\ Migrate!Syncing /\ Migrate!NextSync /\ t \in Keyed /\ v11 \in Nat
          /\ v4' = [v4 EXCEPT ![t] = v11 + 1]
          /\ v12' = IF \E i \in Migrate!Used(t) \cup v10[t] : i > v11 THEN v12 \cup {t} ELSE v12 \ {t}
          /\ v8' = v8 \ {t} /\ v11' = Migrate!Unread
          /\ UNCHANGED <<v1, v2, v3, v7, v10>>
      BY <1>0, <1>4 DEF Migrate!setval, Migrate!Synced
    <2>2. /\ ~v6 /\ v5' \in Nat /\ v6' \in BOOLEAN /\ (v6' => v5' = 0)
          /\ \A u \in Keyed : Migrate!Migrated(u)
          /\ \A u \in Keyed \ {t} : Migrate!IsSynced(u)' => Migrate!IsSynced(u)
      BY <1>a, <2>1, MigrateSyncs
    <2> HIDE DEF t
    <2>3. v4' \in [Keyed -> Nat] /\ v4'[t] = v11 + 1 /\ \A u \in Keyed \ {t} : v4'[u] = v4[u]
      BY <1>0, <2>1
    <2>4. v8' \subseteq Keyed /\ v12' \subseteq Keyed /\ v8' \subseteq v12'
      BY <1>0, <2>1
    <2>5. Migrate!TypeOK'
      BY <1>0, <2>1, <2>2, <2>3, <2>4 DEF Migrate!TypeOK
    <2>6. Migrate!IdsAreOnce'
      BY <1>a, <2>1 DEF Migrate!IdsAreOnce, Migrate!Used
    <2>7. Migrate!DoneAreMigrated'
      BY <2>1, <2>2 DEF Migrate!DoneAreMigrated, Migrate!Migrated
    <2>8. ASSUME NEW u \in Keyed, u \notin v12', Migrate!IsSynced(u)', NEW i \in Migrate!Used(u) \cup v10[u]
          PROVE  i < v4'[u]
      <3>1. i \in Nat
        BY <1>0, <2>8 DEF Migrate!Used, Migrate!Ids
      <3>2. CASE u = t
        BY <2>1, <2>3, <2>8, <3>1, <3>2
      <3>3. CASE u # t
        <4>1. u \notin v12 /\ Migrate!IsSynced(u)
          BY <2>1, <2>2, <2>8, <3>3
        <4>2. QED
          BY <1>a, <2>3, <2>8, <3>3, <4>1 DEF Migrate!Ahead
      <3>4. QED
        BY <3>2, <3>3
    <2>9. Migrate!Ahead'
      BY <2>1, <2>8 DEF Migrate!Ahead, Migrate!Used
    <2>10. QED
      BY <2>2, <2>4, <2>5, <2>6, <2>7, <2>9 DEF Migrate!IInv, Migrate!EndedIsOver, Migrate!SequencesAhead
  <1>5. CASE Migrate!no_sequence
    <2>1. /\ Migrate!Syncing /\ Migrate!NextSync /\ Migrate!SyncTable \notin Keyed
          /\ UNCHANGED <<v1, v2, v3, v4, v7, v8, v10, v11, v12>>
      BY <1>5 DEF Migrate!no_sequence, Migrate!core
    <2>2. /\ v5' \in Nat /\ v6' \in BOOLEAN /\ (v6' => v5' = 0)
          /\ \A u \in Keyed : Migrate!Migrated(u)
          /\ \A u \in Keyed : Migrate!IsSynced(u)' => Migrate!IsSynced(u)
      BY <1>a, <2>1, MigrateSyncs
    <2>3. Migrate!TypeOK'
      BY <1>0, <2>1, <2>2 DEF Migrate!TypeOK
    <2>4. Migrate!IdsAreOnce'
      BY <1>a, <2>1 DEF Migrate!IdsAreOnce, Migrate!Used
    <2>5. Migrate!DoneAreMigrated'
      BY <2>1, <2>2 DEF Migrate!DoneAreMigrated, Migrate!Migrated
    <2>6. Migrate!Ahead'
      BY <1>a, <2>1, <2>2 DEF Migrate!Ahead, Migrate!Used
    <2>7. QED
      BY <1>0, <2>1, <2>2, <2>3, <2>4, <2>5, <2>6
      DEF Migrate!IInv, Migrate!EndedIsOver, Migrate!SequencesAhead
  <1>6. CASE Migrate!Stop
    <2>1. v5' = 0 /\ v5 # 0 /\ v11' = Migrate!Unread /\ UNCHANGED <<v1, v2, v3, v4, v6, v7, v8, v10, v12>>
      BY <1>6 DEF Migrate!Stop, Migrate!core
    <2>2. Migrate!TypeOK'
      BY <1>0, <2>1 DEF Migrate!TypeOK
    <2>3. \A k \in DOMAIN Tables : ~ (k < v5') /\ ~ (Len(Tables) + k < v5')
      BY <2>1, MigrateNames
    <2>4. Migrate!IdsAreOnce'
      BY <1>a, <2>1 DEF Migrate!IdsAreOnce, Migrate!Used
    <2>5. QED
      BY <1>0, <2>1, <2>2, <2>3, <2>4
      DEF Migrate!IInv, Migrate!EndedIsOver, Migrate!DoneAreMigrated, Migrate!Ahead,
          Migrate!IsSynced, Migrate!SequencesAhead
  <1>7. ASSUME NEW t \in Migrate!TableNames, t \notin Keyed, Migrate!insert_into(t) PROVE Migrate!IInv'
    <2>1. PICK i \in Migrate!Ids :
            /\ v3' = Migrate!TableNames /\ UNCHANGED <<v1, v4, v5, v6, v7, v8, v10, v11, v12>>
            /\ v2' = [v2 EXCEPT ![t] = [v2[t] EXCEPT ![i] = [v2[t][i] EXCEPT !.core = v2[t][i].core + 1]]]
      BY <1>7 DEF Migrate!insert_into
    <2>2. /\ v2' \in [Migrate!TableNames -> [Migrate!Ids -> Migrate!Rows]]
          /\ \A u \in Migrate!TableNames : u # t => v2'[u] = v2[u]
      <3>1. v2[t] \in [Migrate!Ids -> Migrate!Rows]
        BY <1>0
      <3>2. [v2[t][i] EXCEPT !.core = v2[t][i].core + 1] \in Migrate!Rows
        BY <3>1 DEF Migrate!Rows
      <3>3. QED
        BY <1>0, <2>1, <3>1, <3>2
    <2>3. Migrate!TypeOK'
      BY <1>0, <2>1, <2>2 DEF Migrate!TypeOK
    <2>4. \A u \in Keyed : v2'[u] = v2[u] /\ u \in Migrate!TableNames
      BY <1>7, <2>2, MigrateNames
    <2>5. Migrate!IdsAreOnce'
      BY <1>a, <2>1, <2>4 DEF Migrate!IdsAreOnce, Migrate!Used
    <2>6. Migrate!DoneAreMigrated' /\ Migrate!Ahead'
      BY <1>a, <2>1, <2>4
      DEF Migrate!DoneAreMigrated, Migrate!Migrated, Migrate!Ahead, Migrate!IsSynced, Migrate!Used
    <2>7. QED
      BY <1>0, <2>1, <2>3, <2>5, <2>6 DEF Migrate!IInv, Migrate!EndedIsOver, Migrate!SequencesAhead
  <1>8. ASSUME NEW t \in Keyed, Migrate!insert_into(t) PROVE Migrate!IInv'
    <2>1. PICK i \in {v4[t]} \cap Migrate!Ids :
            /\ v3' = Migrate!TableNames /\ v4' = [v4 EXCEPT ![t] = i + 1]
            /\ UNCHANGED <<v1, v2, v5, v6, v7, v11, v12>>
            /\ IF i \in Migrate!Used(t) \cup v10[t]
               THEN v8' = (IF v6 THEN v8 \cup {t} ELSE v8) /\ UNCHANGED v10
               ELSE v10' = [v10 EXCEPT ![t] = v10[t] \cup {i}] /\ UNCHANGED v8
      BY <1>8 DEF Migrate!insert_into
    <2>2. i \in Nat /\ i \in Migrate!Ids /\ i = v4[t]
      BY <2>1 DEF Migrate!Ids
    <2>3. v4' \in [Keyed -> Nat] /\ v4'[t] = i + 1 /\ \A u \in Keyed \ {t} : v4'[u] = v4[u]
      BY <1>0, <2>1, <2>2
    <2>4. /\ v10' \in [Keyed -> SUBSET Migrate!Ids] /\ v10'[t] \subseteq v10[t] \cup {i}
          /\ i \notin Migrate!Used(t) \/ v10'[t] = v10[t]
      <3>1. CASE i \in Migrate!Used(t) \cup v10[t]
        BY <1>0, <2>1, <3>1
      <3>2. CASE i \notin Migrate!Used(t) \cup v10[t]
        BY <1>0, <2>1, <2>2, <3>2
      <3>3. QED
        BY <3>1, <3>2
    <2>5. \A u \in Keyed \ {t} : v10'[u] = v10[u]
      BY <1>0, <2>1
    <2>6. v8' \subseteq Keyed /\ v8' \subseteq v12
      <3>1. ASSUME t \notin v12, v6 PROVE i \notin Migrate!Used(t) \cup v10[t]
        <4>1. \A j \in Migrate!Used(t) \cup v10[t] : j < v4[t]
          BY <1>8, <1>a, <3>1 DEF Migrate!Ahead, Migrate!IsSynced
        <4>2. QED
          BY <2>2, <4>1
      <3>2. QED
        BY <1>0, <2>1, <3>1
    <2>7. Migrate!TypeOK'
      BY <1>0, <2>1, <2>3, <2>4, <2>6 DEF Migrate!TypeOK
    <2>8. Migrate!IdsAreOnce'
      <3>1. \A u \in Keyed : v10'[u] \cap Migrate!Used(u) = {}
        BY <1>a, <2>4, <2>5 DEF Migrate!IdsAreOnce
      <3>2. QED
        BY <1>a, <2>1, <3>1 DEF Migrate!IdsAreOnce, Migrate!Used
    <2>9. ASSUME NEW u \in Keyed, u \notin v12, Migrate!IsSynced(u), NEW j \in Migrate!Used(u) \cup v10'[u]
          PROVE  j < v4'[u]
      <3>1. CASE u # t
        BY <1>a, <2>3, <2>5, <2>9, <3>1 DEF Migrate!Ahead
      <3>2. CASE u = t
        <4>1. j \in Migrate!Used(t) \cup v10[t] => j < i
          BY <1>a, <2>2, <2>9, <3>2 DEF Migrate!Ahead
        <4>2. j = i \/ j \in Migrate!Used(t) \cup v10[t]
          BY <2>4, <2>9, <3>2
        <4>3. j \in Nat
          BY <1>0, <2>2, <4>2 DEF Migrate!Used, Migrate!Ids
        <4>4. QED
          BY <2>2, <2>3, <3>2, <4>1, <4>2, <4>3
      <3>3. QED
        BY <3>1, <3>2
    <2>10. Migrate!Ahead' /\ Migrate!DoneAreMigrated'
      <3>1. Migrate!Ahead'
        BY <2>1, <2>9 DEF Migrate!Ahead, Migrate!IsSynced, Migrate!Used
      <3>2. Migrate!DoneAreMigrated'
        BY <1>a, <2>1, MigrateNames DEF Migrate!DoneAreMigrated, Migrate!Migrated
      <3>3. QED
        BY <3>1, <3>2
    <2>11. QED
      BY <1>0, <2>1, <2>6, <2>7, <2>8, <2>10 DEF Migrate!IInv, Migrate!EndedIsOver, Migrate!SequencesAhead
  <1>9. ASSUME NEW t \in Keyed, Migrate!commit(t) PROVE Migrate!IInv'
    <2>1. PICK i \in v10[t] :
            /\ v2' = [v2 EXCEPT ![t] = [v2[t] EXCEPT ![i] = [v2[t][i] EXCEPT !.core = v2[t][i].core + 1]]]
            /\ v10' = [v10 EXCEPT ![t] = v10[t] \ {i}]
            /\ UNCHANGED <<v1, v3, v4, v5, v6, v7, v8, v11, v12>>
      BY <1>9 DEF Migrate!commit
    <2>2. t \in Migrate!TableNames /\ i \in Migrate!Ids /\ i \notin Migrate!Used(t)
      BY <1>0, <1>a, <2>1, MigrateNames DEF Migrate!IdsAreOnce
    <2>3. v2[t] \in [Migrate!Ids -> Migrate!Rows] /\ v2[t][i] \in Migrate!Rows
      BY <1>0, <2>2
    <2>4. v2[t][i].old = 0 /\ v2[t][i].core = 0
      BY <1>a, <2>2, MigrateUsed
    <2> DEFINE one == [v2[t][i] EXCEPT !.core = v2[t][i].core + 1]
               row == [v2[t] EXCEPT ![i] = one]
    <2>5. one \in Migrate!Rows /\ one.old = 0 /\ one.core = 1
      BY <2>3, <2>4 DEF Migrate!Rows
    <2>6. v2' = [v2 EXCEPT ![t] = row]
      BY <2>1
    <2> HIDE DEF one
    <2>7. /\ row \in [Migrate!Ids -> Migrate!Rows] /\ row[i].old = 0 /\ row[i].core = 1
          /\ \A k \in Migrate!Ids \ {i} : row[k] = v2[t][k]
      BY <2>2, <2>3, <2>5
    <2> HIDE DEF row
    <2>8. v2'[t] = row /\ \A u \in Keyed \ {t} : v2'[u] = v2[u] /\ v10'[u] = v10[u]
      BY <1>0, <2>2, <2>6, <2>1, MigrateNames
    <2>9. v10' \in [Keyed -> SUBSET Migrate!Ids] /\ v10'[t] = v10[t] \ {i}
      BY <1>0, <2>1
    <2>10. Migrate!TypeOK'
      <3>1. v2' \in [Migrate!TableNames -> [Migrate!Ids -> Migrate!Rows]]
        BY <1>0, <2>2, <2>6, <2>7
      <3>2. QED
        BY <1>0, <2>1, <2>9, <3>1 DEF Migrate!TypeOK
    <2>11. Migrate!Used(t)' = Migrate!Used(t) \cup {i} /\ \A u \in Keyed \ {t} : Migrate!Used(u)' = Migrate!Used(u)
      <3>1. \A u \in Keyed \ {t} : Migrate!Used(u)' = Migrate!Used(u)
        BY <2>8 DEF Migrate!Used
      <3>2. \A k \in Migrate!Ids : k \in Migrate!Used(t)' <=> k \in Migrate!Used(t) \cup {i}
        BY <2>2, <2>7, <2>8 DEF Migrate!Used
      <3>3. Migrate!Used(t) \subseteq Migrate!Ids /\ Migrate!Used(t)' \subseteq Migrate!Ids
        BY DEF Migrate!Used, Migrate!Ids
      <3>4. QED
        BY <2>2, <3>1, <3>2, <3>3
    <2>12. Migrate!IdsAreOnce'
      <3>1. \A u \in Keyed : v10'[u] \cap Migrate!Used(u)' = {}
        BY <1>a, <2>8, <2>9, <2>11 DEF Migrate!IdsAreOnce
      <3>2. /\ \A k \in Migrate!Ids : v2[t][k].old + v2[t][k].core <= 1
            /\ \A k \in v7[t] : k \in Migrate!Ids /\ v2[t][k].core = 1
        BY <1>0, <1>a, <2>2 DEF Migrate!IdsAreOnce
      <3>3. /\ \A k \in Migrate!Ids : row[k].old + row[k].core <= 1
            /\ \A k \in v7[t] : row[k].core = 1
        BY <2>2, <2>4, <2>7, <3>2
      <3>4. ASSUME NEW u \in Keyed, u # t
            PROVE  /\ \A k \in Migrate!Ids : v2'[u][k].old + v2'[u][k].core <= 1
                   /\ \A k \in v7[u] : v2'[u][k].core = 1
        BY <1>a, <2>8, <3>4 DEF Migrate!IdsAreOnce
      <3>5. QED
        BY <2>1, <2>8, <3>1, <3>3, <3>4 DEF Migrate!IdsAreOnce
    <2>13. ASSUME NEW u \in Keyed, Migrate!Migrated(u) PROVE Migrate!Migrated(u)'
      <3>1. u \in Migrate!TableNames /\ v1[u] \subseteq Migrate!Ids
        BY <1>0, MigrateNames
      <3>2. CASE u # t
        BY <2>1, <2>8, <2>13, <3>2 DEF Migrate!Migrated
      <3>3. CASE u = t
        <4>1. ASSUME NEW k \in v1[t] PROVE row[k].old = 1 \/ k \in v7[t]
          <5>1. v2[t][k].old = 1 \/ k \in v7[t]
            BY <2>13, <3>3, <4>1 DEF Migrate!Migrated
          <5>2. CASE k = i
            BY <2>4, <5>1, <5>2
          <5>3. CASE k # i
            BY <2>7, <3>1, <3>3, <4>1, <5>1, <5>3
          <5>4. QED
            BY <5>2, <5>3
        <4>2. QED
          BY <2>1, <2>8, <2>13, <3>3, <4>1 DEF Migrate!Migrated
      <3>4. QED
        BY <3>2, <3>3
    <2>14. Migrate!DoneAreMigrated'
      BY <1>a, <2>1, <2>13 DEF Migrate!DoneAreMigrated
    <2>15. Migrate!Ahead'
      <3>1. \A u \in Keyed : Migrate!Used(u)' \cup v10'[u] \subseteq Migrate!Used(u) \cup v10[u]
        BY <2>1, <2>8, <2>9, <2>11
      <3>2. QED
        BY <1>a, <2>1, <3>1 DEF Migrate!Ahead, Migrate!IsSynced
    <2>16. QED
      BY <1>0, <2>1, <2>10, <2>12, <2>14, <2>15 DEF Migrate!IInv, Migrate!EndedIsOver, Migrate!SequencesAhead
  <1>10. CASE UNCHANGED Migrate!vars
    <2>1. UNCHANGED <<v1, v2, v3, v4, v5, v6, v7, v8, v10, v11, v12>>
      BY <1>10 DEF Migrate!vars
    <2>2. Migrate!TypeOK' /\ Migrate!IdsAreOnce'
      BY <1>a, <2>1 DEF Migrate!TypeOK, Migrate!IdsAreOnce, Migrate!Used
    <2>3. Migrate!DoneAreMigrated' /\ Migrate!Ahead'
      BY <1>a, <2>1
      DEF Migrate!DoneAreMigrated, Migrate!Migrated, Migrate!Ahead, Migrate!IsSynced, Migrate!Used
    <2>4. QED
      BY <1>0, <2>1, <2>2, <2>3 DEF Migrate!IInv, Migrate!EndedIsOver, Migrate!SequencesAhead
  <1>11. QED
    BY <1>1, <1>2, <1>3, <1>4, <1>5, <1>6, <1>7, <1>8, <1>9, <1>10 DEF Migrate!Next

\* An invariant state has every old row, and the core's next number is free.
LEMMA MigrateWhole == Migrate!IInv => Migrate!SequencesAhead /\ Migrate!RowsKept
  BY DEF Migrate!IInv, Migrate!IdsAreOnce, Migrate!DoneAreMigrated, Migrate!Migrated, Migrate!RowsKept

-----------------------------------------------------------------------------
(***************************************************************************)
(* LlmCalls: a row of usage is of a turn of the past; what the cycle of a  *)
(* chat says is what its last row says, unless a turn since then failed.   *)
(***************************************************************************)
\* At first there is no turn and no row.
LEMMA CallsInit == Calls!Init => Calls!IInv
  <1> SUFFICES ASSUME Calls!Init PROVE Calls!IInv
    OBVIOUS
  <1>1. Calls!Idle \in Calls!Turns /\ Calls!Idle.pc = "idle"
    BY DEF Calls!Idle, Calls!Turns
  <1>2. Calls!TypeOK
    BY <1>1 DEF Calls!Init, Calls!TypeOK
  <1>3. \A c \in Clients : v3[c].pc = "idle"
    BY DEF Calls!Init, Calls!Idle
  <1>4. DOMAIN v6 = {} /\ v7 = {}
    BY DEF Calls!Init
  <1> QED
    BY <1>2, <1>3, <1>4 DEF Calls!IInv, Calls!TurnsAreApart, Calls!RowsAreOfThePast, Calls!CycleIsLast, Calls!NotYetCounted, Calls!LastRow,
       Calls!AnswersItsOwn, Calls!CountedOnce, Calls!EffectiveIsDifference, Calls!At

\* A step that writes no row keeps the invariant if turns begin, go on and end
\* as they should, and a cycle changes only with a turn that fails.
LEMMA CallsNoRow ==
  ASSUME Calls!IInv, Calls!TypeOK', v6' = v6, v8 \subseteq v8', v7 \subseteq v7',
         v9' \in {v9, v9 + 1},
         \A m \in v7' \ v7 : m.error => m.n \in v8',
         \A d \in Clients :
            \/ v3'[d] = v3[d]
            \/ v3'[d].pc = "idle"
            \/ /\ v3'[d].pc = "built" /\ v3'[d].n = v9 + 1 /\ v9' = v9 + 1
               /\ \A e \in Clients : e # d => v3'[e] = v3[e]
            \/ /\ v3[d].pc = "built" /\ v3'[d].pc = "called"
               /\ v3'[d].n = v3[d].n /\ v3'[d].asked = v3[d].n,
         \A d \in Clients :
            \/ v5'[d] \in {v5[d], None}
            \/ v3[d].pc = "called" /\ v3'[d].pc = "idle" /\ v3[d].n \in v8'
  PROVE  Calls!IInv'
  <1>1. /\ v9 \in Nat /\ \A d \in Clients : v3[d].n \in Nat
        /\ \A k \in DOMAIN v6 : v6[k].n \in Nat /\ v6[k].n <= v9
    <2>1. /\ v9 \in Nat /\ \A d \in Clients : v3[d] \in Calls!Turns
          /\ \A k \in DOMAIN v6 : v6[k] \in Calls!UsageRows /\ v6[k].n <= v9
      BY DEF Calls!IInv, Calls!TypeOK, Calls!TurnsAreApart
    <2> QED
      BY <2>1 DEF Calls!Turns, Calls!UsageRows
  <1>2. Calls!TurnsAreApart'
    <2>1. \A d \in Clients : v3'[d].pc # "idle" =>
             (v3[d].pc # "idle" /\ v3'[d].n = v3[d].n)
             \/ (v3'[d].n = v9 + 1 /\ v9' = v9 + 1 /\ \A e \in Clients : e # d => v3'[e] = v3[e])
      OBVIOUS
    <2>2. \A d \in Clients : v3[d].pc # "idle" => v3[d].n \in 1..v9
      BY DEF Calls!IInv, Calls!TurnsAreApart, Calls!At
    <2>3. \A d \in Clients : v3'[d].pc # "idle" => v3'[d].n \in 1..v9'
      BY <1>1, <2>1, <2>2
    <2>4. \A c, d \in Clients : v3'[c].pc # "idle" /\ v3'[d].pc # "idle" /\ v3'[c].n = v3'[d].n => c = d
      BY <1>1, <2>1, <2>2 DEF Calls!IInv, Calls!TurnsAreApart, Calls!At
    <2>5. \A d \in Clients : v3'[d].pc = "called" => v3'[d].asked = v3'[d].n
      BY DEF Calls!IInv, Calls!TurnsAreApart, Calls!At
    <2> QED
      BY <1>1, <2>3, <2>4, <2>5 DEF Calls!TurnsAreApart, Calls!At
  <1>3. Calls!RowsAreOfThePast'
    <2> SUFFICES ASSUME NEW c \in Clients, Calls!NotYetCounted(c)', NEW k \in DOMAIN v6
        PROVE  v6[k].n # v3'[c].n /\ (v6[k].chat = c => v6[k].n < v3'[c].n)
      BY DEF Calls!RowsAreOfThePast
    <2>1. CASE Calls!NotYetCounted(c) /\ v3'[c].n = v3[c].n
      BY <2>1 DEF Calls!IInv, Calls!RowsAreOfThePast
    <2>2. CASE v3'[c].n = v9 + 1
      BY <1>1, <2>2
    <2> QED
      BY <2>1, <2>2 DEF Calls!NotYetCounted
  <1>4. Calls!CycleIsLast'
    <2> SUFFICES ASSUME NEW c \in Clients, NEW k \in DOMAIN v6, Calls!LastRow(c, k)', v5'[c] # None
        PROVE  \/ v5'[c] = [id |-> v6[k].cycle, last |-> v6[k].sent, step |-> v6[k].step]
               \/ Calls!FailedSince(c, k)'
      BY DEF Calls!CycleIsLast
    <2>1. Calls!LastRow(c, k) /\ v6[k].chat = c
      BY DEF Calls!LastRow
    <2>2. CASE v5'[c] = v5[c]
      <3>1. CASE Calls!FailedSince(c, k)
        <4>1. PICK n \in v8 : n > v6[k].n /\ n <= v9 /\ (Calls!NotYetCounted(c) => n < v3[c].n)
          BY <3>1 DEF Calls!FailedSince
        <4>2. n \in Nat
          BY DEF Calls!IInv, Calls!TypeOK
        <4>3. n <= v9'
          BY <1>1, <4>1, <4>2
        <4>4. Calls!NotYetCounted(c)' => n < v3'[c].n
          BY <1>1, <4>1, <4>2 DEF Calls!NotYetCounted
        <4> QED
          BY <4>1, <4>3, <4>4 DEF Calls!FailedSince
      <3> QED
        BY <2>1, <2>2, <3>1 DEF Calls!IInv, Calls!CycleIsLast
    <2>3. CASE v3[c].pc = "called" /\ v3'[c].pc = "idle" /\ v3[c].n \in v8'
      <3>1. v6[k].n < v3[c].n
        BY <2>1, <2>3 DEF Calls!IInv, Calls!RowsAreOfThePast, Calls!NotYetCounted
      <3>2. v3[c].n <= v9'
        BY <1>1, <2>3 DEF Calls!IInv, Calls!TurnsAreApart, Calls!At
      <3> QED
        BY <1>1, <2>3, <3>1, <3>2 DEF Calls!FailedSince, Calls!NotYetCounted
    <2> QED
      BY <2>2, <2>3
  <1>5. Calls!AnswersItsOwn' /\ Calls!CountedOnce'
    BY DEF Calls!IInv, Calls!AnswersItsOwn, Calls!CountedOnce, Calls!At, Calls!Metric
  <1>6. Calls!EffectiveIsDifference'
    BY DEF Calls!IInv, Calls!EffectiveIsDifference
  <1> QED
    BY <1>2, <1>3, <1>4, <1>5, <1>6 DEF Calls!IInv

\* What the cycle of a chat becomes with the row of its turn.
LEMMA CallsCycled ==
  ASSUME Calls!TypeOK, NEW c \in Clients
  PROVE  /\ Calls!Begins(c) => Calls!Cycled(c) = [id |-> <<c, v10>>, last |-> v3[c].sent, step |-> 0]
         /\ ~Calls!Begins(c) => /\ v5[c] \in Calls!Cycles
                          /\ Calls!Cycled(c) = [id |-> v5[c].id, last |-> v3[c].sent, step |-> v5[c].step + 1]
         /\ Calls!Cycled(c) \in Calls!Cycles /\ Calls!Cycled(c).last = v3[c].sent
  <1>1. /\ v3[c] \in Calls!Turns /\ v10 \in Nat /\ v3[c].sent \in Nat
        /\ v5[c] \in Calls!Cycles \cup {None}
    BY DEF Calls!TypeOK, Calls!Turns
  <1>2. /\ Calls!Begins(c) => Calls!Cycled(c) = [id |-> <<c, v10>>, last |-> v3[c].sent, step |-> 0]
        /\ ~Calls!Begins(c) => /\ v5[c] \in Calls!Cycles
                         /\ Calls!Cycled(c) = [id |-> v5[c].id, last |-> v3[c].sent, step |-> v5[c].step + 1]
    BY <1>1 DEF Calls!Cycled, Calls!Extended, Calls!Begins, Calls!Cycles
  <1>3. Calls!Cycled(c) \in Calls!Cycles /\ Calls!Cycled(c).last = v3[c].sent
    BY <1>1, <1>2 DEF Calls!Cycles
  <1> QED
    BY <1>2, <1>3

\* The row of an answer, whatever the text, goes on with its chat's cycle or
\* begins one.
LEMMA CallsRow ==
  ASSUME Calls!IInv, NEW c \in Clients, NEW text \in {v3[c].n, Calls!LlmError}, Calls!At(c, "called"), Calls!Counted(c, text)
  PROVE  Calls!IInv'
  <1> DEFINE row == Calls!UsageRow(c)
             new == Len(v6) + 1
  <1>1. /\ v3[c] \in Calls!Turns /\ v3[c].pc = "called" /\ v3[c].asked = v3[c].n
        /\ v3[c].n \in Nat /\ v9 \in Nat /\ v10 \in Nat /\ v6 \in Seq(Calls!UsageRows)
        /\ v3 \in [Clients -> Calls!Turns] /\ v5 \in [Clients -> Calls!Cycles \cup {None}]
        /\ v5[c] \in Calls!Cycles \cup {None} /\ v3[c].sent \in Nat
        /\ v3[c].n <= v9
    BY DEF Calls!IInv, Calls!TypeOK, Calls!Turns, Calls!TurnsAreApart, Calls!At
  <1>2. /\ Calls!Begins(c) => Calls!Cycled(c) = [id |-> <<c, v10>>, last |-> v3[c].sent, step |-> 0]
        /\ ~Calls!Begins(c) => /\ v5[c] \in Calls!Cycles
                         /\ Calls!Cycled(c) = [id |-> v5[c].id, last |-> v3[c].sent, step |-> v5[c].step + 1]
    BY CallsCycled DEF Calls!IInv
  <1>3. Calls!Cycled(c) \in Calls!Cycles /\ Calls!Cycled(c).last = v3[c].sent
    BY CallsCycled DEF Calls!IInv
  <1>4. Calls!effective_sent_tokens(c) \in Nat
    BY <1>1, <1>2 DEF Calls!effective_sent_tokens, Calls!Begins, Calls!Cycles
  <1>5. /\ row \in Calls!UsageRows /\ row.n = v3[c].n /\ row.chat = c /\ row.sent = v3[c].sent
        /\ row.effective = Calls!effective_sent_tokens(c)
        /\ row.cycle = Calls!Cycled(c).id /\ row.step = Calls!Cycled(c).step
    <2>1. Calls!Cycled(c).id \in Clients \X Nat /\ Calls!Cycled(c).step \in Nat
      BY <1>3 DEF Calls!Cycles
    <2> QED
      BY <1>1, <1>4, <2>1 DEF Calls!UsageRow, Calls!UsageRows
  <1>6. /\ v6' = Append(v6, row) /\ v5' = [v5 EXCEPT ![c] = Calls!Cycled(c)]
        /\ v7' = v7 \cup {Calls!Metric(c, FALSE)}
        /\ v3' = [v3 EXCEPT ![c] = [v3[c] EXCEPT !.pc = "writing", !.text = text]]
        /\ v8' = v8 /\ v9' = v9 /\ v10' = v10
    BY DEF Calls!Counted, Calls!Measured
  <1> HIDE DEF row
  <1>7. /\ v6' \in Seq(Calls!UsageRows) /\ DOMAIN v6' = DOMAIN v6 \cup {new} /\ new \notin DOMAIN v6
        /\ v6'[new] = row /\ \A k \in DOMAIN v6 : v6'[k] = v6[k] /\ k < new
        /\ DOMAIN v6 \subseteq Nat /\ new \in Nat
    BY <1>1, <1>5, <1>6
  <1> HIDE DEF new
  <1>8. /\ v3' \in [Clients -> Calls!Turns] /\ \A d \in Clients : d # c => v3'[d] = v3[d]
        /\ v3'[c].pc = "writing" /\ v3'[c].n = v3[c].n /\ v3'[c].asked = v3[c].asked
        /\ v3'[c].text = text
    <2>1. [v3[c] EXCEPT !.pc = "writing", !.text = text] \in Calls!Turns
      <3>1. text \in Nat
        BY <1>1 DEF Calls!LlmError
      <3> QED
        BY <1>1, <3>1 DEF Calls!Turns
    <2> QED
      BY <1>1, <1>6, <2>1 DEF Calls!Turns
  <1>9. v5' \in [Clients -> Calls!Cycles \cup {None}] /\ v5'[c] = Calls!Cycled(c) /\ \A d \in Clients : d # c => v5'[d] = v5[d]
    BY <1>1, <1>3, <1>6
  <1>10. Calls!TypeOK'
    <2>1. Calls!Metric(c, FALSE) \in [n : Nat, error : BOOLEAN]
      BY <1>1 DEF Calls!Metric
    <2> QED
      BY <1>6, <1>7, <1>8, <1>9, <2>1 DEF Calls!IInv, Calls!TypeOK
  <1>11. Calls!TurnsAreApart'
    <2>1. \A k \in DOMAIN v6' : v6'[k].n <= v9'
      BY <1>1, <1>5, <1>6, <1>7 DEF Calls!IInv, Calls!TurnsAreApart
    <2> QED
      BY <1>1, <1>6, <1>8, <2>1 DEF Calls!IInv, Calls!TurnsAreApart, Calls!At
  <1>12. Calls!RowsAreOfThePast'
    <2> SUFFICES ASSUME NEW d \in Clients, Calls!NotYetCounted(d)', NEW k \in DOMAIN v6'
        PROVE  v6'[k].n # v3'[d].n /\ (v6'[k].chat = d => v6'[k].n < v3'[d].n)
      BY DEF Calls!RowsAreOfThePast
    <2>1. d # c /\ v3'[d] = v3[d] /\ Calls!NotYetCounted(d)
      BY <1>8 DEF Calls!NotYetCounted
    <2>2. CASE k = new
      BY <1>1, <1>5, <1>7, <2>1, <2>2 DEF Calls!IInv, Calls!TurnsAreApart, Calls!At, Calls!NotYetCounted
    <2>3. CASE k \in DOMAIN v6
      BY <1>7, <2>1, <2>3 DEF Calls!IInv, Calls!RowsAreOfThePast
    <2> QED
      BY <1>7, <2>2, <2>3
  <1>13. Calls!CycleIsLast'
    <2> SUFFICES ASSUME NEW d \in Clients, NEW k \in DOMAIN v6', Calls!LastRow(d, k)', v5'[d] # None
        PROVE  \/ v5'[d] = [id |-> v6'[k].cycle, last |-> v6'[k].sent, step |-> v6'[k].step]
               \/ Calls!FailedSince(d, k)'
      BY DEF Calls!CycleIsLast
    <2>1. v6'[k].chat = d /\ \A i \in DOMAIN v6' : i > k => v6'[i].chat # d
      BY DEF Calls!LastRow
    <2>2. CASE d = c
      <3>1. k = new
        BY <1>5, <1>7, <2>1, <2>2
      <3>2. Calls!Cycled(c) = [id |-> row.cycle, last |-> row.sent, step |-> row.step]
        BY <1>3, <1>5 DEF Calls!Cycles
      <3> QED
        BY <1>7, <1>9, <2>2, <3>1, <3>2
    <2>3. CASE d # c
      <3>1. k \in DOMAIN v6 /\ v6'[k] = v6[k]
        BY <1>5, <1>7, <2>1, <2>3
      <3>2. Calls!LastRow(d, k) /\ v5[d] # None /\ v5'[d] = v5[d]
        BY <1>7, <1>9, <2>1, <2>3, <3>1 DEF Calls!LastRow
      <3>3. Calls!FailedSince(d, k) => Calls!FailedSince(d, k)'
        BY <1>6, <1>8, <2>3, <3>1 DEF Calls!FailedSince, Calls!NotYetCounted
      <3> QED
        BY <3>1, <3>2, <3>3 DEF Calls!IInv, Calls!CycleIsLast
    <2> QED
      BY <2>2, <2>3
  <1>14. Calls!AnswersItsOwn'
    BY <1>1, <1>8 DEF Calls!IInv, Calls!AnswersItsOwn, Calls!At
  <1>15. Calls!CountedOnce'
    <2>1. \A d \in Clients : Calls!At(d, "writing")' =>
             Calls!Metric(d, FALSE)' \in v7' /\ \E k \in DOMAIN v6' : v6'[k].n = v3'[d].n
      <3> SUFFICES ASSUME NEW d \in Clients, Calls!At(d, "writing")'
          PROVE  Calls!Metric(d, FALSE)' \in v7' /\ \E k \in DOMAIN v6' : v6'[k].n = v3'[d].n
        OBVIOUS
      <3>1. CASE d = c
        BY <1>5, <1>6, <1>7, <1>8, <3>1 DEF Calls!Metric
      <3>2. CASE d # c
        <4>1. v3'[d] = v3[d]
          BY <1>8, <3>2
        <4>2. Calls!At(d, "writing")
          BY <4>1 DEF Calls!At
        <4>3. Calls!Metric(d, FALSE) \in v7 /\ \E k \in DOMAIN v6 : v6[k].n = v3[d].n
          BY <4>2 DEF Calls!IInv, Calls!CountedOnce
        <4>4. Calls!Metric(d, FALSE)' = Calls!Metric(d, FALSE)
          BY <4>1 DEF Calls!Metric
        <4>5. \E k \in DOMAIN v6' : v6'[k].n = v3'[d].n
          BY <1>7, <4>1, <4>3
        <4> QED
          BY <1>6, <4>3, <4>4, <4>5
      <3> QED
        BY <3>1, <3>2
    <2>2. \A k \in DOMAIN v6 : v6[k].n # row.n
      BY <1>1, <1>5 DEF Calls!IInv, Calls!RowsAreOfThePast, Calls!NotYetCounted
    <2>3. \A j, k \in DOMAIN v6' : v6'[j].n = v6'[k].n => j = k
      BY <1>7, <2>2 DEF Calls!IInv, Calls!CountedOnce
    <2>4. \A m \in v7' : m.error => m.n \in v8'
      BY <1>6 DEF Calls!IInv, Calls!CountedOnce, Calls!Metric
    <2> QED
      BY <2>1, <2>3, <2>4 DEF Calls!CountedOnce
  <1>16. Calls!EffectiveIsDifference'
    <2> SUFFICES ASSUME NEW k \in DOMAIN v6', NEW j \in 1..(k - 1), v6'[j].chat = v6'[k].chat,
                        \A i \in (j + 1)..(k - 1) : v6'[i].chat # v6'[k].chat,
                        \A n \in v8' : ~(v6'[j].n < n /\ n < v6'[k].n)
        PROVE  IF v6'[k].step = 0 THEN v6'[k].effective = v6'[k].sent
               ELSE /\ v6'[k].cycle = v6'[j].cycle /\ v6'[k].step = v6'[j].step + 1
                    /\ v6'[k].effective =
                          IF v6'[k].sent > v6'[j].sent THEN v6'[k].sent - v6'[j].sent ELSE 0
      BY DEF Calls!EffectiveIsDifference
    <2>0. j \in DOMAIN v6 /\ DOMAIN v6 = 1..Len(v6) /\ Len(v6) \in Nat /\ new = Len(v6) + 1
      BY <1>1, <1>7 DEF new
    <2>1. CASE k \in DOMAIN v6
      <3>1. \A i \in (j + 1)..(k - 1) : i \in DOMAIN v6
        BY <2>0, <2>1
      <3>2. /\ v6'[j] = v6[j] /\ v6'[k] = v6[k]
            /\ \A i \in (j + 1)..(k - 1) : v6[i].chat # v6[k].chat
            /\ \A n \in v8 : ~(v6[j].n < n /\ n < v6[k].n)
        BY <1>6, <1>7, <2>0, <2>1, <3>1
      <3>3. v6[j].chat = v6[k].chat
        BY <3>2
      <3> QED
        BY <2>1, <3>2, <3>3 DEF Calls!IInv, Calls!EffectiveIsDifference
    <2>2. CASE k = new /\ Calls!Begins(c)
      BY <1>2, <1>5, <1>7, <2>2 DEF Calls!effective_sent_tokens
    <2>3. CASE k = new /\ ~Calls!Begins(c)
      <3>1. Calls!LastRow(c, j)
        <4>1. \A i \in DOMAIN v6 : i > j => i \in (j + 1)..(k - 1)
          BY <2>0, <2>3
        <4> QED
          BY <1>5, <1>7, <2>0, <2>3, <4>1 DEF Calls!LastRow
      <3>2. v5[c] # None /\ v6'[j] = v6[j] /\ v6'[k] = row
        BY <1>7, <2>0, <2>3 DEF Calls!Begins
      <3>3. ~Calls!FailedSince(c, j)
        BY <1>1, <1>5, <1>6, <3>2 DEF Calls!FailedSince, Calls!NotYetCounted
      <3>4. v5[c] = [id |-> v6[j].cycle, last |-> v6[j].sent, step |-> v6[j].step]
        BY <2>0, <3>1, <3>2, <3>3 DEF Calls!IInv, Calls!CycleIsLast
      <3>5. row.cycle = v6[j].cycle /\ row.step = v6[j].step + 1
        BY <1>2, <1>5, <2>3, <3>4
      <3>6. row.effective = IF row.sent > v6[j].sent THEN row.sent - v6[j].sent ELSE 0
        BY <1>5, <2>3, <3>4 DEF Calls!effective_sent_tokens
      <3>7. row.step # 0
        <4>0. v6[j] \in Calls!UsageRows
          BY <1>1, <2>0
        <4>1. v6[j].step \in Nat
          BY <4>0 DEF Calls!UsageRows
        <4> QED
          BY <3>5, <4>1
      <3> QED
        BY <3>2, <3>5, <3>6, <3>7
    <2> QED
      BY <1>7, <2>1, <2>2, <2>3
  <1> QED
    BY <1>10, <1>11, <1>12, <1>13, <1>14, <1>15, <1>16 DEF Calls!IInv

\* Every step of a dialogue, of the provider and of a restart keeps the invariant.
LEMMA CallsStep == Calls!IInv /\ [Calls!Next]_(Calls!vars) => Calls!IInv'
  <1> SUFFICES ASSUME Calls!IInv, [Calls!Next]_(Calls!vars) PROVE Calls!IInv'
    OBVIOUS
  <1> USE DEF Calls!shared, Calls!rows
  <1>0. /\ v3 \in [Clients -> Calls!Turns] /\ v5 \in [Clients -> Calls!Cycles \cup {None}]
        /\ v6 \in Seq(Calls!UsageRows) /\ v7 \subseteq [n : Nat, error : BOOLEAN]
        /\ v8 \subseteq Nat /\ v9 \in Nat /\ v10 \in Nat
    BY DEF Calls!IInv, Calls!TypeOK
  <1>i. Calls!Idle \in Calls!Turns /\ Calls!Idle.pc = "idle"
    BY DEF Calls!Idle, Calls!Turns
  <1>1. CASE Calls!Tick \/ UNCHANGED Calls!vars
    <2>1. UNCHANGED <<v3, v5, v6, v7, v8, v9>> /\ v10' \in Nat
      BY <1>0, <1>1 DEF Calls!Tick, Calls!vars
    <2>2. Calls!TypeOK'
      BY <1>0, <2>1 DEF Calls!TypeOK
    <2> QED
      BY <2>1, <2>2, CallsNoRow
  <1>2. CASE Calls!Restart
    <2>1. /\ UNCHANGED <<v6, v7, v8, v9>> /\ v10' \in Nat
          /\ v3' = [c \in Clients |-> Calls!Idle] /\ v5' = [c \in Clients |-> None]
      BY <1>0, <1>2 DEF Calls!Restart
    <2>2. Calls!TypeOK'
      BY <1>0, <1>i, <2>1 DEF Calls!TypeOK
    <2>3. \A d \in Clients : v3'[d].pc = "idle" /\ v5'[d] = None
      BY <1>i, <2>1
    <2> QED
      BY <2>1, <2>2, <2>3, CallsNoRow
  <1>3. ASSUME NEW c \in Clients, Calls!Build(c) PROVE Calls!IInv'
    <2>1. PICK sent \in Sizes, mode \in {"FULL", "DELTA_SAFE"} :
             v3' = [v3 EXCEPT ![c] = [Calls!Idle EXCEPT !.pc = "built", !.n = v9 + 1,
                                                     !.mode = mode, !.sent = sent]]
      BY <1>3 DEF Calls!Build, Calls!Idle
    <2> DEFINE q == [Calls!Idle EXCEPT !.pc = "built", !.n = v9 + 1, !.mode = mode, !.sent = sent]
    <2>2. q \in Calls!Turns /\ q.pc = "built" /\ q.n = v9 + 1
      <3>1. sent \in Nat /\ v9 + 1 \in Nat
        BY <1>0, NumbersAssumption
      <3> QED
        BY <1>i, <3>1 DEF Calls!Turns
    <2>3. v3' = [v3 EXCEPT ![c] = q]
      BY <2>1
    <2> HIDE DEF q
    <2>4. v9' = v9 + 1 /\ UNCHANGED <<v5, v6, v7, v8, v10>>
      BY <1>3 DEF Calls!Build
    <2>5. Calls!TypeOK'
      BY <1>0, <2>2, <2>3, <2>4 DEF Calls!TypeOK
    <2>6. \A d \in Clients : d # c => v3'[d] = v3[d]
      BY <1>0, <2>3
    <2>7. v3'[c] = q
      BY <1>0, <2>3
    <2> QED
      BY <2>2, <2>4, <2>5, <2>6, <2>7, CallsNoRow
  <1>4. ASSUME NEW c \in Clients, Calls!Raises(c) \/ Calls!Return(c) PROVE Calls!IInv'
    <2>1. v3' = [v3 EXCEPT ![c] = Calls!Idle] /\ UNCHANGED <<v5, v6, v7, v8, v9, v10>>
      BY <1>4 DEF Calls!Raises, Calls!Return
    <2>2. Calls!TypeOK'
      BY <1>0, <1>i, <2>1 DEF Calls!TypeOK
    <2>3. \A d \in Clients : v3'[d] = v3[d] \/ v3'[d].pc = "idle"
      BY <1>0, <1>i, <2>1
    <2> QED
      BY <2>1, <2>2, <2>3, CallsNoRow
  <1>5. ASSUME NEW c \in Clients, Calls!Call(c) PROVE Calls!IInv'
    <2>0. v1' = v3[c].n
      BY <1>5 DEF Calls!Call, Calls!make_payload
    <2>r. PICK retried \in BOOLEAN :
             v3' = [v3 EXCEPT ![c] = [v3[c] EXCEPT !.pc = "called", !.asked = v1', !.retried = retried]]
      BY <1>5 DEF Calls!Call
    <2>1. v3' = [v3 EXCEPT ![c] = [v3[c] EXCEPT !.pc = "called", !.asked = v3[c].n, !.retried = retried]]
      BY <2>0, <2>r
    <2> DEFINE q == [v3[c] EXCEPT !.pc = "called", !.asked = v3[c].n, !.retried = retried]
    <2>2. v3[c] \in Calls!Turns /\ v3[c].pc = "built"
      BY <1>0, <1>5 DEF Calls!Call, Calls!At
    <2>3. q \in Calls!Turns /\ q.pc = "called" /\ q.n = v3[c].n /\ q.asked = v3[c].n
      BY <2>2 DEF Calls!Turns
    <2>4. v3' = [v3 EXCEPT ![c] = q]
      BY <2>1
    <2> HIDE DEF q
    <2>5. UNCHANGED <<v5, v6, v7, v8, v9, v10>>
      BY <1>5 DEF Calls!Call
    <2>6. Calls!TypeOK'
      BY <1>0, <2>3, <2>4, <2>5 DEF Calls!TypeOK
    <2>7. v3'[c] = q /\ \A d \in Clients : d # c => v3'[d] = v3[d]
      BY <1>0, <2>4
    <2> QED
      BY <2>2, <2>3, <2>5, <2>6, <2>7, CallsNoRow
  <1>6. ASSUME NEW c \in Clients, Calls!Answer(c) \/ Calls!ProviderFails(c) PROVE Calls!IInv'
    <2>1. Calls!At(c, "called") /\ (Calls!Counted(c, v3[c].asked) \/ Calls!Counted(c, Calls!LlmError))
      BY <1>6 DEF Calls!Answer, Calls!ProviderFails, Calls!get_text
    <2>2. v3[c].asked = v3[c].n
      BY <2>1 DEF Calls!IInv, Calls!TurnsAreApart
    <2> QED
      BY <2>1, <2>2, CallsRow
  <1>7. ASSUME NEW c \in Clients, Calls!CountFails(c) \/ Calls!WriteFails(c) PROVE Calls!IInv'
    <2>1. /\ v8' = v8 \cup {v3[c].n} /\ v3' = [v3 EXCEPT ![c] = Calls!Idle]
          /\ UNCHANGED <<v6, v9, v10>>
          /\ v7' \in {v7 \cup {Calls!Metric(c, TRUE)}, v7 \cup {Calls!Metric(c, FALSE), Calls!Metric(c, TRUE)}}
      BY <1>7 DEF Calls!CountFails, Calls!WriteFails, Calls!Fails, Calls!Measured
    <2>2. v5' = v5 \/ (v3[c].pc = "called" /\ v5' = [v5 EXCEPT ![c] = Calls!Cycled(c)])
      BY <1>7 DEF Calls!CountFails, Calls!WriteFails, Calls!At
    <2>3. v3[c] \in Calls!Turns /\ v3[c].n \in Nat /\ v3[c].sent \in Nat /\ v5[c] \in Calls!Cycles \cup {None}
      BY <1>0 DEF Calls!Turns
    <2>4. Calls!Cycled(c) \in Calls!Cycles
      BY CallsCycled DEF Calls!IInv
    <2>5. \A e \in BOOLEAN : Calls!Metric(c, e) \in [n : Nat, error : BOOLEAN] /\ Calls!Metric(c, e).n = v3[c].n
      BY <2>3 DEF Calls!Metric
    <2>6. /\ v7 \subseteq v7' /\ v7' \subseteq [n : Nat, error : BOOLEAN]
          /\ \A m \in v7' \ v7 : m.n \in v8'
      BY <1>0, <2>1, <2>5
    <2>7. /\ v3' \in [Clients -> Calls!Turns] /\ v3'[c].pc = "idle" /\ \A d \in Clients : d # c => v3'[d] = v3[d]
      BY <1>0, <1>i, <2>1
    <2>8. v5' \in [Clients -> Calls!Cycles \cup {None}] /\ \A d \in Clients : d # c => v5'[d] = v5[d]
      BY <1>0, <2>2, <2>4
    <2>9. Calls!TypeOK'
      BY <1>0, <2>1, <2>3, <2>6, <2>7, <2>8 DEF Calls!TypeOK
    <2>10. \A d \in Clients : v3'[d] = v3[d] \/ v3'[d].pc = "idle"
      BY <2>7
    <2>11. \A d \in Clients : v5'[d] \in {v5[d], None}
                            \/ (v3[d].pc = "called" /\ v3'[d].pc = "idle" /\ v3[d].n \in v8')
      BY <2>1, <2>2, <2>7, <2>8
    <2>12. v6' = v6 /\ v8 \subseteq v8' /\ v9' = v9
      BY <2>1
    <2> QED
      BY <2>6, <2>9, <2>10, <2>11, <2>12, CallsNoRow
  <1> QED
    BY <1>1, <1>2, <1>3, <1>4, <1>5, <1>6, <1>7 DEF Calls!Next

-----------------------------------------------------------------------------
(***************************************************************************)
(* ContextCache: texts of posts only go on, so a fingerprint keeps fitting; *)
(* a kept text that goes up to the last post of a fingerprint is of the same *)
(* turn, so that what is taken from it is what would be packed.            *)
(***************************************************************************)
\* Functions of post ids.
LEMMA ContextOfPosts ==
  ASSUME NEW T
  PROVE  /\ \A f \in Context!OfPosts(T) : DOMAIN f \subseteq Nat /\ f \in [DOMAIN f -> T]
         /\ \A D \in SUBSET Nat : \A f \in [D -> T] : f \in Context!OfPosts(T)
  BY DEF Context!OfPosts

\* The largest of a set of ids, and of any set of numbers that has one.
LEMMA ContextMax ==
  /\ \A S : \A m \in S : S \subseteq Nat /\ (\A n \in S : n <= m) => Context!PostMax(S) = m
  /\ \A n \in Nat : \A S \in SUBSET (1..n) :
        S # {} => Context!PostMax(S) \in S /\ \A i \in S : i <= Context!PostMax(S)
  <1>1. ASSUME NEW S, NEW m \in S, S \subseteq Nat, \A n \in S : n <= m PROVE Context!PostMax(S) = m
    <2>1. \A k \in S : (\A n \in S : n <= k) => k = m
      BY <1>1
    <2> QED
      BY <1>1, <2>1 DEF Context!PostMax
  <1>2. ASSUME NEW n \in Nat, NEW S \in SUBSET (1..n), S # {}
        PROVE  Context!PostMax(S) \in S /\ \A i \in S : i <= Context!PostMax(S)
    <2>1. PICK m \in S : \A j \in S : j <= m
      BY <1>2, LargestExists
    <2> QED
      BY <2>1 DEF Context!PostMax
  <1> QED
    BY <1>1, <1>2

\* The state by its variables' types.
LEMMA ContextTyped ==
  ASSUME Context!TypeOK
  PROVE  /\ v1 \in Seq([text : Context!PostTexts, live : BOOLEAN]) /\ DOMAIN v1 = 1..Len(v1)
         /\ Len(v1) \in Nat /\ \A p \in DOMAIN v1 : v1[p].text \in Context!PostTexts
         /\ v2 \in Context!Files /\ v2.ts \in Nat /\ v2.text \in Nat
         /\ v3 \in [Clients -> Context!Fingerprints \cup {None}]
         /\ v4 \in [Clients -> Context!Prefixes \cup {None}]
         /\ v11 \in [Clients -> Context!OfPosts(Context!Digests) \cup {None}]
         /\ v12 \in [Clients -> BOOLEAN]
         /\ v9 \in Context!Turns /\ v7 \in {Context!Own, Context!Other}
  <1>1. /\ v1 \in Seq([text : Context!PostTexts, live : BOOLEAN]) /\ v2 \in Context!Files
        /\ v9 \in Context!Turns /\ v7 \in {Context!Own, Context!Other} /\ v12 \in [Clients -> BOOLEAN]
    BY DEF Context!TypeOK
  <1>2. /\ v3 \in [Clients -> Context!Fingerprints \cup {None}]
        /\ v4 \in [Clients -> Context!Prefixes \cup {None}]
        /\ v11 \in [Clients -> Context!OfPosts(Context!Digests) \cup {None}]
    BY DEF Context!TypeOK
  <1>3. DOMAIN v1 = 1..Len(v1) /\ Len(v1) \in Nat /\ \A p \in DOMAIN v1 : v1[p].text \in Context!PostTexts
    <2> DEFINE Rows == [text : Context!PostTexts, live : BOOLEAN]
    <2>1. \A x \in Rows : x.text \in Context!PostTexts
      OBVIOUS
    <2>2. v1 \in Seq(Rows)
      BY <1>1
    <2> HIDE DEF Rows
    <2>3. DOMAIN v1 = 1..Len(v1) /\ Len(v1) \in Nat /\ \A p \in DOMAIN v1 : v1[p] \in Rows
      BY <2>2
    <2> QED
      BY <2>1, <2>3
  <1>4. v2.ts \in Nat /\ v2.text \in Nat
    <2>1. \A f \in Context!Files : f.ts \in Nat /\ f.text \in Nat
      BY DEF Context!Files
    <2> QED
      BY <1>1, <2>1
  <1> QED
    BY <1>1, <1>2, <1>3, <1>4

\* The parts of a turn.
LEMMA ContextTurn ==
  ASSUME NEW t \in Context!Turns
  PROVE  /\ t.pc \in Context!Places /\ t.s \in Clients \cup {None} /\ t.posts \in Context!OfPosts(Context!PostTexts)
         /\ t.file \in Context!Files \cup {None} /\ t.passed \in Context!Files \cup {None}
         /\ t.prev \in Context!Fingerprints \cup {None} /\ t.prefix \in Context!Prefixes \cup {None}
         /\ t.fp \in Context!Fingerprints \cup {None} /\ t.lost \in BOOLEAN /\ t.body \in Context!Bodies \cup {None}
         /\ t.cut \in Nat /\ t.patches \subseteq Nat \X (Context!PostTexts \cup {"deleted"})
  BY DEF Context!Turns

\* The parts of a fingerprint.
LEMMA ContextFp ==
  ASSUME NEW q \in Context!Fingerprints
  PROVE  /\ q.mode \in {"FULL", "DELTA_SAFE"} /\ q.pre_prompt \in {Context!Own, Context!Other} /\ q.index \in BOOLEAN
         /\ q.head_posts \subseteq Nat /\ q.last_post_id \in Nat /\ q.post_digest \in Context!OfPosts(Context!Digests)
         /\ q.file_rev_ts \in Nat \cup {None}
  BY DEF Context!Fingerprints

\* The parts of a kept text.
LEMMA ContextPrefix ==
  ASSUME NEW m \in Context!Prefixes
  PROVE  /\ m.index \in BOOLEAN /\ m.head_posts \subseteq Nat /\ m.last_post_id \in Nat
         /\ m.body \in Context!Bodies /\ m.body.posts \in Context!OfPosts(Context!PostTexts)
         /\ m.body.patches \subseteq Nat \X (Context!PostTexts \cup {"deleted"})
         /\ m.body.files \subseteq Context!Files
  BY DEF Context!Prefixes, Context!Bodies

\* No turn is a turn.
LEMMA ContextIdle == Context!Idle \in Context!Turns /\ Context!Idle.pc = "idle"
  <1>1. Context!Idle.posts \in Context!OfPosts(Context!PostTexts)
    <2>1. <<>> \in [{} -> Context!PostTexts]
      OBVIOUS
    <2> QED
      BY <2>1, ContextOfPosts DEF Context!Idle
  <1> QED
    BY <1>1 DEF Context!Idle, Context!Turns, Context!Places

\* What a digest tells of a text.
LEMMA ContextDigest ==
  \A x \in Context!PostTexts :
      /\ Context!post_digest(x) \in Context!Digests
      /\ x \in Context!Waiting <=> Context!post_digest(x) = "waiting"
      /\ x \notin Context!Waiting => Context!post_digest(x) = x /\ x # "waiting"
  BY DEF Context!PostTexts, Context!Digests, Context!Waiting, Context!post_digest

\* What a turn has collected.
LEMMA ContextCollected ==
  ASSUME Context!TypeOK, Context!CollectedOK, v9.pc # "idle"
  PROVE  /\ v9.s \in Clients /\ DOMAIN v9.posts \subseteq Nat /\ DOMAIN v9.posts \subseteq DOMAIN v1
         /\ v9.posts \in [DOMAIN v9.posts -> Context!PostTexts]
         /\ \A p \in DOMAIN v9.posts : v9.posts[p] = v1[p].text /\ v9.posts[p] \in Context!PostTexts
         /\ Context!filtered_posts(v9) \subseteq DOMAIN v9.posts /\ Context!Last(v9) \in Nat
         /\ \A p \in Context!filtered_posts(v9) : p <= Context!Last(v9)
         /\ Context!Last(v9) > 0 =>
               /\ Context!Last(v9) \in Context!filtered_posts(v9)
               /\ \A p \in DOMAIN v9.posts : p <= Context!Last(v9)
               /\ \A p \in DOMAIN v1 : p <= Context!Last(v9) \/ Context!Dead(p, v1)
         /\ v9.file # None => v9.file = v2 /\ v9.file \in Context!Files /\ v9.file.ts \in Nat
  <1> DEFINE F == Context!filtered_posts(v9)
  <1>1. /\ v9.s \in Clients /\ DOMAIN v9.posts \subseteq DOMAIN v1
        /\ \A p \in DOMAIN v9.posts : v9.posts[p] = v1[p].text
        /\ \A p \in DOMAIN v1 : (\A q \in DOMAIN v9.posts : q < p) => Context!Dead(p, v1)
        /\ v9.file # None => v9.file = v2
    BY DEF Context!CollectedOK
  <1>2. v9.posts \in Context!OfPosts(Context!PostTexts) /\ DOMAIN v1 = 1..Len(v1) /\ Len(v1) \in Nat
        /\ v2 \in Context!Files /\ v2.ts \in Nat /\ v9.cut \in Nat
    BY ContextTyped, ContextTurn
  <1>3. v9.posts \in [DOMAIN v9.posts -> Context!PostTexts]
    BY <1>2, ContextOfPosts
  <1>4. DOMAIN v9.posts \in SUBSET (1..Len(v1))
    BY <1>1, <1>2
  <1>5. F \subseteq DOMAIN v9.posts /\ F \in SUBSET (1..Len(v1)) /\ \A p \in DOMAIN v9.posts : p \in F <=> p > v9.cut
    BY <1>4 DEF Context!filtered_posts
  <1> HIDE DEF F
  <1>6. CASE F = {}
    <2>1. Context!Last(v9) = 0
      BY <1>6 DEF F, Context!Last, Context!PostMax
    <2> QED
      BY <1>1, <1>2, <1>3, <1>4, <1>5, <1>6, <2>1 DEF F
  <1>7. CASE F # {}
    <2>1. Context!Last(v9) \in F /\ \A p \in F : p <= Context!Last(v9)
      BY <1>2, <1>5, <1>7, ContextMax DEF F, Context!Last
    <2>2. Context!Last(v9) \in Nat /\ Context!Last(v9) > v9.cut /\ Context!Last(v9) \in DOMAIN v9.posts
      BY <1>2, <1>5, <2>1
    <2>3. ASSUME NEW p \in DOMAIN v9.posts PROVE p <= Context!Last(v9)
      BY <1>2, <1>4, <1>5, <2>1, <2>2, <2>3
    <2>4. ASSUME NEW p \in DOMAIN v1 PROVE p <= Context!Last(v9) \/ Context!Dead(p, v1)
      <3>1. CASE \A q \in DOMAIN v9.posts : q < p
        BY <1>1, <3>1
      <3>2. CASE \E q \in DOMAIN v9.posts : ~(q < p)
        <4>1. PICK q \in DOMAIN v9.posts : ~(q < p)
          BY <3>2
        <4>2. q \in Nat /\ p \in Nat /\ q <= Context!Last(v9)
          BY <1>2, <1>4, <2>3, <4>1
        <4> QED
          BY <2>2, <4>1, <4>2
      <3> QED
        BY <3>1, <3>2
    <2> QED
      BY <1>1, <1>2, <1>3, <1>4, <1>5, <2>1, <2>2, <2>3, <2>4 DEF F
  <1> QED
    BY <1>6, <1>7

\* The fingerprint of a turn fits the posts and the file.
LEMMA ContextFingerprint ==
  ASSUME Context!TypeOK, Context!CollectedOK, v9.pc # "idle",
         NEW whose \in {Context!Own, Context!Other}, NEW mode \in {"FULL", "DELTA_SAFE"}
  PROVE  LET q == Context!Fingerprint(v9, whose, mode) IN
         /\ q \in Context!Fingerprints /\ Context!FingerprintOK(q, v1, v2)
         /\ q.mode = mode /\ q.pre_prompt = whose /\ q.index = (v9.file # None)
         /\ q.head_posts = Context!filtered_posts(v9) /\ q.last_post_id = Context!Last(v9)
         /\ DOMAIN q.post_digest = DOMAIN v9.posts
         /\ \A p \in DOMAIN v9.posts : q.post_digest[p] = Context!post_digest(v9.posts[p])
         /\ v9.file # None => q.file_rev_ts = v9.file.ts
  <1> DEFINE q == Context!Fingerprint(v9, whose, mode)
             D == [p \in DOMAIN v9.posts |-> Context!post_digest(v9.posts[p])]
  <1>1. /\ DOMAIN v9.posts \subseteq Nat /\ DOMAIN v9.posts \subseteq DOMAIN v1
        /\ \A p \in DOMAIN v9.posts : v9.posts[p] = v1[p].text /\ v9.posts[p] \in Context!PostTexts
        /\ Context!Last(v9) \in Nat
        /\ Context!filtered_posts(v9) \subseteq DOMAIN v9.posts
        /\ \A p \in Context!filtered_posts(v9) : p <= Context!Last(v9)
        /\ v9.file # None => v9.file = v2 /\ v9.file.ts \in Nat
    BY ContextCollected
  <1>2. D \in [DOMAIN v9.posts -> Context!Digests] /\ \A p \in DOMAIN v9.posts : D[p] = Context!post_digest(v9.posts[p])
    BY <1>1, ContextDigest
  <1>3. D \in Context!OfPosts(Context!Digests)
    BY <1>1, <1>2, ContextOfPosts
  <1>4. /\ q.mode = mode /\ q.pre_prompt = whose /\ q.index = (v9.file # None)
        /\ q.head_posts = Context!filtered_posts(v9) /\ q.last_post_id = Context!Last(v9)
        /\ q.post_digest = D
        /\ q.file_rev_ts = IF v9.file = None THEN None ELSE v9.file.ts
    BY DEF Context!Fingerprint
  <1>5. q \in Context!Fingerprints
    <2>1. (IF v9.file = None THEN None ELSE v9.file.ts) \in Nat \cup {None}
      BY <1>1
    <2>2. (v9.passed # None) \in BOOLEAN /\ (v9.file # None) \in BOOLEAN
      OBVIOUS
    <2> HIDE DEF D
    <2> QED
      BY <1>1, <1>3, <2>1, <2>2 DEF Context!Fingerprint, Context!Fingerprints, D
  <1>6. Context!FingerprintOK(q, v1, v2)
    <2>1. \A p \in DOMAIN v9.posts : v1[p].text \in Context!Waiting => D[p] = "waiting"
      BY <1>1, <1>2, ContextDigest
    <2>2. q.index <=> q.file_rev_ts # None
      BY <1>1, <1>4, NumbersAssumption
    <2>3. q.index => q.file_rev_ts <= v2.ts
      <3> HIDE DEF q
      <3> SUFFICES ASSUME q.index PROVE q.file_rev_ts <= v2.ts
        OBVIOUS
      <3>1. v9.file # None /\ v9.file = v2 /\ v9.file.ts \in Nat
        BY <1>1, <1>4
      <3>2. q.file_rev_ts = v9.file.ts
        BY <1>4, <3>1
      <3> QED
        BY <3>1, <3>2
    <2>4. q.head_posts \subseteq DOMAIN q.post_digest /\ DOMAIN q.post_digest = DOMAIN v9.posts
      BY <1>1, <1>2, <1>4
    <2> HIDE DEF q, D
    <2> QED
      BY <1>1, <1>4, <2>1, <2>2, <2>3, <2>4 DEF Context!FingerprintOK
  <1> HIDE DEF q
  <1>7. DOMAIN q.post_digest = DOMAIN v9.posts
    BY <1>2, <1>4
  <1> QED
    BY <1>1, <1>2, <1>4, <1>5, <1>6, <1>7 DEF q

\* A turn after its filter, by its parts.
LEMMA ContextFiltered ==
  ASSUME Context!TypeOK, Context!CollectedOK, Context!PreviousOK, v9.pc \in {"filtered", "read", "decided", "committed"}
  PROVE  /\ v9.passed \in {v9.file, None}
         /\ v9.prev # None =>
               /\ v9.prev \in Context!Fingerprints /\ Context!FingerprintOK(v9.prev, v1, v2)
               /\ v9.prev.head_posts \subseteq DOMAIN v9.prev.post_digest
               /\ DOMAIN v9.prev.post_digest \subseteq DOMAIN v1
               /\ v9.prev.head_posts \subseteq Nat /\ v9.prev.last_post_id \in Nat
               /\ \A p \in v9.prev.head_posts : p <= v9.prev.last_post_id
               /\ \A p \in DOMAIN v9.prev.post_digest :
                     v1[p].text \in Context!Waiting => v9.prev.post_digest[p] = "waiting"
               /\ v9.prev.index <=> v9.prev.file_rev_ts # None
               /\ v9.prev.index => v9.prev.file_rev_ts \in Nat /\ v9.prev.file_rev_ts <= v2.ts
  <1>1. /\ v9.passed \in {v9.file, None}
        /\ v9.prev # None => Context!FingerprintOK(v9.prev, v1, v2)
    BY DEF Context!PreviousOK
  <1>2. v9 \in Context!Turns
    BY ContextTyped
  <1>3. v9.prev \in Context!Fingerprints \cup {None}
    BY <1>2, ContextTurn
  <1>4. ASSUME v9.prev # None
        PROVE  /\ v9.prev \in Context!Fingerprints
               /\ v9.prev.head_posts \subseteq Nat /\ v9.prev.last_post_id \in Nat
               /\ v9.prev.file_rev_ts \in Nat \cup {None}
    <2>1. v9.prev \in Context!Fingerprints
      BY <1>3, <1>4
    <2> QED
      BY <2>1, ContextFp
  <1>5. ASSUME v9.prev # None
        PROVE  /\ v9.prev.head_posts \subseteq DOMAIN v9.prev.post_digest
               /\ DOMAIN v9.prev.post_digest \subseteq DOMAIN v1
               /\ \A p \in v9.prev.head_posts : p <= v9.prev.last_post_id
               /\ \A p \in DOMAIN v9.prev.post_digest :
                     v1[p].text \in Context!Waiting => v9.prev.post_digest[p] = "waiting"
               /\ v9.prev.index <=> v9.prev.file_rev_ts # None
               /\ v9.prev.index => v9.prev.file_rev_ts <= v2.ts
    BY <1>1, <1>5 DEF Context!FingerprintOK
  <1> QED
    BY <1>1, <1>4, <1>5

\* What a context tells of posts twice agrees with what it shows, and is no wait.
LEMMA ContextPatches ==
  ASSUME Context!TypeOK, Context!CollectedOK, Context!PreviousOK, Context!DecidedOK,
         v9.pc \in {"decided", "committed"}, NEW e \in v9.patches
  PROVE  /\ e[1] \in Nat /\ e[1] \in DOMAIN v1 /\ e[2] \notin Context!Waiting
         /\ e[1] \in DOMAIN v9.posts => e[2] = v9.posts[e[1]]
  <1>1. /\ DOMAIN v9.posts \subseteq Nat /\ DOMAIN v9.posts \subseteq DOMAIN v1
        /\ \A p \in DOMAIN v9.posts : v9.posts[p] = v1[p].text /\ v9.posts[p] \in Context!PostTexts
    <2>1. v9.pc # "idle"
      OBVIOUS
    <2> QED
      BY <2>1, ContextCollected
  <1>2. e \in Context!post_patches(v9.prev, v9)
    BY DEF Context!DecidedOK
  <1>3. v9.prev # None
    BY <1>2 DEF Context!post_patches
  <1>4. /\ DOMAIN v9.prev.post_digest \subseteq DOMAIN v1
        /\ \A p \in DOMAIN v9.prev.post_digest :
              v1[p].text \in Context!Waiting => v9.prev.post_digest[p] = "waiting"
    BY <1>3, ContextFiltered
  <1>5. \/ \E p \in Context!Changed(v9.prev, v9) : e = <<p, v9.posts[p]>>
        \/ \E p \in Context!Gone(v9.prev, v9) : e = <<p, "deleted">>
    BY <1>2, <1>3 DEF Context!post_patches, Context!Deleted
  <1>6. DOMAIN v1 \subseteq Nat
    BY ContextTyped
  <1>7. CASE \E p \in Context!Changed(v9.prev, v9) : e = <<p, v9.posts[p]>>
    <2>1. PICK p \in Context!Changed(v9.prev, v9) : e = <<p, v9.posts[p]>>
      BY <1>7
    <2>2. /\ p \in DOMAIN v9.posts /\ p \in DOMAIN v9.prev.post_digest
          /\ Context!post_digest(v9.posts[p]) # v9.prev.post_digest[p]
      BY <2>1 DEF Context!Changed
    <2>3. v9.posts[p] \in Context!Waiting => v9.prev.post_digest[p] = "waiting"
      BY <1>1, <1>4, <2>2
    <2>4. v9.posts[p] \in Context!Waiting => Context!post_digest(v9.posts[p]) = "waiting"
      BY DEF Context!post_digest
    <2>5. e[1] = p /\ e[2] = v9.posts[p]
      BY <2>1
    <2> QED
      BY <1>1, <2>2, <2>3, <2>4, <2>5
  <1>8. CASE \E p \in Context!Gone(v9.prev, v9) : e = <<p, "deleted">>
    <2>1. PICK p \in Context!Gone(v9.prev, v9) : e = <<p, "deleted">>
      BY <1>8
    <2>2. p \in DOMAIN v9.prev.post_digest /\ p \notin DOMAIN v9.posts
      BY <2>1 DEF Context!Gone
    <2>3. e[1] = p /\ e[2] = "deleted"
      BY <2>1
    <2>4. "deleted" \notin Context!Waiting
      BY DEF Context!Waiting
    <2> QED
      BY <1>4, <1>6, <2>2, <2>3, <2>4
  <1> QED
    BY <1>5, <1>7, <1>8

\* A patch of the file is the file, and what is later than the fingerprint is patched.
LEMMA ContextFilePatches ==
  ASSUME Context!TypeOK, Context!CollectedOK, Context!PreviousOK, v9.pc \in {"filtered", "read", "decided", "committed"}
  PROVE  /\ Context!FilePatches(v9) \subseteq {v9.file} \cap Context!Files
         /\ v9.file = None => Context!FilePatches(v9) = {}
         /\ ({v9.passed} \ {None}) \subseteq {v9.file} \cap Context!Files
         /\ v9.file # None /\ v9.prev # None /\ v9.prev.index /\ ~v9.lost =>
               \/ v9.file.ts = v9.prev.file_rev_ts
               \/ v9.file \in Context!FilePatches(v9)
         /\ v9.file # None /\ v9.prev # None /\ v9.prev.index =>
               v9.prev.file_rev_ts \in Nat /\ v9.prev.file_rev_ts <= v9.file.ts
  <1>0. v9.pc # "idle"
    OBVIOUS
  <1>1. v9.file # None => v9.file = v2 /\ v9.file \in Context!Files /\ v9.file.ts \in Nat
    BY <1>0, ContextCollected
  <1>2. v9.passed \in {v9.file, None}
    BY ContextFiltered
  <1>3. v9.prev # None /\ v9.prev.index =>
           v9.prev.file_rev_ts \in Nat /\ v9.prev.file_rev_ts <= v2.ts
    BY ContextFiltered
  <1>4. Context!FilePatches(v9) \subseteq {v9.file} /\ (v9.file = None => Context!FilePatches(v9) = {})
    BY DEF Context!FilePatches, Context!file_patches
  <1>5. ASSUME v9.file # None, v9.prev # None, v9.prev.index
        PROVE  v9.prev.file_rev_ts \in Nat /\ v9.prev.file_rev_ts <= v9.file.ts
    BY <1>1, <1>3, <1>5
  <1>6. ASSUME v9.file # None, v9.prev # None, v9.prev.index, ~v9.lost
        PROVE  \/ v9.file.ts = v9.prev.file_rev_ts
               \/ v9.file \in Context!FilePatches(v9)
    <2>1. /\ v9.file.ts \in Nat /\ v9.prev.file_rev_ts \in Nat
          /\ v9.prev.file_rev_ts <= v9.file.ts
      BY <1>1, <1>5, <1>6
    <2>2. v9.prev.file_rev_ts # None
      BY <2>1, NumbersAssumption
    <2>3. v9.file.ts > v9.prev.file_rev_ts => v9.file \in Context!FilePatches(v9)
      BY <1>6, <2>2 DEF Context!FilePatches, Context!file_patches
    <2> QED
      BY <2>1, <2>3
  <1> QED
    BY <1>1, <1>2, <1>4, <1>5, <1>6

\* What is packed from all blocks shows the posts and the file as they were collected.
LEMMA ContextPacked ==
  ASSUME Context!TypeOK, Context!CollectedOK, Context!PreviousOK, Context!DecidedOK, v9.pc = "committed"
  PROVE  Context!Shows(v9, Context!Packed(v9), FALSE)
  <1> DEFINE b == Context!Packed(v9)
             F == (IF v9.passed = None THEN {} ELSE {v9.passed}) \cup Context!FilePatches(v9)
             N == [p \in Context!filtered_posts(v9) |-> v9.posts[p]]
  <1>0. v9.pc # "idle" /\ v9.pc \in {"decided", "committed"}
    OBVIOUS
  <1>1. b.posts = N /\ b.patches = v9.patches /\ b.files = F
    BY DEF Context!Packed
  <1>2. v9.patches \subseteq Nat \X (Context!PostTexts \cup {"deleted"})
    BY ContextTyped, ContextTurn
  <1>3. F \subseteq {v9.file} \cap Context!Files
    BY ContextFilePatches
  <1>4. /\ DOMAIN v9.posts \subseteq Nat /\ Context!filtered_posts(v9) \subseteq DOMAIN v9.posts
        /\ \A p \in DOMAIN v9.posts : v9.posts[p] \in Context!PostTexts
    BY <1>0, ContextCollected
  <1>5. N \in Context!OfPosts(Context!PostTexts)
    <2>1. N \in [Context!filtered_posts(v9) -> Context!PostTexts] /\ Context!filtered_posts(v9) \in SUBSET Nat
      BY <1>4
    <2> QED
      BY <2>1, ContextOfPosts
  <1>6. b \in Context!Bodies
    <2>1. F \in SUBSET Context!Files
      BY <1>3
    <2> HIDE DEF F, N
    <2> QED
      BY <1>1, <1>2, <1>5, <2>1 DEF Context!Packed, Context!Bodies, F, N
  <1>7. ASSUME v9.fp.mode = "DELTA_SAFE", NEW e \in v9.patches
        PROVE  e[1] <= Context!Last(v9) \/ Context!Dead(e[1], v1)
    <2>1. v9.prev # None /\ Context!Last(v9) > v9.prev.last_post_id
      BY <1>7 DEF Context!DecidedOK, Context!Extends
    <2>2. v9.prev.last_post_id \in Nat
      BY <2>1, ContextFiltered
    <2>3. Context!Last(v9) \in Nat
      BY <1>0, ContextCollected
    <2>4. Context!Last(v9) > 0
      BY <2>1, <2>2, <2>3
    <2>5. e[1] \in DOMAIN v1
      BY <1>0, <1>7, ContextPatches
    <2> QED
      BY <1>0, <2>4, <2>5, ContextCollected
  <1>8. v9.file # None => v9.file.ts \in Nat
    BY <1>0, ContextCollected
  <1>9. v9.file # None =>
          /\ \A c \in F : c.ts <= v9.file.ts
          /\ F # {} => \E c \in F : c.ts = v9.file.ts
    <2> HIDE DEF F
    <2> QED
      BY <1>3, <1>8
  <1>10. \A e \in v9.patches :
            /\ e[2] \notin Context!Waiting
            /\ e[1] \in Context!filtered_posts(v9) => e[2] = v9.posts[e[1]]
    BY <1>0, <1>4, ContextPatches
  <1> HIDE DEF b, F, N
  <1> QED
    BY <1>1, <1>6, <1>7, <1>9, <1>10 DEF Context!Shows, b, N

\* What the prefix in hand has in common with the turn that extends it.
LEMMA ContextReusable ==
  ASSUME Context!IInv, v9.pc = "committed", Context!can_reuse_mp(v9)
  PROVE  /\ v9.fp.mode = "DELTA_SAFE" /\ Context!Extends(v9, v9.prev)
         /\ v9.prefix \in Context!Prefixes /\ Context!PrefixOK(v9.prefix, v1)
         /\ Context!Past(v9.prefix, v9) /\ Context!SameTurn(v9.prefix, v9.prev, v12[v9.s])
         /\ v9.prefix.last_post_id = v9.prev.last_post_id
         /\ v9.prefix.head_posts = v9.prev.head_posts
         /\ v9.prefix.head_posts = Context!HeadOf(v9, v9.prev.last_post_id)
         /\ v9.prefix.index = (v9.file # None)
         /\ v9.fp.index = (v9.file # None) /\ v9.prev # None
  <1>1. /\ v9.fp.mode = "DELTA_SAFE" /\ v9.prefix # None
        /\ v9.prefix.index = v9.fp.index
    BY DEF Context!can_reuse_mp
  <1>2. Context!Extends(v9, v9.prev) /\ v9.fp = Context!Fingerprint(v9, v9.fp.pre_prompt, v9.fp.mode)
    BY <1>1 DEF Context!IInv, Context!DecidedOK
  <1>3. v9.prev # None /\ v9.prev.head_posts = Context!HeadOf(v9, v9.prev.last_post_id)
    BY <1>2 DEF Context!Extends
  <1>4. /\ v9.prefix.last_post_id = v9.prev.last_post_id
        /\ v9.prefix.head_posts = Context!HeadOf(v9, v9.prev.last_post_id)
    BY <1>3 DEF Context!can_reuse_mp
  <1>5. Context!PrefixOK(v9.prefix, v1) /\ Context!Past(v9.prefix, v9)
        /\ Context!Follows(v9.prefix, v9.prev, v12[v9.s])
    BY <1>1, <1>3 DEF Context!IInv, Context!PrefixInHandOK
  <1>6. Context!SameTurn(v9.prefix, v9.prev, v12[v9.s])
    BY <1>4, <1>5 DEF Context!Follows
  <1>7. v9.prefix \in Context!Prefixes
    <2>1. v9 \in Context!Turns
      BY ContextTyped DEF Context!IInv
    <2> QED
      BY <1>1, <2>1, ContextTurn
  <1>8. v9.fp.index = (v9.file # None)
    BY <1>2 DEF Context!Fingerprint
  <1> QED
    BY <1>1, <1>2, <1>3, <1>4, <1>5, <1>6, <1>7, <1>8

\* A text that was kept for the previous context and is used again shows the posts
\* as they are now.
LEMMA ContextReusedPosts ==
  ASSUME Context!IInv, v9.pc = "committed", Context!can_reuse_mp(v9)
  PROVE  Context!build_pd_body(v9).posts = [p \in Context!filtered_posts(v9) |-> v9.posts[p]]
  <1> DEFINE upto == v9.prev.last_post_id
             kept == Context!replace_post_blocks(v9.prefix.body.posts, v9)
             tail == {p \in Context!filtered_posts(v9) : p > upto}
             r == [p \in DOMAIN kept \cup tail |-> IF p \in tail THEN v9.posts[p] ELSE kept[p]]
  <1>1. Context!build_pd_body(v9).posts = r
    BY DEF Context!build_pd_body
  <1>2. /\ v9.prev # None /\ Context!PrefixOK(v9.prefix, v1)
        /\ v9.prefix.head_posts = Context!HeadOf(v9, upto)
    BY ContextReusable
  <1>3. DOMAIN v9.prefix.body.posts = Context!HeadOf(v9, upto)
    BY <1>2 DEF Context!PrefixOK
  <1>4. DOMAIN kept = Context!HeadOf(v9, upto) /\ \A p \in DOMAIN kept : kept[p] = v9.posts[p]
    BY <1>3 DEF Context!replace_post_blocks
  <1>5. Context!filtered_posts(v9) \subseteq Nat
    <2>1. v9.pc # "idle" /\ Context!TypeOK /\ Context!CollectedOK
      BY DEF Context!IInv
    <2> QED
      BY <2>1, ContextCollected
  <1>6. upto \in Nat
    <2>1. Context!TypeOK /\ Context!CollectedOK /\ Context!PreviousOK
      BY DEF Context!IInv
    <2> QED
      BY <1>2, <2>1, ContextFiltered
  <1>7. DOMAIN kept \cup tail = Context!filtered_posts(v9)
    BY <1>4, <1>5, <1>6 DEF Context!HeadOf
  <1>8. r = [p \in Context!filtered_posts(v9) |-> v9.posts[p]]
    <2> HIDE DEF kept, tail
    <2> QED
      BY <1>4, <1>7
  <1> QED
    BY <1>1, <1>5, <1>8

\* Its patches are about texts that have not changed since, or about posts that are gone.
LEMMA ContextReusedPatches ==
  ASSUME Context!IInv, v9.pc = "committed", Context!can_reuse_mp(v9), NEW e \in v9.prefix.body.patches
  PROVE  /\ e[2] \notin Context!Waiting
         /\ e[1] \in Context!filtered_posts(v9) => e[2] = v9.posts[e[1]]
         /\ e[1] <= Context!Last(v9) \/ Context!Dead(e[1], v1)
  <1> DEFINE m == v9.prefix
             upto == v9.prev.last_post_id
  <1>0. Context!TypeOK /\ Context!CollectedOK /\ Context!PreviousOK /\ v9.pc # "idle"
    BY DEF Context!IInv
  <1>1. /\ Context!Extends(v9, v9.prev) /\ m \in Context!Prefixes /\ Context!PrefixOK(m, v1)
        /\ Context!Past(m, v9)
        /\ Context!SameTurn(m, v9.prev, v12[v9.s]) /\ v9.prev # None
        /\ m.last_post_id = upto /\ m.head_posts = v9.prev.head_posts
        /\ m.head_posts = Context!HeadOf(v9, upto)
    BY ContextReusable
  <1>2. /\ m.body.posts \in Context!OfPosts(Context!PostTexts)
        /\ m.body.patches \subseteq Nat \X (Context!PostTexts \cup {"deleted"})
    BY <1>1, ContextPrefix
  <1>3. e[1] \in Nat /\ e[2] \in Context!PostTexts \cup {"deleted"}
    BY <1>2
  <1>4. /\ e[1] <= m.last_post_id \/ Context!Dead(e[1], v1)
        /\ e[2] \notin Context!Waiting
        /\ e[1] \in m.head_posts => e[2] = m.body.posts[e[1]]
        /\ m.head_posts = DOMAIN m.body.posts
    BY <1>1 DEF Context!PrefixOK
  <1>5. Context!Last(v9) > upto /\ \A p \in Context!Changed(v9.prev, v9) : p > upto
    BY <1>1 DEF Context!Extends
  <1>6. upto \in Nat /\ v9.prev.head_posts \subseteq DOMAIN v9.prev.post_digest
        /\ \A p \in v9.prev.head_posts : p <= upto
    BY <1>0, <1>1, ContextFiltered
  <1>7. /\ Context!Last(v9) \in Nat /\ Context!filtered_posts(v9) \subseteq DOMAIN v9.posts
        /\ \A p \in DOMAIN v9.posts : v9.posts[p] \in Context!PostTexts
    BY <1>0, ContextCollected
  <1>8. e[1] <= Context!Last(v9) \/ Context!Dead(e[1], v1)
    BY <1>1, <1>3, <1>4, <1>5, <1>6, <1>7
  <1>9. CASE e[1] \in m.head_posts
    <2>1. e[1] \in DOMAIN v9.posts /\ e[2] = m.body.posts[e[1]]
      BY <1>1, <1>4, <1>7, <1>9 DEF Context!HeadOf
    <2>2. m.body.posts[e[1]] \in Context!PostTexts
      BY <1>2, <1>4, <1>9, ContextOfPosts
    <2>3. v9.prev.post_digest[e[1]] = Context!post_digest(e[2])
      BY <1>1, <1>9, <2>1 DEF Context!SameTurn
    <2>4. Context!post_digest(e[2]) = e[2] /\ e[2] # "waiting"
      BY <1>4, <2>1, <2>2, ContextDigest
    <2>5. e[1] \notin Context!Changed(v9.prev, v9)
      BY <1>1, <1>3, <1>5, <1>6, <1>9
    <2>6. e[1] \in DOMAIN v9.prev.post_digest
      BY <1>1, <1>6, <1>9
    <2>7. Context!post_digest(v9.posts[e[1]]) = v9.prev.post_digest[e[1]]
      BY <2>1, <2>3, <2>4, <2>5, <2>6 DEF Context!Changed, Context!Answered
    <2>8. Context!post_digest(v9.posts[e[1]]) = e[2]
      BY <2>3, <2>4, <2>7
    <2>9. v9.posts[e[1]] = e[2]
      BY <1>7, <2>1, <2>4, <2>8, ContextDigest
    <2> QED
      BY <1>4, <1>8, <2>1, <2>9
  <1>10. CASE e[1] \notin m.head_posts
    <2>1. e[1] \in Context!filtered_posts(v9) => e[1] > upto
      BY <1>1, <1>3, <1>6, <1>10 DEF Context!HeadOf
    <2>2. e[1] > upto => e[1] \notin DOMAIN v9.posts
      BY <1>1 DEF Context!Past
    <2> QED
      BY <1>4, <1>7, <1>8, <2>1, <2>2
  <1> QED
    BY <1>9, <1>10

\* A kept text that is used again shows what would be packed, unless a patch was lost.
LEMMA ContextReused ==
  ASSUME Context!IInv, v9.pc = "committed", Context!can_reuse_mp(v9)
  PROVE  Context!Shows(v9, Context!build_pd_body(v9), v12[v9.s] \/ v9.lost)
  <1> DEFINE b == Context!build_pd_body(v9)
             m == v9.prefix
             d == v12[v9.s] \/ v9.lost
  <1>0. Context!TypeOK /\ Context!CollectedOK /\ Context!PreviousOK /\ Context!DecidedOK /\ v9.pc # "idle"
        /\ v9.pc \in {"decided", "committed"}
    BY DEF Context!IInv
  <1>1. /\ v9.fp.mode = "DELTA_SAFE" /\ Context!Extends(v9, v9.prev)
        /\ m \in Context!Prefixes /\ Context!SameTurn(m, v9.prev, v12[v9.s])
        /\ v9.prev # None /\ m.index = (v9.file # None)
    BY ContextReusable
  <1>2. b.posts = [p \in Context!filtered_posts(v9) |-> v9.posts[p]]
    BY ContextReusedPosts
  <1>3. b.patches = m.body.patches \cup v9.patches /\ b.files = m.body.files \cup Context!FilePatches(v9)
    BY DEF Context!build_pd_body
  <1>4. /\ m.body.patches \subseteq Nat \X (Context!PostTexts \cup {"deleted"})
        /\ m.body.files \subseteq Context!Files
    BY <1>1, ContextPrefix
  <1>5. /\ v9.patches \subseteq Nat \X (Context!PostTexts \cup {"deleted"})
        /\ Context!filtered_posts(v9) \subseteq DOMAIN v9.posts /\ DOMAIN v9.posts \subseteq Nat
        /\ \A p \in DOMAIN v9.posts : v9.posts[p] \in Context!PostTexts
    BY <1>0, ContextTyped, ContextTurn, ContextCollected
  <1>6. Context!Last(v9) > 0
    <2>1. Context!Last(v9) > v9.prev.last_post_id
      BY <1>1 DEF Context!Extends
    <2>2. v9.prev.last_post_id \in Nat
      BY <1>0, <1>1, ContextFiltered
    <2>3. Context!Last(v9) \in Nat
      BY <1>0, ContextCollected
    <2> QED
      BY <2>1, <2>2, <2>3
  <1>7. \A e \in b.patches :
          /\ e[2] \notin Context!Waiting
          /\ e[1] \in Context!filtered_posts(v9) => e[2] = v9.posts[e[1]]
          /\ e[1] <= Context!Last(v9) \/ Context!Dead(e[1], v1)
    <2> SUFFICES ASSUME NEW e \in b.patches
                 PROVE  /\ e[2] \notin Context!Waiting
                        /\ e[1] \in Context!filtered_posts(v9) => e[2] = v9.posts[e[1]]
                        /\ e[1] <= Context!Last(v9) \/ Context!Dead(e[1], v1)
      OBVIOUS
    <2>1. CASE e \in m.body.patches
      BY <2>1, ContextReusedPatches
    <2>2. CASE e \in v9.patches
      <3>1. /\ e[1] \in DOMAIN v1 /\ e[2] \notin Context!Waiting
            /\ e[1] \in DOMAIN v9.posts => e[2] = v9.posts[e[1]]
        BY <1>0, <2>2, ContextPatches
      <3>2. e[1] <= Context!Last(v9) \/ Context!Dead(e[1], v1)
        BY <1>0, <1>6, <3>1, ContextCollected
      <3> QED
        BY <1>5, <3>1, <3>2
    <2> QED
      BY <1>3, <2>1, <2>2
  <1>8. /\ Context!FilePatches(v9) \subseteq {v9.file} \cap Context!Files
        /\ v9.file # None /\ v9.prev.index /\ ~v9.lost =>
              \/ v9.file.ts = v9.prev.file_rev_ts
              \/ v9.file \in Context!FilePatches(v9)
        /\ v9.file # None /\ v9.prev.index =>
              v9.prev.file_rev_ts \in Nat /\ v9.prev.file_rev_ts <= v9.file.ts
    BY <1>0, <1>1, ContextFilePatches
  <1>9. b \in Context!Bodies
    <2>1. b.posts \in Context!OfPosts(Context!PostTexts)
      <3>1. b.posts \in [Context!filtered_posts(v9) -> Context!PostTexts]
            /\ Context!filtered_posts(v9) \in SUBSET Nat
        BY <1>2, <1>5
      <3> QED
        BY <3>1, ContextOfPosts
    <2>2. m.body.patches \cup v9.patches \in SUBSET (Nat \X (Context!PostTexts \cup {"deleted"}))
      BY <1>4, <1>5
    <2>3. m.body.files \cup Context!FilePatches(v9) \in SUBSET Context!Files
      BY <1>4, <1>8
    <2>4. b = [posts |-> b.posts, patches |-> b.patches, files |-> b.files]
      BY DEF Context!build_pd_body
    <2> HIDE DEF b, m
    <2>5. b.posts \in Context!OfPosts(Context!PostTexts) /\ b.patches \in SUBSET (Nat \X (Context!PostTexts \cup {"deleted"}))
          /\ b.files \in SUBSET Context!Files
      BY <1>2, <1>3, <2>1, <2>2, <2>3
    <2> QED
      BY <2>4, <2>5 DEF Context!Bodies
  <1>10. ASSUME v9.file # None
         PROVE  /\ \A c \in b.files : c.ts <= v9.file.ts
                /\ b.files # {} /\ ~d => \E c \in b.files : c.ts = v9.file.ts
    <2>1. v9.prev.index
      BY <1>1, <1>10 DEF Context!Extends
    <2>2. v9.file.ts \in Nat
      BY <1>0, <1>10, ContextCollected
    <2>3. /\ v9.prev.file_rev_ts \in Nat /\ v9.prev.file_rev_ts <= v9.file.ts
      BY <1>8, <1>10, <2>1
    <2>4. /\ \A c \in m.body.files : c.ts <= v9.prev.file_rev_ts
          /\ m.body.files # {} /\ ~v12[v9.s] =>
                \E c \in m.body.files : c.ts = v9.prev.file_rev_ts
      BY <1>1, <2>1 DEF Context!SameTurn
    <2>5. \A c \in m.body.files : c.ts \in Nat
      BY <1>4 DEF Context!Files
    <2>6. \A c \in b.files : c.ts <= v9.file.ts
      <3> SUFFICES ASSUME NEW c \in b.files PROVE c.ts <= v9.file.ts
        OBVIOUS
      <3>1. CASE c \in m.body.files
        BY <2>2, <2>3, <2>4, <2>5, <3>1
      <3>2. CASE c \in Context!FilePatches(v9)
        BY <1>8, <2>2, <3>2
      <3> QED
        BY <1>3, <3>1, <3>2
    <2>7. ASSUME b.files # {}, ~d PROVE \E c \in b.files : c.ts = v9.file.ts
      <3>1. CASE v9.file \in Context!FilePatches(v9)
        BY <1>3, <3>1
      <3>2. CASE v9.file \notin Context!FilePatches(v9)
        <4>1. v9.file.ts = v9.prev.file_rev_ts
          BY <1>8, <1>10, <2>1, <2>7, <3>2
        <4>2. m.body.files # {}
          BY <1>3, <1>8, <2>7, <3>2
        <4> QED
          BY <1>3, <2>4, <2>7, <4>1, <4>2
      <3> QED
        BY <3>1, <3>2
    <2> QED
      BY <2>6, <2>7
  <1> HIDE DEF b, d
  <1> QED
    BY <1>2, <1>7, <1>9, <1>10 DEF Context!Shows, b, d

\* A text that is shown has the file's time as its newest copy's.
LEMMA ContextShown ==
  ASSUME Context!TypeOK, Context!CollectedOK, v9.pc = "committed", NEW b, NEW d \in BOOLEAN, Context!Shows(v9, b, d)
  PROVE  /\ DOMAIN b.posts = {p \in DOMAIN v9.posts : p > v9.cut}
         /\ \A p \in DOMAIN b.posts : b.posts[p] = v9.posts[p]
         /\ \A e \in b.patches : e[1] \in DOMAIN b.posts => e[2] = v9.posts[e[1]]
         /\ v9.file # None /\ b.files # {} /\ ~d =>
               Context!PostMax({c.ts : c \in b.files}) = v9.file.ts
  <1>1. /\ DOMAIN b.posts = {p \in DOMAIN v9.posts : p > v9.cut} /\ b \in Context!Bodies
        /\ \A p \in DOMAIN b.posts : b.posts[p] = v9.posts[p]
        /\ \A e \in b.patches : e[1] \in DOMAIN b.posts => e[2] = v9.posts[e[1]]
    <2>1. /\ b.posts = [p \in Context!filtered_posts(v9) |-> v9.posts[p]] /\ b \in Context!Bodies
          /\ \A e \in b.patches : e[1] \in Context!filtered_posts(v9) => e[2] = v9.posts[e[1]]
      BY DEF Context!Shows
    <2>2. Context!filtered_posts(v9) = {p \in DOMAIN v9.posts : p > v9.cut}
      BY DEF Context!filtered_posts
    <2> QED
      BY <2>1, <2>2
  <1>2. ASSUME v9.file # None, b.files # {}, ~d
        PROVE  Context!PostMax({c.ts : c \in b.files}) = v9.file.ts
    <2> DEFINE S == {c.ts : c \in b.files}
    <2>1. /\ \A c \in b.files : c.ts <= v9.file.ts
          /\ \E c \in b.files : c.ts = v9.file.ts
      BY <1>2 DEF Context!Shows
    <2>2. b.files \subseteq Context!Files
      BY <1>1 DEF Context!Bodies
    <2>3. S \subseteq Nat /\ v9.file.ts \in S /\ \A n \in S : n <= v9.file.ts
      BY <2>1, <2>2 DEF Context!Files
    <2> HIDE DEF S
    <2>4. Context!PostMax(S) = v9.file.ts
      BY <2>3, ContextMax
    <2> QED
      BY <2>4 DEF S
  <1> QED
    BY <1>1, <1>2

\* A text that is kept follows the fingerprint of its own turn.
LEMMA ContextKept ==
  ASSUME Context!TypeOK, Context!CollectedOK, v9.pc = "committed", NEW b, NEW d \in BOOLEAN, Context!Shows(v9, b, d),
         NEW whose \in {Context!Own, Context!Other}, v9.fp = Context!Fingerprint(v9, whose, "DELTA_SAFE")
  PROVE  LET m == [pre_prompt |-> v9.fp.pre_prompt, index |-> v9.fp.index,
                   head_posts |-> v9.fp.head_posts,
                   last_post_id |-> v9.fp.last_post_id, body |-> b]
         IN  /\ m \in Context!Prefixes /\ Context!PrefixOK(m, v1) /\ Context!Follows(m, v9.fp, d)
  <1> DEFINE m == [pre_prompt |-> v9.fp.pre_prompt, index |-> v9.fp.index,
                   head_posts |-> v9.fp.head_posts,
                   last_post_id |-> v9.fp.last_post_id, body |-> b]
  <1>0. v9.pc # "idle"
    OBVIOUS
  <1>1. /\ v9.fp \in Context!Fingerprints
        /\ v9.fp.mode = "DELTA_SAFE" /\ v9.fp.pre_prompt = whose
        /\ v9.fp.index = (v9.file # None)
        /\ v9.fp.head_posts = Context!filtered_posts(v9) /\ v9.fp.last_post_id = Context!Last(v9)
        /\ DOMAIN v9.fp.post_digest = DOMAIN v9.posts
        /\ \A p \in DOMAIN v9.posts : v9.fp.post_digest[p] = Context!post_digest(v9.posts[p])
        /\ v9.file # None => v9.fp.file_rev_ts = v9.file.ts
    BY <1>0, ContextFingerprint
  <1>2. /\ b \in Context!Bodies /\ b.posts = [p \in Context!filtered_posts(v9) |-> v9.posts[p]]
        /\ \A e \in b.patches :
              /\ e[2] \notin Context!Waiting
              /\ e[1] \in Context!filtered_posts(v9) => e[2] = v9.posts[e[1]]
              /\ e[1] <= Context!Last(v9) \/ Context!Dead(e[1], v1)
        /\ v9.file # None =>
              /\ \A c \in b.files : c.ts <= v9.file.ts
              /\ b.files # {} /\ ~d => \E c \in b.files : c.ts = v9.file.ts
    BY <1>1 DEF Context!Shows
  <1>3. DOMAIN v9.posts \subseteq Nat /\ Context!Last(v9) \in Nat
        /\ Context!filtered_posts(v9) \subseteq DOMAIN v9.posts
        /\ \A p \in Context!filtered_posts(v9) : p <= Context!Last(v9)
    BY <1>0, ContextCollected
  <1>4. m \in Context!Prefixes
    BY <1>1, <1>2, <1>3 DEF Context!Prefixes
  <1>5. /\ m.index = v9.fp.index /\ m.head_posts = Context!filtered_posts(v9)
        /\ m.last_post_id = Context!Last(v9) /\ m.body = b
    BY <1>1
  <1> HIDE DEF m
  <1>6. Context!PrefixOK(m, v1)
    BY <1>2, <1>3, <1>5 DEF Context!PrefixOK
  <1>7. Context!SameTurn(m, v9.fp, d)
    BY <1>1, <1>2, <1>3, <1>5 DEF Context!SameTurn
  <1>8. Context!Follows(m, v9.fp, d)
    BY <1>1, <1>3, <1>5, <1>7 DEF Context!Follows
  <1> QED
    BY <1>4, <1>6, <1>8 DEF m

\* A fingerprint goes on fitting when posts are added, waits are answered and the
\* file grows later.
LEMMA ContextAhead ==
  ASSUME NEW q \in Context!Fingerprints, NEW ps, NEW f, NEW pt, NEW g, Context!FingerprintOK(q, ps, f),
         DOMAIN ps \subseteq DOMAIN pt,
         \A p \in DOMAIN ps : pt[p].text \in Context!Waiting => ps[p].text \in Context!Waiting,
         f.ts \in Nat, g.ts \in Nat, f.ts <= g.ts
  PROVE  Context!FingerprintOK(q, pt, g)
  <1>1. q.file_rev_ts \in Nat \cup {None}
    BY ContextFp
  <1>2. q.index => q.file_rev_ts \in Nat /\ q.file_rev_ts <= f.ts
    BY <1>1 DEF Context!FingerprintOK
  <1>3. q.index => q.file_rev_ts <= g.ts
    BY <1>2
  <1>4. /\ q.head_posts \subseteq DOMAIN q.post_digest /\ DOMAIN q.post_digest \subseteq DOMAIN ps
        /\ \A p \in q.head_posts : p <= q.last_post_id
        /\ \A p \in DOMAIN q.post_digest : ps[p].text \in Context!Waiting => q.post_digest[p] = "waiting"
        /\ q.index <=> q.file_rev_ts # None
    BY DEF Context!FingerprintOK
  <1> QED
    BY <1>3, <1>4 DEF Context!FingerprintOK

\* A kept text stays right as long as the dead stay dead.
LEMMA ContextPrefixStays ==
  ASSUME NEW m, NEW ps, NEW pt, Context!PrefixOK(m, ps),
         \A p : Context!Dead(p, ps) => Context!Dead(p, pt)
  PROVE  Context!PrefixOK(m, pt)
  BY DEF Context!PrefixOK

\* At first nothing is kept and no turn goes on.
LEMMA ContextInit == Context!Init => Context!IInv
  <1> SUFFICES ASSUME Context!Init PROVE Context!IInv
    OBVIOUS
  <1>1. v9 = Context!Idle /\ v9 \in Context!Turns /\ v9.pc = "idle"
    BY ContextIdle DEF Context!Init
  <1>2. /\ \A s \in Clients : v3[s] = None /\ v4[s] = None /\ v11[s] = None
        /\ v3 \in [Clients -> Context!Fingerprints \cup {None}]
        /\ v4 \in [Clients -> Context!Prefixes \cup {None}]
        /\ v11 \in [Clients -> Context!OfPosts(Context!Digests) \cup {None}]
        /\ v12 \in [Clients -> BOOLEAN]
    BY DEF Context!Init
  <1>3. v1 \in Seq([text : Context!PostTexts, live : BOOLEAN]) /\ v2 \in Context!Files /\ v7 \in {Context!Own, Context!Other}
    BY DEF Context!Init, Context!PostTexts, Context!Files
  <1>4. Context!TypeOK
    BY <1>1, <1>2, <1>3 DEF Context!TypeOK
  <1>5. Context!LayersOK
    <2> SUFFICES ASSUME NEW s \in Clients
                 PROVE  /\ v3[s] # None => Context!FingerprintOK(v3[s], v1, v2) /\ v11[s] = Context!Counted(v3[s])
                        /\ v4[s] # None => Context!PrefixOK(v4[s], v1)
                        /\ v3[s] # None /\ v4[s] # None => Context!Follows(v4[s], v3[s], v12[s])
      BY DEF Context!LayersOK
    <2> QED
      BY <1>2
  <1>6. Context!CollectedOK /\ Context!PreviousOK /\ Context!PrefixInHandOK /\ Context!DecidedOK /\ Context!ShownIsCollected /\ Context!FileIsCollected
    BY <1>1 DEF Context!CollectedOK, Context!PreviousOK, Context!PrefixInHandOK, Context!DecidedOK, Context!ShownIsCollected, Context!FileIsCollected
  <1> QED
    BY <1>4, <1>5, <1>6 DEF Context!IInv

\* Steps that leave the texts, the layers and the turn alone.
LEMMA ContextSameTexts ==
  ASSUME Context!IInv, Context!TypeOK', DOMAIN v1' = DOMAIN v1,
         \A p \in DOMAIN v1 : v1'[p].text = v1[p].text,
         \A p : Context!Dead(p, v1) => Context!Dead(p, v1'),
         UNCHANGED <<v2, v3, v4, v11, v12, v9>>
  PROVE  Context!IInv'
  <1>1. Context!TypeOK
    BY DEF Context!IInv
  <1>2. v2.ts \in Nat
    BY <1>1, ContextTyped
  <1>3. ASSUME NEW q \in Context!Fingerprints, Context!FingerprintOK(q, v1, v2)
        PROVE  Context!FingerprintOK(q, v1', v2)
    <2>1. DOMAIN v1 \subseteq DOMAIN v1'
      OBVIOUS
    <2>2. \A p \in DOMAIN v1 : v1'[p].text \in Context!Waiting => v1[p].text \in Context!Waiting
      OBVIOUS
    <2>3. v2.ts <= v2.ts
      BY <1>2
    <2> QED
      BY <1>2, <1>3, <2>1, <2>2, <2>3, ContextAhead
  <1>4. Context!LayersOK'
    <2> SUFFICES ASSUME NEW s \in Clients
                 PROVE  (/\ v3[s] # None => Context!FingerprintOK(v3[s], v1, v2) /\ v11[s] = Context!Counted(v3[s])
                         /\ v4[s] # None => Context!PrefixOK(v4[s], v1)
                         /\ v3[s] # None /\ v4[s] # None => Context!Follows(v4[s], v3[s], v12[s]))'
      BY DEF Context!LayersOK
    <2>1. /\ v3[s] # None => Context!FingerprintOK(v3[s], v1, v2) /\ v11[s] = Context!Counted(v3[s])
          /\ v4[s] # None => Context!PrefixOK(v4[s], v1)
          /\ v3[s] # None /\ v4[s] # None => Context!Follows(v4[s], v3[s], v12[s])
      BY DEF Context!IInv, Context!LayersOK
    <2>2. v3[s] # None => v3[s] \in Context!Fingerprints
      BY <1>1, ContextTyped
    <2>3. v3[s] # None => Context!FingerprintOK(v3[s], v1', v2)
      BY <1>3, <2>1, <2>2
    <2>4. v4[s] # None => Context!PrefixOK(v4[s], v1')
      BY <2>1, ContextPrefixStays
    <2> QED
      BY <2>1, <2>3, <2>4
  <1>5. Context!CollectedOK'
    BY DEF Context!IInv, Context!CollectedOK
  <1>6. Context!PreviousOK'
    <2>1. v9.prev # None => v9.prev \in Context!Fingerprints
      BY <1>1, ContextTyped, ContextTurn
    <2>2. Context!PreviousOK
      BY DEF Context!IInv
    <2>3. v9.pc \in {"filtered", "read", "decided", "committed"} /\ v9.prev # None =>
             Context!FingerprintOK(v9.prev, v1', v2)
      BY <1>3, <2>1, <2>2 DEF Context!PreviousOK
    <2> QED
      BY <2>2, <2>3 DEF Context!PreviousOK
  <1>7. Context!PrefixInHandOK'
    <2>1. Context!PrefixInHandOK
      BY DEF Context!IInv
    <2>2. Context!PrefixOK(v9.prefix, v1) => Context!PrefixOK(v9.prefix, v1')
      BY ContextPrefixStays
    <2> QED
      BY <2>1, <2>2 DEF Context!PrefixInHandOK
  <1>r. Context!DecidedOK'
    BY DEF Context!IInv, Context!DecidedOK
  <1>8. Context!ShownIsCollected' /\ Context!FileIsCollected'
    BY DEF Context!IInv, Context!ShownIsCollected, Context!FileIsCollected
  <1> QED
    BY <1>4, <1>5, <1>6, <1>7, <1>8, <1>r DEF Context!IInv

\* Steps of the database while no turn goes on.
LEMMA ContextGoesOn ==
  ASSUME Context!IInv, Context!TypeOK', v9.pc = "idle", DOMAIN v1 \subseteq DOMAIN v1',
         \A p \in DOMAIN v1 : v1'[p].text \in Context!Waiting => v1[p].text \in Context!Waiting,
         \A p : Context!Dead(p, v1) => Context!Dead(p, v1'), v2.ts <= v2'.ts, UNCHANGED <<v3, v4, v11, v12, v9>>
  PROVE  Context!IInv'
  <1>1. Context!TypeOK /\ v2.ts \in Nat /\ v2'.ts \in Nat
    <2>1. Context!TypeOK
      BY DEF Context!IInv
    <2>2. v2.ts \in Nat
      BY <2>1, ContextTyped
    <2>3. \A f \in Context!Files : f.ts \in Nat
      BY DEF Context!Files
    <2>4. v2' \in Context!Files
      BY DEF Context!TypeOK
    <2> QED
      BY <2>1, <2>2, <2>3, <2>4
  <1>2. Context!LayersOK'
    <2> SUFFICES ASSUME NEW s \in Clients
                 PROVE  (/\ v3[s] # None => Context!FingerprintOK(v3[s], v1, v2) /\ v11[s] = Context!Counted(v3[s])
                         /\ v4[s] # None => Context!PrefixOK(v4[s], v1)
                         /\ v3[s] # None /\ v4[s] # None => Context!Follows(v4[s], v3[s], v12[s]))'
      BY DEF Context!LayersOK
    <2>1. /\ v3[s] # None => Context!FingerprintOK(v3[s], v1, v2) /\ v11[s] = Context!Counted(v3[s])
          /\ v4[s] # None => Context!PrefixOK(v4[s], v1)
          /\ v3[s] # None /\ v4[s] # None => Context!Follows(v4[s], v3[s], v12[s])
      BY DEF Context!IInv, Context!LayersOK
    <2>2. v3[s] # None => v3[s] \in Context!Fingerprints
      BY <1>1, ContextTyped
    <2>3. v3[s] # None => Context!FingerprintOK(v3[s], v1', v2')
      BY <1>1, <2>1, <2>2, ContextAhead
    <2>4. v4[s] # None => Context!PrefixOK(v4[s], v1')
      BY <2>1, ContextPrefixStays
    <2> QED
      BY <2>1, <2>3, <2>4
  <1>3. v9'.pc = "idle"
    OBVIOUS
  <1>4. /\ Context!CollectedOK' /\ Context!PreviousOK' /\ Context!PrefixInHandOK' /\ Context!DecidedOK'
        /\ Context!ShownIsCollected' /\ Context!FileIsCollected'
    BY <1>3 DEF Context!CollectedOK, Context!PreviousOK, Context!PrefixInHandOK, Context!DecidedOK, Context!ShownIsCollected, Context!FileIsCollected
  <1> QED
    BY <1>2, <1>4 DEF Context!IInv

\* A turn at rest or at its beginning has nothing but its collection to keep.
LEMMA ContextBegins ==
  ASSUME Context!IInv, Context!TypeOK', UNCHANGED <<v1, v2, v3, v4, v11, v12>>,
         v9'.pc \in {"idle", "collected", "building"}, Context!CollectedOK',
         v9'.pc # "idle" /\ v4[v9'.s] # None => Context!Past(v4[v9'.s], v9')
  PROVE  Context!IInv'
  <1>1. Context!LayersOK'
    <2> SUFFICES ASSUME NEW s \in Clients
                 PROVE  (/\ v3[s] # None => Context!FingerprintOK(v3[s], v1, v2) /\ v11[s] = Context!Counted(v3[s])
                         /\ v4[s] # None => Context!PrefixOK(v4[s], v1)
                         /\ v3[s] # None /\ v4[s] # None => Context!Follows(v4[s], v3[s], v12[s]))'
      BY DEF Context!LayersOK
    <2>1. /\ v3[s] # None => Context!FingerprintOK(v3[s], v1, v2) /\ v11[s] = Context!Counted(v3[s])
          /\ v4[s] # None => Context!PrefixOK(v4[s], v1)
          /\ v3[s] # None /\ v4[s] # None => Context!Follows(v4[s], v3[s], v12[s])
      BY DEF Context!IInv, Context!LayersOK
    <2> QED
      BY <2>1
  <1>2. Context!PreviousOK' /\ Context!PrefixInHandOK' /\ Context!DecidedOK' /\ Context!ShownIsCollected' /\ Context!FileIsCollected'
    BY DEF Context!PreviousOK, Context!PrefixInHandOK, Context!DecidedOK, Context!ShownIsCollected, Context!FileIsCollected
  <1> QED
    BY <1>1, <1>2 DEF Context!IInv

\* Posts and the file.
LEMMA ContextPostsKeep ==
  ASSUME Context!IInv,
         \/ \E t \in {"wait1", "said"} : Context!AddPost(t)
         \/ \E p \in DOMAIN v1 : \E t \in Context!NextTexts(v1[p].text) : Context!EditPost(p, t)
         \/ Context!EditFile
         \/ \E p \in DOMAIN v1 : Context!DeletePost(p)
  PROVE  Context!IInv'
  <1> DEFINE Rows == [text : Context!PostTexts, live : BOOLEAN]
  <1>0. Context!TypeOK
    BY DEF Context!IInv
  <1>1. /\ v1 \in Seq(Rows) /\ DOMAIN v1 = 1..Len(v1) /\ Len(v1) \in Nat
        /\ v2 \in Context!Files /\ v2.ts \in Nat /\ v2.text \in Nat
    BY <1>0, ContextTyped
  <1>2. \A p \in DOMAIN v1 : v1[p] \in Rows
    <2> HIDE DEF Rows
    <2> QED
      BY <1>1
  <1>3. \A r \in Rows : \A t \in Context!PostTexts :
          /\ [r EXCEPT !.text = t] \in Rows /\ [r EXCEPT !.text = t].text = t
          /\ [r EXCEPT !.live = FALSE] \in Rows /\ [r EXCEPT !.live = FALSE].text = r.text
          /\ [text |-> t, live |-> TRUE] \in Rows
    OBVIOUS
  <1>4. ASSUME v1' \in Seq(Rows), v2' \in Context!Files, UNCHANGED <<v3, v4, v11, v12, v9, v7>>
        PROVE  Context!TypeOK'
    BY <1>0, <1>4 DEF Context!TypeOK
  <1>5. ASSUME NEW t \in {"wait1", "said"}, Context!AddPost(t) PROVE Context!IInv'
    <2>1. t \in Context!PostTexts
      BY DEF Context!PostTexts
    <2>2. v1' = Append(v1, [text |-> t, live |-> TRUE]) /\ v9 = Context!Idle
          /\ UNCHANGED <<v2, v3, v4, v11, v12, v9, v7>>
      BY <1>5 DEF Context!AddPost, Context!cache, Context!shared, Context!history
    <2>3. v1' \in Seq(Rows) /\ DOMAIN v1 \subseteq DOMAIN v1'
          /\ \A p \in DOMAIN v1 : v1'[p] = v1[p]
      <3>1. [text |-> t, live |-> TRUE] \in Rows
        BY <2>1
      <3> HIDE DEF Rows
      <3> QED
        BY <1>1, <2>2, <3>1
    <2>4. Context!TypeOK'
      BY <1>1, <1>4, <2>2, <2>3
    <2>5. v9.pc = "idle"
      BY <2>2, ContextIdle
    <2>6. \A p \in DOMAIN v1 : v1'[p].text \in Context!Waiting => v1[p].text \in Context!Waiting
      BY <2>3
    <2>7. v2.ts <= v2'.ts
      BY <1>1, <2>2
    <2>8. UNCHANGED <<v3, v4, v11, v12, v9>>
      BY <2>2
    <2>9. \A p : Context!Dead(p, v1) => Context!Dead(p, v1')
      BY <2>3 DEF Context!Dead
    <2> QED
      BY <2>3, <2>4, <2>5, <2>6, <2>7, <2>8, <2>9, ContextGoesOn
  <1>6. ASSUME NEW p \in DOMAIN v1, NEW t \in Context!NextTexts(v1[p].text), Context!EditPost(p, t) PROVE Context!IInv'
    <2>1. t \in Context!PostTexts /\ (t \in Context!Waiting => v1[p].text \in Context!Waiting)
      BY <1>6 DEF Context!PostTexts, Context!NextTexts, Context!Waiting
    <2>2. v1' = [v1 EXCEPT ![p] = [v1[p] EXCEPT !.text = t]] /\ v9 = Context!Idle
          /\ UNCHANGED <<v2, v3, v4, v11, v12, v9, v7>>
      BY <1>6 DEF Context!EditPost, Context!cache, Context!shared, Context!history
    <2>3. v1[p] \in Rows
      BY <1>2
    <2>4. /\ [v1[p] EXCEPT !.text = t] \in Rows /\ [v1[p] EXCEPT !.text = t].text = t
      BY <1>3, <2>1, <2>3
    <2>5. v1' \in Seq(Rows) /\ DOMAIN v1' = DOMAIN v1
          /\ \A i \in DOMAIN v1 :
                v1'[i] = IF i = p THEN [v1[p] EXCEPT !.text = t] ELSE v1[i]
      <3> HIDE DEF Rows
      <3> QED
        BY <1>1, <2>2, <2>4
    <2>6. Context!TypeOK'
      BY <1>1, <1>4, <2>2, <2>5
    <2>7. v9.pc = "idle"
      BY <2>2, ContextIdle
    <2>8. \A i \in DOMAIN v1 : v1'[i].text \in Context!Waiting => v1[i].text \in Context!Waiting
      BY <2>1, <2>4, <2>5
    <2>9. v2.ts <= v2'.ts
      BY <1>1, <2>2
    <2>10. UNCHANGED <<v3, v4, v11, v12, v9>>
      BY <2>2
    <2>11. \A i : Context!Dead(i, v1) => Context!Dead(i, v1')
      <3>1. [v1[p] EXCEPT !.text = t].live = v1[p].live
        BY <2>3
      <3> QED
        BY <2>5, <3>1 DEF Context!Dead
    <2> QED
      BY <2>5, <2>6, <2>7, <2>8, <2>9, <2>10, <2>11, ContextGoesOn
  <1>7. ASSUME Context!EditFile PROVE Context!IInv'
    <2>1. PICK later \in {0, 1} : v2' = [text |-> v2.text + 1, ts |-> v2.ts + later]
      BY <1>7 DEF Context!EditFile
    <2>2. v9 = Context!Idle /\ UNCHANGED <<v1, v3, v4, v11, v12, v9, v7>>
      BY <1>7 DEF Context!EditFile, Context!cache, Context!shared, Context!history
    <2>3. v2' \in Context!Files /\ v2.ts <= v2'.ts
      BY <1>1, <2>1 DEF Context!Files
    <2>4. Context!TypeOK'
      BY <1>1, <1>4, <2>2, <2>3
    <2>5. v9.pc = "idle"
      BY <2>2, ContextIdle
    <2>6. DOMAIN v1 \subseteq DOMAIN v1'
          /\ \A p \in DOMAIN v1 : v1'[p].text \in Context!Waiting => v1[p].text \in Context!Waiting
      BY <2>2
    <2>7. UNCHANGED <<v3, v4, v11, v12, v9>>
      BY <2>2
    <2>8. \A p : Context!Dead(p, v1) => Context!Dead(p, v1')
      BY <2>2
    <2> QED
      BY <2>3, <2>4, <2>5, <2>6, <2>7, <2>8, ContextGoesOn
  <1>8. ASSUME NEW p \in DOMAIN v1, Context!DeletePost(p) PROVE Context!IInv'
    <2>1. v1' = [v1 EXCEPT ![p] = [v1[p] EXCEPT !.live = FALSE]]
          /\ UNCHANGED <<v2, v3, v4, v11, v12, v9, v7>>
      BY <1>8 DEF Context!DeletePost, Context!cache, Context!shared, Context!history
    <2>2. v1[p] \in Rows
      BY <1>2
    <2>3. /\ [v1[p] EXCEPT !.live = FALSE] \in Rows
          /\ [v1[p] EXCEPT !.live = FALSE].text = v1[p].text
      <3>1. "said" \in Context!PostTexts
        BY DEF Context!PostTexts
      <3> QED
        BY <1>3, <2>2, <3>1
    <2>4. v1' \in Seq(Rows) /\ DOMAIN v1' = DOMAIN v1
          /\ \A i \in DOMAIN v1 :
                v1'[i] = IF i = p THEN [v1[p] EXCEPT !.live = FALSE] ELSE v1[i]
      <3> HIDE DEF Rows
      <3> QED
        BY <1>1, <2>1, <2>3
    <2>5. Context!TypeOK'
      BY <1>1, <1>4, <2>1, <2>4
    <2>6. \A i \in DOMAIN v1 : v1'[i].text = v1[i].text
      BY <2>3, <2>4
    <2>7. UNCHANGED <<v2, v3, v4, v11, v12, v9>>
      BY <2>1
    <2>8. \A i : Context!Dead(i, v1) => Context!Dead(i, v1')
      <3>1. [v1[p] EXCEPT !.live = FALSE].live = FALSE
        BY <2>2
      <3> QED
        BY <2>4, <3>1 DEF Context!Dead
    <2> QED
      BY <2>4, <2>5, <2>6, <2>7, <2>8, ContextSameTexts
  <1> QED
    BY <1>5, <1>6, <1>7, <1>8

\* A deletion drops both layers, whatever a turn has in hand.
LEMMA ContextEvicts == ASSUME Context!IInv, Context!evict_scope PROVE Context!IInv'
  <1>0. Context!TypeOK
    BY DEF Context!IInv
  <1>1. /\ \A s \in Clients : v3'[s] = None /\ v4'[s] = None
        /\ v3' \in [Clients -> Context!Fingerprints \cup {None}]
        /\ v4' \in [Clients -> Context!Prefixes \cup {None}]
        /\ UNCHANGED <<v1, v2, v11, v12, v9, v7>>
    BY DEF Context!evict_scope, Context!shared, Context!history
  <1>2. Context!TypeOK'
    BY <1>0, <1>1 DEF Context!TypeOK
  <1>3. Context!LayersOK'
    BY <1>1 DEF Context!LayersOK
  <1>4. Context!CollectedOK'
    BY <1>1 DEF Context!IInv, Context!CollectedOK
  <1>5. Context!PreviousOK'
    BY <1>1 DEF Context!IInv, Context!PreviousOK
  <1>6. v9.pc # "idle" => v9.s \in Clients
    BY DEF Context!IInv, Context!CollectedOK
  <1>7. Context!PrefixInHandOK'
    <2>1. v9.pc # "idle" => v3'[v9.s] = None /\ v4'[v9.s] = None
      BY <1>1, <1>6
    <2> QED
      BY <1>1, <2>1 DEF Context!IInv, Context!PrefixInHandOK
  <1>8. Context!DecidedOK'
    <2>1. v9.pc # "idle" => v3'[v9.s] = None
      BY <1>1, <1>6
    <2> QED
      BY <1>1, <2>1 DEF Context!IInv, Context!DecidedOK
  <1>9. Context!ShownIsCollected' /\ Context!FileIsCollected'
    BY <1>1 DEF Context!IInv, Context!ShownIsCollected, Context!FileIsCollected
  <1> QED
    BY <1>2, <1>3, <1>4, <1>5, <1>7, <1>8, <1>9 DEF Context!IInv

\* The number of elements is that of the proof modules.
LEMMA ContextSize == ASSUME NEW S PROVE Context!Cardinality(S) = Cardinality(S)
  BY DEF Context!Cardinality, Cardinality

\* Whatever is later than all posts that are collected is dead.
LEMMA ContextNewest ==
  ASSUME Context!TypeOK, NEW s \in Clients, NEW p \in DOMAIN v1, \A q \in Context!Relevant(s) : q < p
  PROVE  Context!Dead(p, v1)
  <1>1. SUFFICES ASSUME p \in Context!Live PROVE FALSE
    BY DEF Context!Live, Context!Dead
  <1>2. DOMAIN v1 = 1..Len(v1) /\ Len(v1) \in Nat
    BY ContextTyped
  <1>3. Context!Live \in SUBSET (1..Len(v1))
    BY <1>2 DEF Context!Live
  <1>4. PICK m \in Context!Live : \A q \in Context!Live : q <= m
    BY <1>1, <1>2, <1>3, LargestExists
  <1>5. m \in Nat /\ p \in Nat /\ \A q \in Context!Live : q \in Nat
    BY <1>2, <1>3
  <1>6. {q \in Context!Live : q > m} = {}
    <2>1. \A q \in Context!Live : q <= m /\ q \in Nat
      BY <1>4, <1>5
    <2>2. \A q \in Context!Live : ~ (q > m)
      BY <1>5, <2>1
    <2> QED
      BY <2>2, Zenon
  <1>7. Cardinality({q \in Context!Live : q > m}) < Window
    BY <1>6, FS_EmptySet, WindowAssumption
  <1>8. m \in Context!Relevant(s)
    <2> DEFINE Few(x) == Context!Cardinality({q \in Context!Live : q > x}) < Window
    <2>1. Context!Relevant(s) = {x \in Context!Live : x <= v5[s] \/ Few(x)}
      BY Zenon DEF Context!Relevant
    <2>2. Few(m)
      BY <1>7, ContextSize
    <2> HIDE DEF Few
    <2> QED
      BY <1>4, <2>1, <2>2
  <1>9. m < p /\ p <= m
    BY <1>1, <1>4, <1>8
  <1> QED
    BY <1>5, <1>9

\* The event loop's steps of a turn, and those of other chats.
LEMMA ContextLoopKeeps ==
  ASSUME Context!IInv,
         \/ Context!invalidate_context \/ \E s \in Clients : Context!collect_blocks(s)
         \/ Context!interact \/ Context!OtherInteracts \/ Context!OtherCollects \/ Context!Send
  PROVE  Context!IInv'
  <1>0. Context!TypeOK /\ Context!CollectedOK
    BY DEF Context!IInv
  <1>1. /\ v9 \in Context!Turns /\ DOMAIN v1 = 1..Len(v1) /\ Len(v1) \in Nat
        /\ \A p \in DOMAIN v1 : v1[p].text \in Context!PostTexts
        /\ v2 \in Context!Files
    BY <1>0, ContextTyped
  <1>2. ASSUME UNCHANGED <<v1, v2, v3, v4, v11, v12>>,
               v9' \in Context!Turns, v7' \in {Context!Own, Context!Other}
        PROVE  Context!TypeOK'
    BY <1>0, <1>2 DEF Context!TypeOK
  <1>3. ASSUME Context!invalidate_context \/ Context!OtherInteracts \/ Context!OtherCollects PROVE Context!IInv'
    <2>1. /\ UNCHANGED <<v1, v2, v3, v4, v11, v12, v9>>
          /\ v7' \in {Context!Own, Context!Other}
      <3>1. v7 \in {Context!Own, Context!Other}
        BY <1>0, ContextTyped
      <3> QED
        BY <1>3, <3>1 DEF Context!invalidate_context, Context!OtherInteracts, Context!OtherCollects, Context!loop, Context!cache, Context!shared, Context!history
    <2>2. Context!TypeOK'
      BY <1>1, <1>2, <2>1
    <2>3. /\ DOMAIN v1' = DOMAIN v1 /\ \A p \in DOMAIN v1 : v1'[p].text = v1[p].text
          /\ \A p : Context!Dead(p, v1) => Context!Dead(p, v1')
      BY <2>1
    <2> QED
      BY <2>1, <2>2, <2>3, ContextSameTexts
  <1>4. ASSUME NEW s \in Clients, Context!collect_blocks(s) PROVE Context!IInv'
    <2> DEFINE P == [p \in Context!Relevant(s) |-> v1[p].text]
               F == IF Context!Attached THEN v2 ELSE None
    <2>1. /\ v9' = [Context!Idle EXCEPT !.pc = "collected", !.s = s, !.posts = P, !.file = F]
          /\ Context!Relevant(s) # {} /\ UNCHANGED <<v1, v2, v3, v4, v11, v12, v7>>
      <3>1. v9' = [Context!Idle EXCEPT !.pc = "collected", !.s = s, !.posts = P, !.file = F]
        BY <1>4 DEF Context!collect_blocks, Context!Idle
      <3>2. Context!Relevant(s) # {} /\ UNCHANGED <<v1, v2, v3, v4, v11, v12, v7>>
        BY <1>4 DEF Context!collect_blocks, Context!loop, Context!cache, Context!history
      <3> QED
        BY <3>1, <3>2
    <2>2. Context!Relevant(s) \subseteq DOMAIN v1 /\ Context!Relevant(s) \subseteq Nat
      BY <1>1 DEF Context!Relevant, Context!Live
    <2>3. P \in [Context!Relevant(s) -> Context!PostTexts]
      BY <1>1, <2>2
    <2>4. P \in Context!OfPosts(Context!PostTexts) /\ DOMAIN P = Context!Relevant(s)
          /\ \A p \in DOMAIN P : P[p] = v1[p].text
      BY <2>2, <2>3, ContextOfPosts
    <2>5. F \in Context!Files \cup {None}
      BY <1>1
    <2> HIDE DEF P, F
    <2>6. /\ v9' \in Context!Turns /\ v9'.pc = "collected" /\ v9'.s = s /\ v9'.posts = P /\ v9'.file = F
      BY <2>1, <2>4, <2>5, ContextIdle DEF Context!Turns, Context!Places
    <2>7. Context!CollectedOK'
      <3>1. F # None => F = v2
        BY DEF F
      <3>2. \A p \in DOMAIN v1 : (\A q \in Context!Relevant(s) : q < p) => Context!Dead(p, v1)
        BY <1>0, ContextNewest
      <3> QED
        BY <2>1, <2>2, <2>4, <2>6, <3>1, <3>2 DEF Context!CollectedOK
    <2>8. v7' \in {Context!Own, Context!Other}
      BY <1>0, <2>1, ContextTyped
    <2>9. Context!TypeOK'
      BY <1>2, <2>1, <2>6, <2>8
    <2>10. UNCHANGED <<v1, v2, v3, v4, v11, v12>>
      BY <2>1
    <2>11. ASSUME v4[s] # None PROVE Context!Past(v4[s], v9')
      <3>1. Context!PrefixOK(v4[s], v1) /\ v4[s] \in Context!Prefixes
        BY <1>0, <2>11, ContextTyped DEF Context!IInv, Context!LayersOK
      <3>2. /\ v4[s].last_post_id \in Nat
            /\ v4[s].body.patches \subseteq Nat \X (Context!PostTexts \cup {"deleted"})
        BY <3>1, ContextPrefix
      <3>3. \A e \in v4[s].body.patches : e[1] > v4[s].last_post_id => Context!Dead(e[1], v1)
        BY <3>1, <3>2 DEF Context!PrefixOK
      <3>4. \A p \in Context!Relevant(s) : ~Context!Dead(p, v1)
        BY DEF Context!Relevant, Context!Live, Context!Dead
      <3> QED
        BY <2>4, <2>6, <3>3, <3>4 DEF Context!Past
    <2> QED
      BY <2>6, <2>7, <2>9, <2>10, <2>11, ContextBegins
  <1>5. ASSUME Context!interact PROVE Context!IInv'
    <2>1. /\ v9' = [v9 EXCEPT !.pc = "building"] /\ v9.pc = "collected" /\ v7' = Context!Own
          /\ UNCHANGED <<v1, v2, v3, v4, v11, v12>>
      BY <1>5 DEF Context!interact, Context!loop, Context!cache, Context!history
    <2>2. /\ v9' \in Context!Turns /\ v9'.pc = "building" /\ v9'.s = v9.s /\ v9'.posts = v9.posts
          /\ v9'.file = v9.file
      BY <1>1, <2>1 DEF Context!Turns, Context!Places
    <2>3. Context!CollectedOK'
      BY <1>0, <2>1, <2>2 DEF Context!CollectedOK
    <2>4. Context!TypeOK'
      BY <1>2, <2>1, <2>2
    <2>5. v4[v9'.s] # None => Context!Past(v4[v9'.s], v9')
      BY <2>1, <2>2 DEF Context!IInv, Context!PrefixInHandOK, Context!Past
    <2> QED
      BY <2>1, <2>2, <2>3, <2>4, <2>5, ContextBegins
  <1>6. ASSUME Context!Send PROVE Context!IInv'
    <2>1. v9' = Context!Idle /\ UNCHANGED <<v1, v2, v3, v4, v11, v12, v7>>
      BY <1>6 DEF Context!Send, Context!loop, Context!cache, Context!shared, Context!history
    <2>2. v9' \in Context!Turns /\ v9'.pc = "idle"
      BY <2>1, ContextIdle
    <2>3. Context!CollectedOK'
      BY <2>2 DEF Context!CollectedOK
    <2>4. v7' \in {Context!Own, Context!Other}
      BY <1>0, <2>1, ContextTyped
    <2>5. Context!TypeOK'
      BY <1>2, <2>1, <2>2, <2>4
    <2>6. UNCHANGED <<v1, v2, v3, v4, v11, v12>>
      BY <2>1
    <2> QED
      BY <2>2, <2>3, <2>5, <2>6, ContextBegins
  <1> QED
    BY <1>3, <1>4, <1>5, <1>6

\* What both layers keep for a session.
LEMMA ContextLayer ==
  ASSUME Context!IInv, NEW s \in Clients
  PROVE  /\ v3[s] # None =>
               /\ v3[s] \in Context!Fingerprints /\ Context!FingerprintOK(v3[s], v1, v2)
               /\ v11[s] = Context!Counted(v3[s])
         /\ v4[s] # None => v4[s] \in Context!Prefixes /\ Context!PrefixOK(v4[s], v1)
         /\ v3[s] # None /\ v4[s] # None => Context!Follows(v4[s], v3[s], v12[s])
  <1>1. Context!TypeOK
    BY DEF Context!IInv
  <1>2. v3[s] \in Context!Fingerprints \cup {None} /\ v4[s] \in Context!Prefixes \cup {None}
    BY <1>1, ContextTyped
  <1> QED
    BY <1>2 DEF Context!IInv, Context!LayersOK

\* The turn takes the fingerprint of the session's last context in hand.
LEMMA ContextFilters == ASSUME Context!IInv, Context!Filter PROVE Context!IInv'
  <1> DEFINE s == v9.s
  <1>0. Context!TypeOK /\ Context!CollectedOK
    BY DEF Context!IInv
  <1>1. /\ v9.pc = "building" /\ UNCHANGED <<v1, v2, v3, v4, v11, v12, v7>>
    BY DEF Context!Filter, Context!loop, Context!cache, Context!shared, Context!history
  <1>2. PICK cut \in {0} \cup DOMAIN v9.posts, P \in {v9.file, None} :
           v9' = [v9 EXCEPT !.pc = "filtered", !.prev = v3[s], !.cut = cut, !.passed = P]
    BY DEF Context!Filter
  <1>3. v9.s \in Clients /\ cut \in Nat
    <2>1. v9.s \in Clients /\ DOMAIN v9.posts \subseteq Nat
      BY <1>0, <1>1, ContextCollected
    <2> QED
      BY <2>1
  <1>4. v9 \in Context!Turns /\ v3[s] \in Context!Fingerprints \cup {None} /\ P \in Context!Files \cup {None}
    BY <1>0, <1>2, <1>3, ContextTyped, ContextTurn
  <1>5. /\ v9' \in Context!Turns /\ v9'.pc = "filtered" /\ v9'.s = s /\ v9'.posts = v9.posts
        /\ v9'.file = v9.file /\ v9'.prev = v3[s] /\ v9'.passed = P
    BY <1>2, <1>3, <1>4 DEF Context!Turns, Context!Places
  <1>6. Context!TypeOK'
    BY <1>0, <1>1, <1>5 DEF Context!TypeOK
  <1>7. Context!LayersOK'
    BY <1>1 DEF Context!IInv, Context!LayersOK
  <1>8. Context!CollectedOK'
    BY <1>0, <1>1, <1>5 DEF Context!CollectedOK
  <1>9. Context!PreviousOK'
    <2>1. v3[s] # None => Context!FingerprintOK(v3[s], v1, v2) /\ v11[s] = Context!Counted(v3[s])
      BY <1>3, ContextLayer
    <2> QED
      BY <1>1, <1>2, <1>5, <2>1 DEF Context!PreviousOK
  <1>10. Context!PrefixInHandOK'
    <2>1. v4[s] # None => Context!Past(v4[s], v9)
      BY <1>1 DEF Context!IInv, Context!PrefixInHandOK
    <2>2. v4[s] # None => Context!Past(v4[s], v9')
      BY <1>5, <2>1 DEF Context!Past
    <2> QED
      BY <1>1, <1>5, <2>2 DEF Context!PrefixInHandOK
  <1>11. Context!DecidedOK' /\ Context!ShownIsCollected' /\ Context!FileIsCollected'
    BY <1>5 DEF Context!DecidedOK, Context!ShownIsCollected, Context!FileIsCollected
  <1> QED
    BY <1>6, <1>7, <1>8, <1>9, <1>10, <1>11 DEF Context!IInv

\* It takes the kept text in hand, and drops it after a FULL.
LEMMA ContextTakes == ASSUME Context!IInv, Context!GetPrefix PROVE Context!IInv'
  <1> DEFINE s == v9.s
  <1>0. Context!TypeOK /\ Context!CollectedOK /\ Context!PreviousOK
    BY DEF Context!IInv
  <1>1. /\ v9.pc = "filtered" /\ v9' = [v9 EXCEPT !.pc = "read", !.prefix = v4[s]]
        /\ UNCHANGED <<v1, v2, v3, v11, v12, v7>>
        /\ v4' = v4 \/ v4' = [v4 EXCEPT ![s] = None]
    BY DEF Context!GetPrefix, Context!loop, Context!shared, Context!history
  <1>2. v9.s \in Clients
    BY <1>0, <1>1 DEF Context!CollectedOK
  <1>3. v9 \in Context!Turns /\ v4 \in [Clients -> Context!Prefixes \cup {None}] /\ v4[s] \in Context!Prefixes \cup {None}
    BY <1>0, <1>2, ContextTyped
  <1>4. /\ v9' \in Context!Turns /\ v9'.pc = "read" /\ v9'.s = s /\ v9'.posts = v9.posts
        /\ v9'.file = v9.file /\ v9'.prev = v9.prev /\ v9'.passed = v9.passed
        /\ v9'.prefix = v4[s]
    BY <1>1, <1>3 DEF Context!Turns, Context!Places
  <1>5. v4' \in [Clients -> Context!Prefixes \cup {None}] /\ \A x \in Clients : v4'[x] = v4[x] \/ v4'[x] = None
    BY <1>1, <1>2, <1>3
  <1>6. Context!TypeOK'
    BY <1>0, <1>1, <1>4, <1>5 DEF Context!TypeOK
  <1>7. Context!LayersOK'
    BY <1>1, <1>5 DEF Context!IInv, Context!LayersOK
  <1>8. Context!CollectedOK'
    BY <1>0, <1>1, <1>4 DEF Context!CollectedOK
  <1>9. Context!PreviousOK'
    BY <1>0, <1>1, <1>4 DEF Context!PreviousOK
  <1>10. v3[s] = v9.prev \/ (v3[s] = None /\ v4[s] = None)
    BY <1>1 DEF Context!IInv, Context!PrefixInHandOK
  <1>11. /\ v4[s] # None => Context!PrefixOK(v4[s], v1)
         /\ v4[s] # None /\ v9.prev # None => Context!Follows(v4[s], v9.prev, v12[s])
    BY <1>2, <1>10, ContextLayer
  <1>12. v4[s] # None /\ v9.prev # None => v4[s].last_post_id <= v9.prev.last_post_id
    BY <1>11 DEF Context!Follows
  <1>13. Context!PrefixInHandOK'
    <2>1. v4[s] # None => Context!Past(v4[s], v9')
      BY <1>1, <1>4 DEF Context!IInv, Context!PrefixInHandOK, Context!Past
    <2>2. v3[s] \in {v9.prev, None}
      BY <1>10
    <2>3. v4'[s] # None => v4'[s] = v4[s]
      BY <1>2, <1>5
    <2> QED
      BY <1>1, <1>4, <1>11, <1>12, <2>1, <2>2, <2>3 DEF Context!PrefixInHandOK
  <1>14. Context!DecidedOK' /\ Context!ShownIsCollected' /\ Context!FileIsCollected'
    BY <1>1, <1>4 DEF Context!DecidedOK, Context!ShownIsCollected, Context!FileIsCollected
  <1> QED
    BY <1>6, <1>7, <1>8, <1>9, <1>13, <1>14 DEF Context!IInv

\* What a session may be told of posts twice is of posts.
LEMMA ContextPostPatches ==
  ASSUME Context!TypeOK, Context!CollectedOK, Context!PreviousOK, v9.pc \in {"filtered", "read", "decided", "committed"}
  PROVE  Context!post_patches(v9.prev, v9) \subseteq Nat \X (Context!PostTexts \cup {"deleted"})
  <1>0. v9.pc # "idle"
    OBVIOUS
  <1>1. DOMAIN v9.posts \subseteq Nat /\ \A p \in DOMAIN v9.posts : v9.posts[p] \in Context!PostTexts
    BY <1>0, ContextCollected
  <1>2. v9.prev # None => DOMAIN v9.prev.post_digest \subseteq Nat
    BY ContextFiltered, ContextTyped
  <1>3. v9.prev # None =>
           Context!Changed(v9.prev, v9) \subseteq DOMAIN v9.posts
           /\ Context!Gone(v9.prev, v9) \subseteq DOMAIN v9.prev.post_digest
    BY DEF Context!Changed, Context!Gone
  <1> QED
    BY <1>1, <1>2, <1>3 DEF Context!post_patches, Context!Deleted

\* FULL drops the kept text, DELTA_SAFE goes on with what the session was told.
LEMMA ContextDecides == ASSUME Context!IInv, Context!Decide PROVE Context!IInv'
  <1> DEFINE s == v9.s
  <1>0. Context!TypeOK /\ Context!CollectedOK /\ Context!PreviousOK
    BY DEF Context!IInv
  <1>1. /\ v9.pc = "read" /\ UNCHANGED <<v1, v2, v3, v11, v12, v7>>
    BY DEF Context!Decide, Context!loop, Context!shared, Context!history
  <1>2. PICK fit \in SUBSET Context!post_patches(v9.prev, v9), lost \in BOOLEAN, mode \in {"FULL", "DELTA_SAFE"} :
          /\ v9' = [v9 EXCEPT !.pc = "decided", !.patches = fit, !.lost = lost,
                              !.fp = Context!Fingerprint(v9, v7, mode)]
          /\ mode = "DELTA_SAFE" => Context!decide_cache_mode(v3[s], v9, v7) = "DELTA_SAFE"
          /\ v4' = IF mode = "FULL" THEN [v4 EXCEPT ![s] = None] ELSE v4
    <2> DEFINE mo == IF v6 THEN "FULL" ELSE Context!decide_cache_mode(v3[s], v9, v7)
               fp == Context!Fingerprint(v9, v7, mo)
               ps == Context!post_patches(v9.prev, v9)
    <2>1. mo \in {"FULL", "DELTA_SAFE"}
      BY DEF Context!decide_cache_mode
    <2>2. mo = "DELTA_SAFE" => Context!decide_cache_mode(v3[s], v9, v7) = "DELTA_SAFE"
      OBVIOUS
    <2>3. v4' = IF mo = "FULL" THEN [v4 EXCEPT ![s] = None] ELSE v4
      BY DEF Context!Decide
    <2>4. \E fit \in Context!Fitting(ps) :
          \E lost \in IF Context!file_patches(v9.prev, v9) = {} THEN {FALSE}
                      ELSE IF fit = ps THEN BOOLEAN ELSE {TRUE} :
             v9' = [v9 EXCEPT !.pc = "decided", !.patches = fit, !.lost = lost, !.fp = fp]
      BY DEF Context!Decide
    <2>5. Context!Fitting(ps) \subseteq SUBSET ps
      BY DEF Context!Fitting
    <2> HIDE DEF mo, fp, ps
    <2>6. PICK fit \in SUBSET ps, lost \in BOOLEAN :
             v9' = [v9 EXCEPT !.pc = "decided", !.patches = fit, !.lost = lost, !.fp = fp]
      BY <2>4, <2>5
    <2>7. v9' = [v9 EXCEPT !.pc = "decided", !.patches = fit, !.lost = lost,
                           !.fp = Context!Fingerprint(v9, v7, mo)]
      BY <2>6 DEF fp
    <2>8. fit \in SUBSET Context!post_patches(v9.prev, v9)
      BY DEF ps
    <2> QED
      BY <2>1, <2>2, <2>3, <2>7, <2>8
  <1> DEFINE q == Context!Fingerprint(v9, v7, mode)
  <1>3. v9.s \in Clients /\ v9.pc # "idle"
    BY <1>0, <1>1 DEF Context!CollectedOK
  <1>4. v9 \in Context!Turns /\ v4 \in [Clients -> Context!Prefixes \cup {None}] /\ v7 \in {Context!Own, Context!Other}
    BY <1>0, ContextTyped
  <1>5. /\ q \in Context!Fingerprints /\ q.mode = mode /\ q.pre_prompt = v7 /\ q.last_post_id = Context!Last(v9)
    BY <1>0, <1>3, <1>4, ContextFingerprint
  <1>6. v9' = [v9 EXCEPT !.pc = "decided", !.patches = fit, !.lost = lost, !.fp = q]
    BY <1>2
  <1>t. fit \subseteq Nat \X (Context!PostTexts \cup {"deleted"})
    BY <1>0, <1>1, <1>2, ContextPostPatches
  <1> HIDE DEF q
  <1>7. /\ v9' \in Context!Turns /\ v9'.pc = "decided" /\ v9'.s = s /\ v9'.posts = v9.posts
        /\ v9'.file = v9.file /\ v9'.prev = v9.prev /\ v9'.passed = v9.passed
        /\ v9'.prefix = v9.prefix /\ v9'.fp = q /\ v9'.lost = lost
        /\ v9'.cut = v9.cut /\ v9'.patches = fit
    BY <1>t, <1>4, <1>5, <1>6 DEF Context!Turns, Context!Places
  <1>8. v4' \in [Clients -> Context!Prefixes \cup {None}] /\ \A x \in Clients : v4'[x] = v4[x] \/ v4'[x] = None
    BY <1>2, <1>3, <1>4
  <1>9. Context!TypeOK'
    BY <1>0, <1>1, <1>7, <1>8 DEF Context!TypeOK
  <1>10. Context!LayersOK'
    BY <1>1, <1>8 DEF Context!IInv, Context!LayersOK
  <1>11. Context!CollectedOK'
    BY <1>0, <1>1, <1>7 DEF Context!CollectedOK
  <1>12. Context!PreviousOK'
    BY <1>0, <1>1, <1>7 DEF Context!PreviousOK
  <1>13. mode = "DELTA_SAFE" => Context!Extends(v9, v9.prev)
    <2>1. mode = "DELTA_SAFE" => Context!Extends(v9, v3[s])
      BY <1>2 DEF Context!decide_cache_mode, Context!Extends
    <2>2. v3[s] \in {v9.prev, None}
      BY <1>1 DEF Context!IInv, Context!PrefixInHandOK
    <2>3. Context!Extends(v9, v3[s]) => v3[s] # None
      BY DEF Context!Extends
    <2> QED
      BY <2>1, <2>2, <2>3
  <1>14. Context!DecidedOK'
    <2>1. q = Context!Fingerprint(v9', q.pre_prompt, q.mode)
      BY <1>5, <1>7 DEF Context!Fingerprint, Context!Last, Context!filtered_posts, q
    <2>2. mode = "DELTA_SAFE" => Context!Extends(v9', v9'.prev)
      BY <1>7, <1>13 DEF Context!Extends, Context!HeadOf, Context!Changed, Context!Last, Context!filtered_posts
    <2>3. fit \subseteq Context!post_patches(v9'.prev, v9')
      BY <1>2, <1>7 DEF Context!post_patches, Context!Changed, Context!Gone
    <2> QED
      BY <1>5, <1>7, <2>1, <2>2, <2>3 DEF Context!DecidedOK
  <1>15. Context!PrefixInHandOK'
    <2>1. v9.prefix # None =>
            /\ Context!PrefixOK(v9.prefix, v1) /\ Context!Past(v9.prefix, v9)
            /\ v9.prev # None => Context!Follows(v9.prefix, v9.prev, v12[s])
      BY <1>1 DEF Context!IInv, Context!PrefixInHandOK
    <2>2. ASSUME v4'[s] # None PROVE v4'[s].last_post_id < q.last_post_id
      <3>1. mode = "DELTA_SAFE" /\ v4' = v4
        BY <1>2, <1>3, <1>4, <2>2
      <3>2. v9.prev # None /\ Context!Last(v9) > v9.prev.last_post_id
        BY <1>13, <3>1 DEF Context!Extends
      <3>3. v4[s].last_post_id <= v9.prev.last_post_id
        BY <1>1, <2>2, <3>1, <3>2 DEF Context!IInv, Context!PrefixInHandOK
      <3>4. v9.prev.last_post_id \in Nat /\ Context!Last(v9) \in Nat
        BY <1>0, <1>1, <1>3, <3>2, ContextFiltered, ContextCollected
      <3>5. v4[s].last_post_id \in Nat
        <4>1. v4[s] \in Context!Prefixes
          BY <1>3, <1>4, <2>2, <3>1
        <4> QED
          BY <4>1, ContextPrefix
      <3> QED
        BY <1>5, <3>1, <3>2, <3>3, <3>4, <3>5
    <2>3. v9.prefix # None => Context!Past(v9.prefix, v9')
      BY <1>7, <2>1 DEF Context!Past
    <2> QED
      BY <1>1, <1>7, <2>1, <2>2, <2>3 DEF Context!PrefixInHandOK
  <1>16. Context!ShownIsCollected' /\ Context!FileIsCollected'
    BY <1>7 DEF Context!ShownIsCollected, Context!FileIsCollected
  <1> QED
    BY <1>9, <1>10, <1>11, <1>12, <1>14, <1>15, <1>16 DEF Context!IInv

\* The digests of the posts that a fingerprint counts as shown.
LEMMA ContextCounted ==
  ASSUME NEW q \in Context!Fingerprints, q.head_posts \subseteq DOMAIN q.post_digest
  PROVE  /\ Context!Counted(q) \in Context!OfPosts(Context!Digests)
         /\ DOMAIN Context!Counted(q) = q.head_posts
         /\ \A p \in q.head_posts : Context!Counted(q)[p] = q.post_digest[p]
  <1>1. q.head_posts \in SUBSET Nat /\ q.post_digest \in Context!OfPosts(Context!Digests)
    BY ContextFp
  <1>2. q.post_digest \in [DOMAIN q.post_digest -> Context!Digests]
    BY <1>1, ContextOfPosts
  <1>3. Context!Counted(q) \in [q.head_posts -> Context!Digests]
    BY <1>2 DEF Context!Counted
  <1> QED
    BY <1>1, <1>3, ContextOfPosts DEF Context!Counted

\* The fingerprint of a turn that has decided.
LEMMA ContextDecided ==
  ASSUME Context!IInv, v9.pc \in {"decided", "committed"}
  PROVE  /\ v9.fp \in Context!Fingerprints /\ Context!FingerprintOK(v9.fp, v1, v2)
         /\ v9.fp.pre_prompt \in {Context!Own, Context!Other} /\ v9.fp.mode \in {"FULL", "DELTA_SAFE"}
         /\ v9.fp = Context!Fingerprint(v9, v9.fp.pre_prompt, v9.fp.mode)
         /\ v9.fp.head_posts = Context!filtered_posts(v9)
         /\ v9.fp.last_post_id = Context!Last(v9) /\ v9.fp.index = (v9.file # None)
         /\ DOMAIN v9.fp.post_digest = DOMAIN v9.posts
         /\ \A p \in DOMAIN v9.posts : v9.fp.post_digest[p] = Context!post_digest(v9.posts[p])
         /\ v9.fp.mode = "DELTA_SAFE" => Context!Extends(v9, v9.prev)
  <1>0. Context!TypeOK /\ Context!CollectedOK /\ v9.pc # "idle"
    BY DEF Context!IInv
  <1>1. /\ v9.fp \in Context!Fingerprints
        /\ v9.fp = Context!Fingerprint(v9, v9.fp.pre_prompt, v9.fp.mode)
        /\ v9.fp.mode = "DELTA_SAFE" => Context!Extends(v9, v9.prev)
    BY DEF Context!IInv, Context!DecidedOK
  <1>2. v9.fp.pre_prompt \in {Context!Own, Context!Other} /\ v9.fp.mode \in {"FULL", "DELTA_SAFE"}
    BY <1>1, ContextFp
  <1>3. ASSUME NEW whose \in {Context!Own, Context!Other}, NEW mode \in {"FULL", "DELTA_SAFE"},
               v9.fp = Context!Fingerprint(v9, whose, mode)
        PROVE  /\ Context!FingerprintOK(v9.fp, v1, v2)
               /\ v9.fp.head_posts = Context!filtered_posts(v9)
               /\ v9.fp.last_post_id = Context!Last(v9) /\ v9.fp.index = (v9.file # None)
               /\ DOMAIN v9.fp.post_digest = DOMAIN v9.posts
               /\ \A p \in DOMAIN v9.posts : v9.fp.post_digest[p] = Context!post_digest(v9.posts[p])
    BY <1>0, <1>3, ContextFingerprint
  <1> QED
    BY <1>1, <1>2, <1>3

\* The fingerprint is kept for the session's next decision.
LEMMA ContextPuts == ASSUME Context!IInv, Context!Put PROVE Context!IInv'
  <1> DEFINE s == v9.s
  <1>0. Context!TypeOK /\ Context!CollectedOK /\ Context!PreviousOK
    BY DEF Context!IInv
  <1>1. /\ v9.pc = "decided" /\ UNCHANGED <<v1, v2, v4, v12, v7>>
        /\ v3' = [v3 EXCEPT ![s] = v9.fp]
        /\ v11' = [v11 EXCEPT ![s] = Context!Counted(v9.fp)]
        /\ v9' = [v9 EXCEPT !.pc = "committed"]
    BY DEF Context!Put, Context!loop, Context!shared
  <1>2. v9.s \in Clients /\ v9.pc # "idle"
    BY <1>0, <1>1 DEF Context!CollectedOK
  <1>3. /\ v9 \in Context!Turns /\ v3 \in [Clients -> Context!Fingerprints \cup {None}]
        /\ v11 \in [Clients -> Context!OfPosts(Context!Digests) \cup {None}]
        /\ v4 \in [Clients -> Context!Prefixes \cup {None}]
    BY <1>0, ContextTyped
  <1>4. /\ v9.fp \in Context!Fingerprints /\ Context!FingerprintOK(v9.fp, v1, v2)
        /\ v9.fp = Context!Fingerprint(v9, v9.fp.pre_prompt, v9.fp.mode)
        /\ v9.fp.mode = "DELTA_SAFE" => Context!Extends(v9, v9.prev)
        /\ v9.fp.last_post_id = Context!Last(v9)
    BY <1>1, ContextDecided
  <1>5. Context!Counted(v9.fp) \in Context!OfPosts(Context!Digests) /\ v9.fp.last_post_id \in Nat
    <2>1. v9.fp.head_posts \subseteq DOMAIN v9.fp.post_digest
      BY <1>4 DEF Context!FingerprintOK
    <2> QED
      BY <1>4, <2>1, ContextFp, ContextCounted
  <1>6. /\ v9' \in Context!Turns /\ v9'.pc = "committed" /\ v9'.s = s /\ v9'.posts = v9.posts
        /\ v9'.file = v9.file /\ v9'.prev = v9.prev /\ v9'.passed = v9.passed
        /\ v9'.prefix = v9.prefix /\ v9'.fp = v9.fp
        /\ v9'.cut = v9.cut /\ v9'.patches = v9.patches
    BY <1>1, <1>3 DEF Context!Turns, Context!Places
  <1>7. /\ v3' \in [Clients -> Context!Fingerprints \cup {None}]
        /\ v11' \in [Clients -> Context!OfPosts(Context!Digests) \cup {None}]
        /\ v3'[s] = v9.fp /\ v11'[s] = Context!Counted(v9.fp)
        /\ \A x \in Clients \ {s} : v3'[x] = v3[x] /\ v11'[x] = v11[x]
    BY <1>1, <1>2, <1>3, <1>4, <1>5
  <1>8. Context!TypeOK'
    BY <1>0, <1>1, <1>6, <1>7 DEF Context!TypeOK
  <1>9. v4[s] # None => v4[s].last_post_id < v9.fp.last_post_id /\ v4[s].last_post_id \in Nat
    <2>1. v4[s] # None => v4[s].last_post_id < v9.fp.last_post_id
      BY <1>1 DEF Context!IInv, Context!PrefixInHandOK
    <2>2. v4[s] # None => v4[s] \in Context!Prefixes
      BY <1>2, <1>3
    <2> QED
      BY <2>1, <2>2, ContextPrefix
  <1>10. v4[s] # None => Context!Follows(v4[s], v9.fp, v12[s])
    BY <1>5, <1>9 DEF Context!Follows
  <1>11. Context!LayersOK'
    <2> SUFFICES ASSUME NEW x \in Clients
                 PROVE  (/\ v3[x] # None => Context!FingerprintOK(v3[x], v1, v2) /\ v11[x] = Context!Counted(v3[x])
                         /\ v4[x] # None => Context!PrefixOK(v4[x], v1)
                         /\ v3[x] # None /\ v4[x] # None => Context!Follows(v4[x], v3[x], v12[x]))'
      BY DEF Context!LayersOK
    <2>1. /\ v3[x] # None => Context!FingerprintOK(v3[x], v1, v2) /\ v11[x] = Context!Counted(v3[x])
          /\ v4[x] # None => Context!PrefixOK(v4[x], v1)
          /\ v3[x] # None /\ v4[x] # None => Context!Follows(v4[x], v3[x], v12[x])
      BY DEF Context!IInv, Context!LayersOK
    <2>2. CASE x = s
      BY <1>1, <1>4, <1>7, <1>10, <2>1, <2>2
    <2>3. CASE x # s
      BY <1>1, <1>7, <2>1, <2>3
    <2> QED
      BY <2>2, <2>3
  <1>12. Context!CollectedOK'
    BY <1>0, <1>1, <1>6 DEF Context!CollectedOK
  <1>13. Context!PreviousOK'
    BY <1>0, <1>1, <1>6 DEF Context!PreviousOK
  <1>14. Context!PrefixInHandOK'
    <2>1. v9.prefix # None =>
            /\ Context!PrefixOK(v9.prefix, v1) /\ Context!Past(v9.prefix, v9)
            /\ v9.prev # None => Context!Follows(v9.prefix, v9.prev, v12[s])
      BY <1>1 DEF Context!IInv, Context!PrefixInHandOK
    <2>2. v9.prefix # None => Context!Past(v9.prefix, v9')
      BY <1>6, <2>1 DEF Context!Past
    <2> QED
      BY <1>1, <1>6, <1>9, <2>1, <2>2 DEF Context!PrefixInHandOK
  <1>15. Context!DecidedOK'
    <2>1. v9.fp = Context!Fingerprint(v9', v9.fp.pre_prompt, v9.fp.mode)
      BY <1>4, <1>6 DEF Context!Fingerprint, Context!Last, Context!filtered_posts
    <2>2. v9.fp.mode = "DELTA_SAFE" => Context!Extends(v9', v9'.prev)
      BY <1>4, <1>6 DEF Context!Extends, Context!HeadOf, Context!Changed, Context!Last, Context!filtered_posts
    <2>3. v9.patches \subseteq Context!post_patches(v9'.prev, v9')
      <3>1. v9.patches \subseteq Context!post_patches(v9.prev, v9)
        BY <1>1 DEF Context!IInv, Context!DecidedOK
      <3> QED
        BY <1>6, <3>1 DEF Context!post_patches, Context!Changed, Context!Gone
    <2> QED
      BY <1>4, <1>6, <1>7, <2>1, <2>2, <2>3 DEF Context!DecidedOK
  <1>16. Context!ShownIsCollected' /\ Context!FileIsCollected'
    BY <1>6 DEF Context!ShownIsCollected, Context!FileIsCollected
  <1> QED
    BY <1>8, <1>11, <1>12, <1>13, <1>14, <1>15, <1>16 DEF Context!IInv

\* The context is put together, from the kept text or from all blocks.
LEMMA ContextAssembles == ASSUME Context!IInv, Context!Assemble PROVE Context!IInv'
  <1> DEFINE s == v9.s
             reused == Context!can_reuse_mp(v9)
             body == IF reused THEN Context!build_pd_body(v9) ELSE Context!Packed(v9)
             d == reused /\ (v12[s] \/ v9.lost)
             m == [pre_prompt |-> v9.fp.pre_prompt, index |-> v9.fp.index,
                   head_posts |-> v9.fp.head_posts,
                   last_post_id |-> v9.fp.last_post_id, body |-> body]
  <1>0. Context!TypeOK /\ Context!CollectedOK /\ Context!PreviousOK /\ Context!DecidedOK
    BY DEF Context!IInv
  <1>1. /\ v9.pc = "committed" /\ UNCHANGED <<v1, v2, v3, v11, v7>>
        /\ v9' = [v9 EXCEPT !.pc = "built", !.body = body]
        /\ v12' = [v12 EXCEPT ![s] = d]
        /\ IF v9.fp.mode = "DELTA_SAFE" THEN v4' = [v4 EXCEPT ![s] = m] ELSE v4' = v4
    BY DEF Context!Assemble, Context!loop, Context!shared
  <1>2. v9.s \in Clients /\ v9.pc # "idle"
    BY <1>0, <1>1 DEF Context!CollectedOK
  <1>3. /\ v9 \in Context!Turns /\ v4 \in [Clients -> Context!Prefixes \cup {None}]
        /\ v12 \in [Clients -> BOOLEAN]
    BY <1>0, ContextTyped
  <1>4. d \in BOOLEAN
    BY <1>2, <1>3, ContextTurn
  <1>5. Context!Shows(v9, body, d)
    <2>1. CASE reused
      <3>1. Context!Shows(v9, Context!build_pd_body(v9), v12[s] \/ v9.lost)
        BY <1>1, <2>1, ContextReused
      <3>2. body = Context!build_pd_body(v9) /\ d = (v12[s] \/ v9.lost)
        BY <1>2, <1>3, <2>1, ContextTurn
      <3> HIDE DEF body, d
      <3> QED
        BY <3>1, <3>2
    <2>2. CASE ~reused
      <3>1. Context!Shows(v9, Context!Packed(v9), FALSE)
        BY <1>0, <1>1, ContextPacked
      <3>r. reused = FALSE
        BY <2>2 DEF Context!can_reuse_mp
      <3>b. body = Context!Packed(v9)
        BY <2>2
      <3>d. d = FALSE
        BY <2>2
      <3>2. body = Context!Packed(v9) /\ d = FALSE
        BY <3>b, <3>d
      <3> HIDE DEF body, d
      <3> QED
        BY <3>1, <3>2
    <2> QED
      BY <2>1, <2>2
  <1>6. v9.fp.mode # "DELTA_SAFE" => d = FALSE
    BY DEF Context!can_reuse_mp
  <1> HIDE DEF body, d, reused
  <1>7. body \in Context!Bodies
    BY <1>5 DEF Context!Shows
  <1>8. /\ v9' \in Context!Turns /\ v9'.pc = "built" /\ v9'.s = s /\ v9'.posts = v9.posts
        /\ v9'.file = v9.file /\ v9'.body = body /\ v9'.cut = v9.cut
    BY <1>1, <1>3, <1>7 DEF Context!Turns, Context!Places
  <1>9. /\ v12' \in [Clients -> BOOLEAN] /\ v12'[s] = d
        /\ \A x \in Clients \ {s} : v12'[x] = v12[x]
    BY <1>1, <1>2, <1>3, <1>4
  <1>10. /\ v9.fp \in Context!Fingerprints /\ v9.fp.pre_prompt \in {Context!Own, Context!Other}
         /\ v9.fp = Context!Fingerprint(v9, v9.fp.pre_prompt, v9.fp.mode)
    BY <1>1, ContextDecided
  <1>11. v9.fp.mode = "DELTA_SAFE" => m \in Context!Prefixes /\ Context!PrefixOK(m, v1) /\ Context!Follows(m, v9.fp, d)
    <2> SUFFICES ASSUME v9.fp.mode = "DELTA_SAFE"
                 PROVE  m \in Context!Prefixes /\ Context!PrefixOK(m, v1) /\ Context!Follows(m, v9.fp, d)
      OBVIOUS
    <2>1. v9.fp = Context!Fingerprint(v9, v9.fp.pre_prompt, "DELTA_SAFE")
      BY <1>10
    <2> QED
      BY <1>0, <1>1, <1>4, <1>5, <1>10, <2>1, ContextKept
  <1> HIDE DEF m
  <1>12. /\ v4' \in [Clients -> Context!Prefixes \cup {None}]
         /\ v4'[s] = IF v9.fp.mode = "DELTA_SAFE" THEN m ELSE v4[s]
         /\ \A x \in Clients \ {s} : v4'[x] = v4[x]
    BY <1>1, <1>2, <1>3, <1>11
  <1>13. Context!TypeOK'
    BY <1>0, <1>1, <1>8, <1>9, <1>12 DEF Context!TypeOK
  <1>14. Context!LayersOK'
    <2> SUFFICES ASSUME NEW x \in Clients
                 PROVE  (/\ v3[x] # None => Context!FingerprintOK(v3[x], v1, v2) /\ v11[x] = Context!Counted(v3[x])
                         /\ v4[x] # None => Context!PrefixOK(v4[x], v1)
                         /\ v3[x] # None /\ v4[x] # None => Context!Follows(v4[x], v3[x], v12[x]))'
      BY DEF Context!LayersOK
    <2>1. /\ v3[x] # None => Context!FingerprintOK(v3[x], v1, v2) /\ v11[x] = Context!Counted(v3[x])
          /\ v4[x] # None => Context!PrefixOK(v4[x], v1)
          /\ v3[x] # None /\ v4[x] # None => Context!Follows(v4[x], v3[x], v12[x])
      BY DEF Context!IInv, Context!LayersOK
    <2>2. CASE x # s
      BY <1>1, <1>9, <1>12, <2>1, <2>2
    <2>3. CASE x = s
      <3>1. v3[s] # None => v3[s] = v9.fp
        BY <1>0, <1>1 DEF Context!DecidedOK
      <3>2. CASE v9.fp.mode = "DELTA_SAFE"
        BY <1>1, <1>9, <1>11, <1>12, <2>1, <2>3, <3>1, <3>2
      <3>3. CASE v9.fp.mode # "DELTA_SAFE"
        <4>1. v4[s] # None => v4[s].last_post_id < v9.fp.last_post_id
          BY <1>1 DEF Context!IInv, Context!PrefixInHandOK
        <4>2. v4[s] # None => v4[s] \in Context!Prefixes
          BY <1>2, <1>3
        <4>3. v9.fp.last_post_id \in Nat
          BY <1>10, ContextFp
        <4>4. v4[s] # None => v4[s].last_post_id \in Nat
          BY <4>2, ContextPrefix
        <4>5. v4[s] # None => Context!Follows(v4[s], v9.fp, d)
          BY <4>1, <4>3, <4>4 DEF Context!Follows
        <4> QED
          BY <1>1, <1>9, <1>12, <2>1, <2>3, <3>1, <3>3, <4>5
      <3> QED
        BY <3>2, <3>3
    <2> QED
      BY <2>2, <2>3
  <1>15. Context!CollectedOK'
    BY <1>0, <1>1, <1>8 DEF Context!CollectedOK
  <1>16. Context!PreviousOK' /\ Context!PrefixInHandOK' /\ Context!DecidedOK'
    BY <1>8 DEF Context!PreviousOK, Context!PrefixInHandOK, Context!DecidedOK
  <1>17. /\ DOMAIN body.posts = {p \in DOMAIN v9.posts : p > v9.cut}
         /\ \A p \in DOMAIN body.posts : body.posts[p] = v9.posts[p]
         /\ \A e \in body.patches : e[1] \in DOMAIN body.posts => e[2] = v9.posts[e[1]]
         /\ v9.file # None /\ body.files # {} /\ ~d =>
               Context!PostMax({c.ts : c \in body.files}) = v9.file.ts
    BY <1>0, <1>1, <1>4, <1>5, ContextShown
  <1>18. Context!ShownIsCollected' /\ Context!FileIsCollected'
    BY <1>8, <1>9, <1>17 DEF Context!ShownIsCollected, Context!FileIsCollected
  <1> QED
    BY <1>13, <1>14, <1>15, <1>16, <1>18 DEF Context!IInv

\* A reuse that raises packs all blocks, drops the kept text and says FULL.
LEMMA ContextReuseFails == ASSUME Context!IInv, Context!ReuseFails PROVE Context!IInv'
  <1> DEFINE s == v9.s
             body == Context!Packed(v9)
             q == [v9.fp EXCEPT !.mode = "FULL"]
  <1>0. Context!TypeOK /\ Context!CollectedOK /\ Context!PreviousOK /\ Context!DecidedOK
    BY DEF Context!IInv
  <1>1. /\ v9.pc = "committed" /\ UNCHANGED <<v1, v2, v11, v7>>
        /\ v9' = [v9 EXCEPT !.pc = "built", !.body = body]
        /\ v12' = [v12 EXCEPT ![s] = FALSE]
        /\ v4' = [v4 EXCEPT ![s] = None] /\ v3' = [v3 EXCEPT ![s] = q]
    BY DEF Context!ReuseFails, Context!loop, Context!shared
  <1>2. v9.s \in Clients /\ v9.pc # "idle"
    BY <1>0, <1>1 DEF Context!CollectedOK
  <1>3. /\ v9 \in Context!Turns /\ v4 \in [Clients -> Context!Prefixes \cup {None}]
        /\ v3 \in [Clients -> Context!Fingerprints \cup {None}]
        /\ v12 \in [Clients -> BOOLEAN]
    BY <1>0, ContextTyped
  <1>4. Context!Shows(v9, body, FALSE)
    BY <1>0, <1>1, ContextPacked
  <1>5. v9.fp \in Context!Fingerprints /\ Context!FingerprintOK(v9.fp, v1, v2)
    BY <1>1, ContextDecided
  <1>6. /\ q \in Context!Fingerprints /\ q.post_digest = v9.fp.post_digest /\ q.head_posts = v9.fp.head_posts
        /\ q.last_post_id = v9.fp.last_post_id /\ q.index = v9.fp.index
        /\ q.file_rev_ts = v9.fp.file_rev_ts
    BY <1>5 DEF Context!Fingerprints
  <1> HIDE DEF body, q
  <1>7. Context!FingerprintOK(q, v1, v2)
    BY <1>5, <1>6 DEF Context!FingerprintOK
  <1>8. body \in Context!Bodies
    BY <1>4 DEF Context!Shows
  <1>9. /\ v9' \in Context!Turns /\ v9'.pc = "built" /\ v9'.s = s /\ v9'.posts = v9.posts
        /\ v9'.file = v9.file /\ v9'.body = body /\ v9'.cut = v9.cut
    BY <1>1, <1>3, <1>8 DEF Context!Turns, Context!Places
  <1>10. /\ v12' \in [Clients -> BOOLEAN] /\ v12'[s] = FALSE
         /\ v4' \in [Clients -> Context!Prefixes \cup {None}] /\ v4'[s] = None
         /\ v3' \in [Clients -> Context!Fingerprints \cup {None}] /\ v3'[s] = q
         /\ \A x \in Clients \ {s} : v12'[x] = v12[x] /\ v4'[x] = v4[x] /\ v3'[x] = v3[x]
    BY <1>1, <1>2, <1>3, <1>6
  <1>11. Context!TypeOK'
    BY <1>0, <1>1, <1>9, <1>10 DEF Context!TypeOK
  <1>12. v11[s] = Context!Counted(q)
    <2>1. v11[s] = Context!Counted(v9.fp)
      BY <1>0, <1>1 DEF Context!DecidedOK
    <2> QED
      BY <1>6, <2>1 DEF Context!Counted
  <1>13. Context!LayersOK'
    <2> SUFFICES ASSUME NEW x \in Clients
                 PROVE  (/\ v3[x] # None => Context!FingerprintOK(v3[x], v1, v2) /\ v11[x] = Context!Counted(v3[x])
                         /\ v4[x] # None => Context!PrefixOK(v4[x], v1)
                         /\ v3[x] # None /\ v4[x] # None => Context!Follows(v4[x], v3[x], v12[x]))'
      BY DEF Context!LayersOK
    <2>1. /\ v3[x] # None => Context!FingerprintOK(v3[x], v1, v2) /\ v11[x] = Context!Counted(v3[x])
          /\ v4[x] # None => Context!PrefixOK(v4[x], v1)
          /\ v3[x] # None /\ v4[x] # None => Context!Follows(v4[x], v3[x], v12[x])
      BY DEF Context!IInv, Context!LayersOK
    <2>2. CASE x # s
      BY <1>1, <1>10, <2>1, <2>2
    <2>3. CASE x = s
      BY <1>1, <1>7, <1>10, <1>12, <2>3
    <2> QED
      BY <2>2, <2>3
  <1>14. Context!CollectedOK'
    BY <1>0, <1>1, <1>9 DEF Context!CollectedOK
  <1>15. Context!PreviousOK' /\ Context!PrefixInHandOK' /\ Context!DecidedOK'
    BY <1>9 DEF Context!PreviousOK, Context!PrefixInHandOK, Context!DecidedOK
  <1>16. /\ DOMAIN body.posts = {p \in DOMAIN v9.posts : p > v9.cut}
         /\ \A p \in DOMAIN body.posts : body.posts[p] = v9.posts[p]
         /\ \A e \in body.patches : e[1] \in DOMAIN body.posts => e[2] = v9.posts[e[1]]
         /\ v9.file # None /\ body.files # {} =>
               Context!PostMax({c.ts : c \in body.files}) = v9.file.ts
    BY <1>0, <1>1, <1>4, ContextShown
  <1>17. Context!ShownIsCollected' /\ Context!FileIsCollected'
    BY <1>9, <1>16 DEF Context!ShownIsCollected, Context!FileIsCollected
  <1> QED
    BY <1>11, <1>13, <1>14, <1>15, <1>17 DEF Context!IInv

\* A context that is not built, and a restart.
LEMMA ContextStops == ASSUME Context!IInv, Context!BuildFails \/ Context!Restart PROVE Context!IInv'
  <1>0. Context!TypeOK
    BY DEF Context!IInv
  <1>1. v7 \in {Context!Own, Context!Other}
    BY <1>0, ContextTyped
  <1>2. v9' = Context!Idle /\ UNCHANGED <<v1, v2, v12, v7>>
    BY DEF Context!BuildFails, Context!Restart, Context!loop, Context!shared, Context!history
  <1>3. v9' \in Context!Turns /\ v9'.pc = "idle"
    BY <1>2, ContextIdle
  <1>4. Context!CollectedOK'
    BY <1>3 DEF Context!CollectedOK
  <1>5. CASE Context!BuildFails
    <2>1. UNCHANGED <<v1, v2, v3, v4, v11, v12, v7>>
      BY <1>5 DEF Context!BuildFails, Context!loop, Context!cache, Context!shared, Context!history
    <2>2. Context!TypeOK'
      BY <1>0, <1>3, <2>1 DEF Context!TypeOK
    <2>3. UNCHANGED <<v1, v2, v3, v4, v11, v12>>
      BY <2>1
    <2> QED
      BY <1>3, <1>4, <2>2, <2>3, ContextBegins
  <1>6. CASE Context!Restart
    <2>1. /\ \A s \in Clients : v3'[s] = None /\ v4'[s] = None
          /\ v3' \in [Clients -> Context!Fingerprints \cup {None}]
          /\ v4' \in [Clients -> Context!Prefixes \cup {None}]
          /\ v11' \in [Clients -> Context!OfPosts(Context!Digests) \cup {None}]
      BY <1>6 DEF Context!Restart
    <2>2. Context!TypeOK'
      BY <1>0, <1>2, <1>3, <2>1 DEF Context!TypeOK
    <2>3. Context!LayersOK'
      BY <2>1 DEF Context!LayersOK
    <2>4. Context!PreviousOK' /\ Context!PrefixInHandOK' /\ Context!DecidedOK' /\ Context!ShownIsCollected' /\ Context!FileIsCollected'
      BY <1>3 DEF Context!PreviousOK, Context!PrefixInHandOK, Context!DecidedOK, Context!ShownIsCollected, Context!FileIsCollected
    <2> QED
      BY <1>4, <2>2, <2>3, <2>4 DEF Context!IInv
  <1> QED
    BY <1>5, <1>6

\* Every step of the loop, of a turn and of a restart keeps the invariant.
LEMMA ContextStep == Context!IInv /\ [Context!Next]_(Context!vars) => Context!IInv'
  <1> SUFFICES ASSUME Context!IInv, [Context!Next]_(Context!vars) PROVE Context!IInv'
    OBVIOUS
  <1>1. ASSUME UNCHANGED Context!vars PROVE Context!IInv'
    <2>1. UNCHANGED <<v1, v2, v3, v4, v11, v12, v9, v7>>
      BY <1>1 DEF Context!vars
    <2>2. Context!TypeOK'
      BY <2>1 DEF Context!IInv, Context!TypeOK
    <2>3. UNCHANGED <<v2, v3, v4, v11, v12, v9>>
      BY <2>1
    <2>4. /\ DOMAIN v1' = DOMAIN v1 /\ \A p \in DOMAIN v1 : v1'[p].text = v1[p].text
          /\ \A p : Context!Dead(p, v1) => Context!Dead(p, v1')
      BY <2>1
    <2> QED
      BY <2>2, <2>3, <2>4, ContextSameTexts
  <1>2. ASSUME Context!Next PROVE Context!IInv'
    <2>1. CASE \/ \E t \in {"wait1", "said"} : Context!AddPost(t)
               \/ \E p \in DOMAIN v1 : \E t \in Context!NextTexts(v1[p].text) : Context!EditPost(p, t)
               \/ Context!EditFile
               \/ \E p \in DOMAIN v1 : Context!DeletePost(p)
      BY <2>1, ContextPostsKeep
    <2>2. CASE \/ Context!invalidate_context \/ \E s \in Clients : Context!collect_blocks(s)
               \/ Context!interact \/ Context!OtherInteracts \/ Context!OtherCollects \/ Context!Send
      BY <2>2, ContextLoopKeeps
    <2>3. CASE Context!evict_scope \/ Context!Filter \/ Context!GetPrefix \/ Context!Decide \/ Context!Put
      BY <2>3, ContextEvicts, ContextFilters, ContextTakes, ContextDecides, ContextPuts
    <2>4. CASE Context!Assemble \/ Context!ReuseFails \/ Context!BuildFails \/ Context!Restart
      BY <2>4, ContextAssembles, ContextReuseFails, ContextStops
    <2> QED
      BY <1>2, <2>1, <2>2, <2>3, <2>4 DEF Context!Next
  <1> QED
    BY <1>1, <1>2

\* A DELTA_SAFE extends what the session was told before.
LEMMA ContextDelta == ASSUME Context!IInv PROVE Context!DeltaStep
  <1> SUFFICES ASSUME NEW s \in Clients, v11[s] # None, v9.s = s, v9.pc = "decided",
                      v9.fp.mode = "DELTA_SAFE", v11'[s] # v11[s], v9'.pc = "committed"
               PROVE  /\ DOMAIN v11[s] \subseteq Context!filtered_posts(v9)
                      /\ \E q \in Context!filtered_posts(v9) : \A p \in DOMAIN v11[s] : p < q
                      /\ \A p \in DOMAIN v11[s] :
                            \/ Context!post_digest(v9.posts[p]) = v11[s][p]
                            \/ v11[s][p] = "waiting" /\ v9.posts[p] # "warning"
    BY DEF Context!DeltaStep
  <1>0. Context!TypeOK /\ Context!CollectedOK /\ Context!PreviousOK /\ v9.pc # "idle"
    BY DEF Context!IInv
  <1>1. Context!Extends(v9, v9.prev)
    BY ContextDecided
  <1>2. /\ v9.prev # None /\ v9.prev.head_posts = Context!HeadOf(v9, v9.prev.last_post_id)
        /\ \A p \in Context!Changed(v9.prev, v9) : p > v9.prev.last_post_id
        /\ Context!Last(v9) > v9.prev.last_post_id
    BY <1>1 DEF Context!Extends
  <1>3. v11[s] = Context!Counted(v9.prev)
    BY <1>0, <1>2 DEF Context!PreviousOK
  <1>4. /\ v9.prev.head_posts \subseteq DOMAIN v9.prev.post_digest /\ v9.prev.head_posts \subseteq Nat
        /\ v9.prev.last_post_id \in Nat /\ v9.prev \in Context!Fingerprints
        /\ \A p \in v9.prev.head_posts : p <= v9.prev.last_post_id
    BY <1>0, <1>2, ContextFiltered
  <1>5. /\ DOMAIN v11[s] = v9.prev.head_posts
        /\ \A p \in v9.prev.head_posts : v11[s][p] = v9.prev.post_digest[p]
    BY <1>3, <1>4, ContextCounted
  <1>6. Context!Last(v9) \in Nat /\ Context!Last(v9) > 0
    BY <1>0, <1>2, <1>4, ContextCollected
  <1>7. Context!Last(v9) \in Context!filtered_posts(v9) /\ Context!filtered_posts(v9) \subseteq DOMAIN v9.posts
    BY <1>0, <1>6, ContextCollected
  <1>8. DOMAIN v11[s] \subseteq Context!filtered_posts(v9)
    BY <1>2, <1>5 DEF Context!HeadOf
  <1>9. \A p \in DOMAIN v11[s] : p < Context!Last(v9)
    BY <1>2, <1>4, <1>5, <1>6
  <1>10. ASSUME NEW p \in DOMAIN v11[s]
         PROVE  \/ Context!post_digest(v9.posts[p]) = v11[s][p]
                \/ v11[s][p] = "waiting" /\ v9.posts[p] # "warning"
    <2>1. p \in Nat /\ p <= v9.prev.last_post_id /\ p \in DOMAIN v9.posts
          /\ p \in DOMAIN v9.prev.post_digest /\ v11[s][p] = v9.prev.post_digest[p]
      BY <1>4, <1>5, <1>7, <1>8
    <2>2. p \notin Context!Changed(v9.prev, v9)
      BY <1>2, <1>4, <2>1
    <2>3. \/ Context!post_digest(v9.posts[p]) = v11[s][p]
          \/ v11[s][p] = "waiting" /\ Context!post_digest(v9.posts[p]) # "warning"
      BY <2>1, <2>2 DEF Context!Changed, Context!Answered
    <2>4. v9.posts[p] = "warning" => Context!post_digest(v9.posts[p]) = "warning"
      BY DEF Context!post_digest, Context!Waiting
    <2> QED
      BY <2>3, <2>4
  <1> QED
    BY <1>7, <1>8, <1>9, <1>10

-----------------------------------------------------------------------------
(***************************************************************************)
(* Background tasks                                                        *)
(***************************************************************************)
\* The instance counts like this module.
LEMMA BackgroundSize ==
  ASSUME NEW S
  PROVE  Background!Cardinality(S) = Cardinality(S) /\ Background!IsFiniteSet(S) = IsFiniteSet(S)
  BY DEF Background!Cardinality, Cardinality, Background!IsFiniteSet, IsFiniteSet

\* Some task of a session that has one is the oldest.
LEMMA BackgroundOldest ==
  ASSUME NEW b, b # {}, \A rec \in b : rec.id \in Nat /\ rec.updated \in Nat
  PROVE  Background!Oldest(b) \in b /\ \A other \in b : Background!NotAfter(Background!Oldest(b), other)
  <1> DEFINE times == {rec.updated : rec \in b}
  <1>1. PICK least \in times : \A time \in times : least <= time
    <2>1. times \in SUBSET Nat /\ times # {}
      OBVIOUS
    <2> HIDE DEF times
    <2>2. QED
      BY <2>1, LeastExists
  <1> DEFINE ids == {rec.id : rec \in {r \in b : r.updated = least}}
  <1>2. PICK first \in ids : \A id \in ids : first <= id
    <2>1. ids \in SUBSET Nat /\ ids # {}
      OBVIOUS
    <2> HIDE DEF ids
    <2>2. QED
      BY <2>1, LeastExists
  <1>3. PICK rec \in b : rec.updated = least /\ rec.id = first
    OBVIOUS
  <1>4. ASSUME NEW other \in b PROVE Background!NotAfter(rec, other)
    <2>1. least <= other.updated /\ least \in Nat /\ other.updated \in Nat
      BY <1>1
    <2>2. CASE other.updated = least
      <3>1. first <= other.id
        BY <1>2, <2>2
      <3>2. QED
        BY <1>3, <2>2, <3>1 DEF Background!NotAfter
    <2>3. CASE other.updated # least
      BY <1>3, <2>1, <2>3 DEF Background!NotAfter
    <2>4. QED
      BY <2>2, <2>3
  <1>5. QED
    BY <1>4 DEF Background!Oldest

\* What is left of a session's tasks: those not too old, without the oldest if they
\* are too many.
LEMMA BackgroundPruned ==
  ASSUME NEW b, IsFiniteSet(b), Cardinality(b) <= MaxTasks + 1,
         \A rec \in b : rec.id \in Nat /\ rec.updated \in Nat,
         \A rec, other \in b : rec.id = other.id => rec = other
  PROVE  /\ Background!prune_session_tasks(b) \subseteq b
         /\ IsFiniteSet(Background!prune_session_tasks(b))
         /\ Cardinality(Background!prune_session_tasks(b)) <= MaxTasks
         /\ \A rec \in b : \/ rec \in Background!prune_session_tasks(b)
                           \/ ~Background!Alive(rec)
                           \/ Cardinality(Background!Newer(rec, b)) >= MaxTasks
  <1> DEFINE alive == Background!Living(b)
             oldest == Background!Oldest(alive)
             newer(rec) == Background!Newer(rec, b)
  <1>1. IsFiniteSet(alive) /\ Cardinality(alive) <= Cardinality(b)
    <2>1. alive \in SUBSET b
      BY DEF Background!Living
    <2>2. QED
      BY <2>1, FS_Subset
  <1>2. Cardinality(alive) \in Nat /\ Cardinality(b) \in Nat /\ MaxTasks \in Nat
    BY <1>1, FS_CardinalityType, TasksAssumption
  <1>3. CASE Cardinality(alive) > MaxTasks
    <2>1. alive # {}
      BY <1>2, <1>3, FS_EmptySet
    <2>2. oldest \in alive /\ \A other \in alive : Background!NotAfter(oldest, other)
      <3>1. \A rec \in alive : rec.id \in Nat /\ rec.updated \in Nat
        BY DEF Background!Living
      <3> HIDE DEF alive
      <3>2. QED
        BY <2>1, <3>1, BackgroundOldest
    <2>3. Background!prune_session_tasks(b) = alive \ {oldest}
      BY <1>3, BackgroundSize DEF Background!prune_session_tasks
    <2>4. IsFiniteSet(alive \ {oldest}) /\ Cardinality(alive \ {oldest}) = Cardinality(alive) - 1
      BY <1>1, <2>2, FS_RemoveElement
    <2>5. Cardinality(newer(oldest)) >= MaxTasks
      <3>1. alive \ {oldest} \in SUBSET newer(oldest)
        <4> SUFFICES ASSUME NEW r \in alive, r # oldest PROVE r \in b /\ r.id # oldest.id /\ r.updated >= oldest.updated
          BY DEF Background!Newer
        <4>1. r \in b /\ r.updated \in Nat /\ oldest.updated \in Nat /\ r.id # oldest.id
          BY <2>2 DEF Background!Living
        <4>2. oldest.updated < r.updated \/ oldest.updated = r.updated
          BY <2>2 DEF Background!NotAfter
        <4>3. QED
          BY <4>1, <4>2
      <3>2. IsFiniteSet(newer(oldest))
        <4>1. newer(oldest) \in SUBSET b
          BY DEF Background!Newer
        <4>2. QED
          BY <4>1, FS_Subset
      <3>3. Cardinality(alive \ {oldest}) <= Cardinality(newer(oldest)) /\ Cardinality(newer(oldest)) \in Nat
        <4> HIDE DEF alive, oldest, newer
        <4>1. QED
          BY <3>1, <3>2, FS_Subset, FS_CardinalityType
      <3>4. QED
        BY <1>2, <1>3, <2>4, <3>3
    <2>6. \A rec \in b : rec \in alive \ {oldest} \/ ~Background!Alive(rec) \/ rec = oldest
      BY DEF Background!Living
    <2>7. alive \ {oldest} \subseteq b
      BY DEF Background!Living
    <2> HIDE DEF alive, oldest
    <2>8. QED
      BY <1>1, <1>2, <2>3, <2>4, <2>5, <2>6, <2>7
  <1>4. CASE ~(Cardinality(alive) > MaxTasks)
    <2>1. Background!prune_session_tasks(b) = alive
      BY <1>4, BackgroundSize DEF Background!prune_session_tasks
    <2>2. alive \subseteq b /\ \A rec \in b : rec \in alive \/ ~Background!Alive(rec)
      BY DEF Background!Living
    <2> HIDE DEF alive
    <2>3. QED
      BY <1>1, <1>2, <1>4, <2>1, <2>2
  <1>5. QED
    BY <1>3, <1>4

\* What a session's key does to the order of the keys when it leaves.
LEMMA BackgroundWithout ==
  ASSUME NEW s, NEW sids \in Seq(Clients), NEW last \in [Clients -> Nat],
         \A i, j \in DOMAIN sids : i < j => last[sids[i]] < last[sids[j]]
  PROVE  /\ Background!Without(s, sids) \in Seq(Clients)
         /\ \A i \in DOMAIN Background!Without(s, sids) :
               /\ Background!Without(s, sids)[i] # s
               /\ \E j \in DOMAIN sids : sids[j] = Background!Without(s, sids)[i]
         /\ \A i, j \in DOMAIN Background!Without(s, sids) :
               i < j => last[Background!Without(s, sids)[i]] < last[Background!Without(s, sids)[j]]
  <1>1. CASE s \notin Background!ToSet(sids)
    <2>1. Background!Without(s, sids) = sids
      BY <1>1 DEF Background!Without
    <2>2. \A i \in DOMAIN sids : sids[i] # s
      BY <1>1 DEF Background!ToSet
    <2>3. QED
      BY <2>1, <2>2
  <1>2. CASE s \in Background!ToSet(sids)
    <2> DEFINE p == CHOOSE i \in DOMAIN sids : sids[i] = s
               new == SubSeq(sids, 1, p - 1) \o SubSeq(sids, p + 1, Len(sids))
    <2>1. p \in 1..Len(sids) /\ sids[p] = s
      BY <1>2 DEF Background!ToSet
    <2>2. Background!Without(s, sids) = new
      BY <1>2 DEF Background!Without, Background!RemoveAt
    <2> HIDE DEF p
    <2>3. /\ new \in Seq(Clients) /\ Len(new) = Len(sids) - 1
          /\ \A i \in 1..Len(sids) - 1 : new[i] = IF i < p THEN sids[i] ELSE sids[i + 1]
      <3> DEFINE a == SubSeq(sids, 1, p - 1)
                 b == SubSeq(sids, p + 1, Len(sids))
      <3>1. a \in Seq(Clients) /\ Len(a) = p - 1 /\ \A i \in 1..p - 1 : a[i] = sids[i]
        BY <2>1, SubSeqProperties
      <3>2. b \in Seq(Clients) /\ Len(b) = Len(sids) - p /\ \A i \in 1..Len(sids) - p : b[i] = sids[p + i]
        BY <2>1, SubSeqProperties
      <3> HIDE DEF a, b
      <3>3. a \o b \in Seq(Clients) /\ Len(a \o b) = Len(sids) - 1
        BY <2>1, <3>1, <3>2, ConcatProperties
      <3>4. ASSUME NEW i \in 1..Len(sids) - 1 PROVE (a \o b)[i] = IF i < p THEN sids[i] ELSE sids[i + 1]
        <4>1. \A k \in 1..Len(a) + Len(b) : (a \o b)[k] = IF k <= Len(a) THEN a[k] ELSE b[k - Len(a)]
          BY <3>1, <3>2, ConcatProperties
        <4>2. Len(a) = p - 1 /\ Len(b) = Len(sids) - p /\ p \in Nat /\ Len(sids) \in Nat /\ i \in Nat
          BY <2>1, <3>1, <3>2
        <4>3. (a \o b)[i] = IF i <= p - 1 THEN a[i] ELSE b[i - (p - 1)]
          BY <2>1, <4>1, <4>2
        <4>4. CASE i < p
          <5>1. (a \o b)[i] = a[i] /\ i \in 1..p - 1
            BY <2>1, <4>2, <4>3, <4>4
          <5>2. QED
            BY <3>1, <4>4, <5>1
        <4>5. CASE ~(i < p)
          <5>1. (a \o b)[i] = b[i - (p - 1)] /\ i - (p - 1) \in 1..Len(sids) - p
            BY <2>1, <4>2, <4>3, <4>5
          <5>2. b[i - (p - 1)] = sids[p + (i - (p - 1))] /\ p + (i - (p - 1)) = i + 1
            BY <2>1, <3>2, <4>2, <5>1
          <5>3. QED
            BY <4>5, <5>1, <5>2
        <4>6. QED
          BY <4>4, <4>5
      <3>5. QED
        BY <3>3, <3>4 DEF a, b
    <2> HIDE DEF new
    <2>4. DOMAIN new = 1..Len(sids) - 1 /\ DOMAIN sids = 1..Len(sids) /\ Len(sids) \in Nat
      BY <2>3
    <2>10. \A i \in 1..Len(sids) - 1 : new[i] = IF i < p THEN sids[i] ELSE sids[i + 1]
      BY <2>3
    <2>9. \A i, j \in 1..Len(sids) : i < j => last[sids[i]] < last[sids[j]]
      BY <2>4
    <2>5. \A i \in 1..Len(sids) : sids[i] \in Clients
      OBVIOUS
    <2>6. ASSUME NEW i \in DOMAIN new PROVE new[i] # s /\ \E j \in DOMAIN sids : sids[j] = new[i]
      <3>1. CASE i < p
        <4>1. new[i] = sids[i] /\ i \in DOMAIN sids /\ last[sids[i]] < last[sids[p]]
          BY <2>1, <2>4, <2>9, <2>10, <3>1
        <4>2. last[sids[i]] \in Nat /\ last[sids[p]] \in Nat
          BY <2>1, <2>4, <2>5, <4>1
        <4>3. QED
          BY <2>1, <4>1, <4>2
      <3>2. CASE ~(i < p)
        <4>1. new[i] = sids[i + 1] /\ i + 1 \in DOMAIN sids /\ last[sids[p]] < last[sids[i + 1]]
          <5>3. i \in 1..Len(sids) - 1
            BY <2>4
          <5>1. i + 1 \in 1..Len(sids) /\ p < i + 1
            BY <2>1, <2>4, <3>2, <5>3
          <5>2. QED
            BY <2>1, <2>4, <2>9, <2>10, <3>2, <5>3, <5>1
        <4>2. last[sids[i + 1]] \in Nat /\ last[sids[p]] \in Nat
          BY <2>1, <2>4, <2>5, <4>1
        <4>3. QED
          BY <2>1, <4>1, <4>2
      <3>3. QED
        BY <3>1, <3>2
    <2>7. ASSUME NEW i \in DOMAIN new, NEW j \in DOMAIN new, i < j PROVE last[new[i]] < last[new[j]]
      <3> DEFINE k == IF i < p THEN i ELSE i + 1
                 m == IF j < p THEN j ELSE j + 1
      <3>1. k \in DOMAIN sids /\ m \in DOMAIN sids /\ k < m /\ new[i] = sids[k] /\ new[j] = sids[m]
        <4>1. i \in 1..Len(sids) - 1 /\ j \in 1..Len(sids) - 1
          BY <2>4
        <4>2. k \in 1..Len(sids) /\ m \in 1..Len(sids) /\ k < m
          <5>1. k \in 1..Len(sids)
            BY <2>1, <2>4, <4>1
          <5>2. m \in 1..Len(sids)
            BY <2>1, <2>4, <4>1
          <5>3. k < m
            BY <2>1, <2>4, <2>7, <4>1
          <5>4. QED
            BY <5>1, <5>2, <5>3
        <4>3. new[i] = sids[k] /\ new[j] = sids[m]
          BY <2>10, <4>1
        <4>4. QED
          BY <2>4, <4>2, <4>3
      <3>2. QED
        BY <3>1
    <2>8. QED
      BY <2>2, <2>3, <2>6, <2>7
  <1>3. QED
    BY <1>1, <1>2

\* The keys that are left, and one that was just used at their end, are in the
\* order of their last uses.
LEMMA BackgroundAppended ==
  ASSUME NEW s \in Clients, NEW sids \in Seq(Clients), NEW last \in [Clients -> Nat], NEW n \in Nat,
         \A i \in DOMAIN sids : sids[i] # s /\ last[sids[i]] < n,
         \A i, j \in DOMAIN sids : i < j => last[sids[i]] < last[sids[j]]
  PROVE  /\ Append(sids, s) \in Seq(Clients)
         /\ \A i, j \in DOMAIN Append(sids, s) :
               i < j => [last EXCEPT ![s] = n][Append(sids, s)[i]] < [last EXCEPT ![s] = n][Append(sids, s)[j]]
  <1> DEFINE new == Append(sids, s)
             next == [last EXCEPT ![s] = n]
  <1>1. /\ new \in Seq(Clients) /\ Len(new) = Len(sids) + 1 /\ DOMAIN new = 1..Len(sids) + 1
        /\ new[Len(sids) + 1] = s /\ \A i \in 1..Len(sids) : new[i] = sids[i]
    OBVIOUS
  <1>2. DOMAIN sids = 1..Len(sids) /\ Len(sids) \in Nat /\ \A i \in 1..Len(sids) : sids[i] \in Clients
    OBVIOUS
  <1>3. next[s] = n /\ \A i \in 1..Len(sids) : next[sids[i]] = last[sids[i]]
    BY <1>2
  <1> HIDE DEF new, next
  <1>4. ASSUME NEW i \in DOMAIN new, NEW j \in DOMAIN new, i < j PROVE next[new[i]] < next[new[j]]
    <2>1. i \in 1..Len(sids) /\ new[i] = sids[i] /\ next[new[i]] = last[sids[i]]
      BY <1>1, <1>2, <1>3, <1>4
    <2>2. CASE j = Len(sids) + 1
      BY <1>1, <1>2, <1>3, <2>1, <2>2
    <2>3. CASE j # Len(sids) + 1
      <3>1. j \in 1..Len(sids) /\ new[j] = sids[j] /\ next[new[j]] = last[sids[j]]
        BY <1>1, <1>2, <1>3, <2>3
      <3>2. QED
        BY <1>2, <1>4, <2>1, <3>1
    <2>4. QED
      BY <2>2, <2>3
  <1>5. QED
    BY <1>1, <1>4 DEF new, next

\* Of more keys than MaxSessions, the first has MaxSessions others that were used
\* after it.
LEMMA BackgroundHead ==
  ASSUME Background!TypeOK, Background!OrderedByUse, Len(v1) > MaxSessions
  PROVE  Cardinality(Background!UsedLater(Head(v1))) >= MaxSessions
  <1> DEFINE rest == 2..Len(v1)
             later == Background!UsedLater(Head(v1))
             all == {v1[i] : i \in 1..Len(v1)}
             f == [i \in rest |-> v1[i]]
             g == [i \in 1..Len(v1) |-> v1[i]]
  <1>1. /\ v1 \in Seq(Clients) /\ Len(v1) \in Nat /\ MaxSessions \in Nat /\ DOMAIN v1 = 1..Len(v1)
        /\ Head(v1) = v1[1] /\ \A i \in 1..Len(v1) : v1[i] \in Clients /\ v6[v1[i]] \in Nat
    BY TasksAssumption DEF Background!TypeOK
  <1>2. \A i, j \in 1..Len(v1) : i < j => v6[v1[i]] < v6[v1[j]]
    BY <1>1 DEF Background!OrderedByUse
  <1>3. IsFiniteSet(all)
    <2>1. g \in Surjection(1..Len(v1), all)
      BY DEF Surjection
    <2>2. IsFiniteSet(1..Len(v1))
      <3>1. 1 \in Int /\ Len(v1) \in Int
        BY <1>1
      <3>2. QED
        BY <3>1, FS_Interval
    <2> HIDE DEF all, g
    <2>3. QED
      BY <2>1, <2>2, FS_Surjection
  <1>4. later \in SUBSET all
    BY <1>1 DEF Background!UsedLater, Background!ToSet
  <1>5. IsFiniteSet(later) /\ Cardinality(later) \in Nat
    <2> HIDE DEF all, later
    <2>1. QED
      BY <1>3, <1>4, FS_Subset, FS_CardinalityType
  <1>6. f \in [rest -> later]
    <2>1. ASSUME NEW i \in rest PROVE v1[i] \in later
      BY <1>1, <1>2 DEF Background!UsedLater, Background!ToSet
    <2>2. QED
      BY <2>1
  <1>7. f \in Injection(rest, later)
    <2>1. ASSUME NEW i \in rest, NEW j \in rest, f[i] = f[j] PROVE i = j
      <3>1. v1[i] = v1[j] /\ i \in 1..Len(v1) /\ j \in 1..Len(v1)
        BY <1>1, <2>1
      <3>2. v6[v1[i]] \in Nat /\ ~(v6[v1[i]] < v6[v1[j]]) /\ ~(v6[v1[j]] < v6[v1[i]])
        BY <1>1, <3>1
      <3>3. ~(i < j) /\ ~(j < i)
        BY <1>2, <3>1, <3>2
      <3>4. QED
        BY <1>1, <3>1, <3>3
    <2>2. QED
      BY <1>6, <2>1 DEF Injection, IsInjective
  <1>8. Cardinality(rest) = Len(v1) - 1 /\ Cardinality(rest) <= Cardinality(later)
    <2>1. Cardinality(rest) = Len(v1) - 1
      <3>1. 2 \in Int /\ Len(v1) \in Int /\ Len(v1) >= 1
        BY <1>1
      <3>2. Cardinality(2..Len(v1)) = IF 2 > Len(v1) THEN 0 ELSE Len(v1) - 2 + 1
        BY <3>1, FS_Interval
      <3>3. QED
        BY <3>1, <3>2
    <2> HIDE DEF f, rest, later
    <2>2. Cardinality(rest) <= Cardinality(later)
      BY <1>5, <1>7, FS_Injection
    <2>3. QED
      BY <2>1, <2>2
  <1> HIDE DEF rest, later
  <1>9. QED
    BY <1>1, <1>5, <1>8 DEF later

\* At first nobody has a task.
LEMMA BackgroundInit == Background!Init => Background!IInv
  <1> SUFFICES ASSUME Background!Init PROVE Background!IInv
    OBVIOUS
  <1> USE DEF Background!Init
  <1>1. Background!TypeOK /\ Background!OrderedByUse /\ Background!OneEach
    BY DEF Background!TypeOK, Background!OrderedByUse, Background!OneEach
  <1>2. Background!OneTooMany
    <2>1. IsFiniteSet({}) /\ Cardinality({}) = 0
      BY FS_EmptySet
    <2>2. Background!IsFiniteSet({}) /\ Background!Cardinality({}) = 0
      BY <2>1, BackgroundSize
    <2>3. \A s \in Clients : v2[s] = {}
      OBVIOUS
    <2>4. 0 <= MaxTasks + 1
      BY TasksAssumption
    <2>5. QED
      BY <2>2, <2>3, <2>4 DEF Background!OneTooMany
  <1>3. QED
    BY <1>1, <1>2 DEF Background!IInv

\* The ids and times of the tasks of a session.
LEMMA BackgroundTask ==
  ASSUME Background!TypeOK, NEW s \in Clients
  PROVE  /\ v2[s] \subseteq Background!Task
         /\ \A rec \in v2[s] : /\ rec.id \in Nat /\ rec.id <= v3
                               /\ rec.updated \in Nat /\ rec.updated <= v4
  BY DEF Background!TypeOK, Background!Task

\* The tasks of all sessions when those of one become others.
LEMMA BackgroundBucket ==
  ASSUME Background!IInv, NEW s \in Clients, NEW b,
         v2' = [v2 EXCEPT ![s] = b], v3' \in Nat, v3 <= v3', v4' \in Nat, v4 <= v4',
         \A rec \in b : rec \in Background!Task',
         \A rec, other \in b : rec.id = other.id => rec = other,
         IsFiniteSet(b), Cardinality(b) <= MaxTasks + 1
  PROVE  /\ v2' \in [Clients -> SUBSET Background!Task']
         /\ Background!OneEach' /\ Background!OneTooMany'
  <1>1. Background!TypeOK /\ Background!OneEach /\ Background!OneTooMany
    BY DEF Background!IInv
  <1>2. v2'[s] = b /\ \A r \in Clients : r # s => v2'[r] = v2[r]
    BY <1>1 DEF Background!TypeOK
  <1>3. Background!Task \subseteq Background!Task'
    <2>1. 1..v3 \subseteq 1..v3' /\ 0..v4 \subseteq 0..v4'
      BY <1>1 DEF Background!TypeOK
    <2>2. QED
      BY <2>1 DEF Background!Task
  <1>4. v2' \in [Clients -> SUBSET Background!Task']
    <2>1. \A r \in Clients : v2[r] \subseteq Background!Task
      BY <1>1, BackgroundTask
    <2>2. b \in SUBSET Background!Task'
      OBVIOUS
    <2>3. \A r \in Clients : v2'[r] \in SUBSET Background!Task'
      BY <1>2, <1>3, <2>1, <2>2
    <2>4. v2' = [r \in Clients |-> v2'[r]]
      BY <1>1 DEF Background!TypeOK
    <2>5. QED
      BY <2>3, <2>4
  <1>5. Background!OneEach'
    BY <1>1, <1>2 DEF Background!OneEach
  <1>6. Background!OneTooMany'
    BY <1>1, <1>2, BackgroundSize DEF Background!OneTooMany
  <1>7. QED
    BY <1>4, <1>5, <1>6

\* A session that is used goes to the end of the keys, or is no key.
LEMMA BackgroundTouched ==
  ASSUME Background!TypeOK, NEW s \in Clients, NEW sids \in Seq(Clients), Background!Use(s),
         \A i, j \in DOMAIN sids : i < j => v6[sids[i]] < v6[sids[j]]
  PROVE  /\ v5' \in Nat /\ v6' \in [Clients -> 0..v5']
         /\ LET new == Background!touch_session_order(s, sids) IN
            /\ new \in Seq(Clients)
            /\ \A i, j \in DOMAIN new : i < j => v6'[new[i]] < v6'[new[j]]
            /\ LET ended == Background!Without(s, new) IN
               /\ ended \in Seq(Clients)
               /\ \A i, j \in DOMAIN ended : i < j => v6'[ended[i]] < v6'[ended[j]]
  <1> DEFINE new == Background!touch_session_order(s, sids)
             ended == Background!Without(s, new)
  <1>1. v5 \in Nat /\ v6 \in [Clients -> Nat] /\ \A r \in Clients : v6[r] \in Nat /\ v6[r] < v5 + 1
    BY DEF Background!TypeOK
  <1>2. v5' = v5 + 1 /\ v6' = [v6 EXCEPT ![s] = v5 + 1]
    BY DEF Background!Use
  <1>3. v5' \in Nat /\ v6' \in [Clients -> 0..v5'] /\ v6' \in [Clients -> Nat]
    BY <1>1, <1>2
  <1>4. new \in Seq(Clients) /\ \A i, j \in DOMAIN new : i < j => v6'[new[i]] < v6'[new[j]]
    <2>1. CASE s \in Background!ToSet(sids)
      <3> DEFINE old == Background!Without(s, sids)
      <3>1. /\ old \in Seq(Clients) /\ \A i \in DOMAIN old : old[i] # s
            /\ \A i, j \in DOMAIN old : i < j => v6[old[i]] < v6[old[j]]
        BY <1>1, BackgroundWithout
      <3>2. new = Append(old, s)
        BY <2>1 DEF Background!touch_session_order
      <3> HIDE DEF old, new
      <3>3. \A i \in DOMAIN old : old[i] # s /\ v6[old[i]] < v5 + 1
        BY <1>1, <3>1
      <3>4. v5 + 1 \in Nat
        BY <1>1
      <3>5. QED
        BY <1>1, <1>2, <3>1, <3>2, <3>3, <3>4, BackgroundAppended
    <2>2. CASE s \notin Background!ToSet(sids)
      <3>1. new = sids
        BY <2>2 DEF Background!touch_session_order
      <3>2. \A i \in DOMAIN sids : sids[i] # s /\ sids[i] \in Clients
        BY <2>2 DEF Background!ToSet
      <3>3. \A i \in DOMAIN sids : v6'[sids[i]] = v6[sids[i]]
        BY <1>1, <1>2, <3>2
      <3>4. QED
        BY <3>1, <3>3
    <2>3. QED
      BY <2>1, <2>2
  <1> HIDE DEF new
  <1>5. ended \in Seq(Clients) /\ \A i, j \in DOMAIN ended : i < j => v6'[ended[i]] < v6'[ended[j]]
    BY <1>3, <1>4, BackgroundWithout
  <1>6. QED
    BY <1>3, <1>4, <1>5 DEF new

\* A step that gives a session other tasks.
LEMMA BackgroundChanged ==
  ASSUME Background!IInv, NEW s \in Clients, NEW b,
         v2' = [v2 EXCEPT ![s] = b], v3' = v3, v4' = v4,
         \A rec \in b : rec \in Background!Task,
         \A rec, other \in b : rec.id = other.id => rec = other,
         IsFiniteSet(b), Cardinality(b) <= MaxTasks + 1,
         v1' \in Seq(Clients), v5' \in Nat, v6' \in [Clients -> 0..v5'],
         \A i, j \in DOMAIN v1' : i < j => v6'[v1'[i]] < v6'[v1'[j]]
  PROVE  Background!IInv'
  <1>1. v3 \in Nat /\ v4 \in Nat
    BY DEF Background!IInv, Background!TypeOK
  <1>2. Background!Task' = Background!Task
    BY DEF Background!Task
  <1>3. v2' \in [Clients -> SUBSET Background!Task'] /\ Background!OneEach' /\ Background!OneTooMany'
    <2>1. v3' \in Nat /\ v3 <= v3' /\ v4' \in Nat /\ v4 <= v4'
      BY <1>1
    <2>2. \A rec \in b : rec \in Background!Task'
      BY <1>2
    <2>3. QED
      BY <2>1, <2>2, BackgroundBucket
  <1>4. Background!TypeOK'
    BY <1>1, <1>3 DEF Background!TypeOK
  <1>5. Background!OrderedByUse'
    BY DEF Background!OrderedByUse
  <1>6. QED
    BY <1>3, <1>4, <1>5 DEF Background!IInv

\* What a session keeps of its tasks.
LEMMA BackgroundFewer ==
  ASSUME Background!IInv, NEW s \in Clients, NEW b \in SUBSET v2[s]
  PROVE  /\ \A rec \in b : rec \in Background!Task
         /\ \A rec, other \in b : rec.id = other.id => rec = other
         /\ IsFiniteSet(b) /\ Cardinality(b) <= MaxTasks + 1
         /\ Cardinality(b) \in Nat
  <1>1. v2[s] \subseteq Background!Task
    BY BackgroundTask DEF Background!IInv
  <1>2. \A rec, other \in v2[s] : rec.id = other.id => rec = other
    BY DEF Background!IInv, Background!OneEach
  <1>3. IsFiniteSet(v2[s]) /\ Cardinality(v2[s]) <= MaxTasks + 1
    BY BackgroundSize DEF Background!IInv, Background!OneTooMany
  <1>4. IsFiniteSet(b) /\ Cardinality(b) <= Cardinality(v2[s])
    BY <1>3, FS_Subset
  <1>5. Cardinality(b) \in Nat /\ Cardinality(v2[s]) \in Nat
    BY <1>3, <1>4, FS_CardinalityType
  <1>6. QED
    BY <1>1, <1>2, <1>3, <1>4, <1>5, TasksAssumption

\* What a session's tasks become when they are pruned.
LEMMA BackgroundPrunes ==
  ASSUME Background!IInv, NEW s \in Clients
  PROVE  /\ Background!prune_session_tasks(v2[s]) \in SUBSET v2[s]
         /\ IsFiniteSet(Background!prune_session_tasks(v2[s]))
         /\ Cardinality(Background!prune_session_tasks(v2[s])) <= MaxTasks
         /\ \A rec \in v2[s] : \/ rec \in Background!prune_session_tasks(v2[s])
                               \/ ~Background!Alive(rec)
                               \/ Cardinality(Background!Newer(rec, v2[s])) >= MaxTasks
  <1>1. v2[s] \in SUBSET v2[s]
    OBVIOUS
  <1>2. \A rec \in v2[s] : rec.id \in Nat /\ rec.updated \in Nat
    BY BackgroundTask DEF Background!IInv
  <1>3. \A rec, other \in v2[s] : rec.id = other.id => rec = other
    BY <1>1, BackgroundFewer
  <1>4. IsFiniteSet(v2[s]) /\ Cardinality(v2[s]) <= MaxTasks + 1
    BY <1>1, BackgroundFewer
  <1>5. QED
    BY <1>2, <1>3, <1>4, BackgroundPruned

\* create: the tasks a session keeps, and one more.
LEMMA BackgroundCreates ==
  ASSUME Background!IInv, NEW s \in Clients, Background!create(s)
  PROVE  Background!IInv' /\ Background!OnlyOldestGoes
  <1> DEFINE sids == IF Len(v1) > MaxSessions THEN Tail(v1) ELSE v1
             out == IF Len(v1) > MaxSessions THEN {Head(v1)} ELSE {}
             mine == IF s \in out THEN {} ELSE Background!prune_session_tasks(v2[s])
             new == [id |-> v3', status |-> "pending", updated |-> v4]
             touched == IF s \in Background!ToSet(sids) THEN Background!touch_session_order(s, sids) ELSE Append(sids, s)
  <1>1. /\ v3' = v3 + 1 /\ v4' = v4 /\ Background!Use(s)
        /\ v1' = touched
        /\ v2' = [r \in Clients |-> IF r = s THEN mine \cup {new} ELSE IF r \in out THEN {} ELSE v2[r]]
    BY DEF Background!create
  <1>2. /\ Background!TypeOK /\ Background!OrderedByUse
        /\ v1 \in Seq(Clients) /\ v3 \in Nat /\ v4 \in Nat /\ v5 \in Nat /\ MaxSessions \in Nat /\ MaxTasks \in Nat
        /\ v6 \in [Clients -> 0..v5]
        /\ v5' = v5 + 1 /\ v6' = [v6 EXCEPT ![s] = v5 + 1]
    BY <1>1, TasksAssumption DEF Background!IInv, Background!TypeOK, Background!Use
  <1>3. \A i, j \in DOMAIN v1 : i < j => v6[v1[i]] < v6[v1[j]]
    BY <1>2 DEF Background!OrderedByUse
  <1>4. sids \in Seq(Clients) /\ \A i, j \in DOMAIN sids : i < j => v6[sids[i]] < v6[sids[j]]
    <2>1. CASE Len(v1) > MaxSessions
      <3>1. v1 # <<>>
        BY <1>2, <2>1
      <3>2. /\ Tail(v1) \in Seq(Clients) /\ Len(Tail(v1)) = Len(v1) - 1
            /\ \A i \in 1..Len(Tail(v1)) : Tail(v1)[i] = v1[i + 1]
        BY <1>2, <3>1, HeadTailProperties
      <3>3. DOMAIN v1 = 1..Len(v1) /\ Len(v1) \in Nat /\ DOMAIN Tail(v1) = 1..Len(v1) - 1
        BY <1>2, <3>2
      <3>4. ASSUME NEW i \in 1..Len(v1) - 1, NEW j \in 1..Len(v1) - 1, i < j
            PROVE  v6[Tail(v1)[i]] < v6[Tail(v1)[j]]
        <4>1. i + 1 \in DOMAIN v1 /\ j + 1 \in DOMAIN v1 /\ i + 1 < j + 1
          BY <3>3, <3>4
        <4>2. Tail(v1)[i] = v1[i + 1] /\ Tail(v1)[j] = v1[j + 1]
          BY <3>2, <3>4
        <4>3. QED
          BY <1>3, <4>1, <4>2
      <3>5. QED
        BY <2>1, <3>2, <3>3, <3>4
    <2>2. CASE ~(Len(v1) > MaxSessions)
      BY <1>2, <1>3, <2>2
    <2>3. QED
      BY <2>1, <2>2
  <1> HIDE DEF sids
  <1>5. v5' \in Nat /\ v6' \in [Clients -> 0..v5']
    BY <1>2
  <1>6. v1' \in Seq(Clients) /\ \A i, j \in DOMAIN v1' : i < j => v6'[v1'[i]] < v6'[v1'[j]]
    <2>1. CASE s \in Background!ToSet(sids)
      <3>1. v1' = Background!touch_session_order(s, sids)
        BY <1>1, <2>1
      <3>2. QED
        BY <1>1, <1>2, <1>4, <3>1, BackgroundTouched
    <2>2. CASE s \notin Background!ToSet(sids)
      <3>1. v1' = Append(sids, s)
        BY <1>1, <2>2
      <3>2. v6 \in [Clients -> Nat] /\ v5 + 1 \in Nat
        BY <1>2
      <3>3. \A i \in DOMAIN sids : sids[i] # s /\ v6[sids[i]] < v5 + 1
        <4>1. ASSUME NEW i \in DOMAIN sids PROVE sids[i] # s /\ sids[i] \in Clients
          BY <1>4, <2>2 DEF Background!ToSet
        <4>2. \A r \in Clients : v6[r] < v5 + 1
          BY <1>2
        <4>3. QED
          BY <4>1, <4>2
      <3>4. QED
        BY <1>2, <1>4, <3>1, <3>2, <3>3, BackgroundAppended
    <2>3. QED
      BY <2>1, <2>2
  <1>7. /\ mine \in SUBSET v2[s] /\ IsFiniteSet(mine) /\ Cardinality(mine) <= MaxTasks
        /\ s \notin out => \A rec \in v2[s] : \/ rec \in mine
                                              \/ ~Background!Alive(rec)
                                              \/ Cardinality(Background!Newer(rec, v2[s])) >= MaxTasks
    <2>1. CASE s \in out
      BY <1>2, <2>1, FS_EmptySet
    <2>2. CASE s \notin out
      BY <2>2, BackgroundPrunes
    <2>3. QED
      BY <2>1, <2>2
  <1> HIDE DEF mine, out
  <1>8. new \in Background!Task' /\ new.id = v3 + 1
    BY <1>1, <1>2 DEF Background!Task
  <1> HIDE DEF new
  <1>9. Background!Task \subseteq Background!Task'
    <2>1. 1..v3 \subseteq 1..v3' /\ 0..v4 \subseteq 0..v4'
      BY <1>1, <1>2
    <2>2. QED
      BY <2>1 DEF Background!Task
  <1>10. /\ v2'[s] = mine \cup {new}
         /\ \A r \in Clients : r # s => v2'[r] = {} \/ v2'[r] = v2[r]
    BY <1>1
  <1>11. \A r \in Clients : v2[r] \subseteq Background!Task /\ v2[r] \in SUBSET v2[r]
    BY <1>2, BackgroundTask
  <1>12. v2' \in [Clients -> SUBSET Background!Task']
    <2>1. \A r \in Clients : v2'[r] \in SUBSET Background!Task'
      BY <1>7, <1>8, <1>9, <1>10, <1>11
    <2>2. v2' = [r \in Clients |-> v2'[r]]
      BY <1>1
    <2>3. QED
      BY <2>1, <2>2
  <1>13. Background!OneEach'
    <2>1. ASSUME NEW rec \in mine \cup {new}, NEW other \in mine \cup {new}, rec.id = other.id PROVE rec = other
      <3>1. \A r \in mine : r.id \in Nat /\ r.id <= v3
        BY <1>2, <1>7, BackgroundTask
      <3>2. \A r, o \in mine : r.id = o.id => r = o
        BY <1>7, BackgroundFewer
      <3>3. QED
        BY <1>2, <1>8, <2>1, <3>1, <3>2
    <2>2. \A r \in Clients : \A rec, other \in v2[r] : rec.id = other.id => rec = other
      BY DEF Background!IInv, Background!OneEach
    <2>3. QED
      BY <1>10, <2>1, <2>2 DEF Background!OneEach
  <1>14. Background!OneTooMany'
    <2>1. IsFiniteSet(mine \cup {new}) /\ Cardinality(mine \cup {new}) <= MaxTasks + 1
      <3>1. /\ IsFiniteSet(mine \cup {new})
            /\ Cardinality(mine \cup {new}) = IF new \in mine THEN Cardinality(mine) ELSE Cardinality(mine) + 1
        BY <1>7, FS_AddElement
      <3>2. Cardinality(mine) \in Nat
        BY <1>7, FS_CardinalityType
      <3>3. QED
        BY <1>2, <1>7, <3>1, <3>2
    <2>2. ASSUME NEW r \in Clients, r # s PROVE IsFiniteSet(v2'[r]) /\ Cardinality(v2'[r]) <= MaxTasks + 1
      <3>1. v2'[r] \in SUBSET v2[r]
        BY <1>10, <2>2
      <3>2. QED
        BY <3>1, BackgroundFewer
    <2>3. \A r \in Clients : IsFiniteSet(v2'[r]) /\ Cardinality(v2'[r]) <= MaxTasks + 1
      BY <1>10, <2>1, <2>2
    <2>4. QED
      BY <2>3, BackgroundSize DEF Background!OneTooMany
  <1>15. Background!IInv'
    <2>1. Background!TypeOK'
      BY <1>1, <1>2, <1>5, <1>6, <1>12 DEF Background!TypeOK
    <2>2. Background!OrderedByUse'
      BY <1>6 DEF Background!OrderedByUse
    <2>3. QED
      BY <1>13, <1>14, <2>1, <2>2 DEF Background!IInv
  <1>16. Background!OnlyOldestGoes
    <2> SUFFICES ASSUME NEW r \in Clients, NEW rec \in v2[r]
                 PROVE  \/ \E o \in v2'[r] : o.id = rec.id
                        \/ ~Background!Alive(rec)
                        \/ Background!Cardinality(Background!Newer(rec, v2[r])) >= MaxTasks
                        \/ Background!Cardinality(Background!UsedLater(r)) >= MaxSessions
      BY DEF Background!OnlyOldestGoes
    <2>1. CASE r \in out
      <3>1. Len(v1) > MaxSessions /\ r = Head(v1)
        BY <2>1 DEF out
      <3>2. QED
        BY <1>2, <3>1, BackgroundHead, BackgroundSize
    <2>2. CASE r = s /\ r \notin out
      BY <1>7, <1>10, <2>2, BackgroundSize
    <2>3. CASE r # s /\ r \notin out
      <3>1. v2'[r] = v2[r]
        BY <1>1, <2>3
      <3>2. QED
        BY <3>1
    <2>4. QED
      BY <2>1, <2>2, <2>3
  <1>17. QED
    BY <1>15, <1>16

\* set_result and set_error: one task has another status and time.
LEMMA BackgroundFinishes ==
  ASSUME Background!IInv, NEW s \in Clients, NEW status \in {"ready", "error"}, Background!Finish(s, status)
  PROVE  Background!IInv' /\ Background!OnlyOldestGoes
  <1>1. PICK rec \in v2[s] :
           v2' = [v2 EXCEPT ![s] = (v2[s] \ {rec}) \cup {[id |-> rec.id, status |-> status, updated |-> v4]}]
    BY DEF Background!Finish
  <1> DEFINE new == [id |-> rec.id, status |-> status, updated |-> v4]
             rest == v2[s] \ {rec}
             b == rest \cup {new}
  <1>2. v1' = Background!touch_session_order(s, v1) /\ Background!Use(s) /\ v3' = v3 /\ v4' = v4
    BY DEF Background!Finish
  <1>3. /\ Background!TypeOK /\ v1 \in Seq(Clients) /\ v4 \in Nat /\ v3 \in Nat
        /\ v2 \in [Clients -> SUBSET Background!Task]
        /\ \A i, j \in DOMAIN v1 : i < j => v6[v1[i]] < v6[v1[j]]
    BY DEF Background!IInv, Background!TypeOK, Background!OrderedByUse
  <1>4. new \in Background!Task /\ new.id = rec.id
    <2>1. rec \in Background!Task
      BY <1>3
    <2>2. rec.id \in 1..v3
      BY <2>1 DEF Background!Task
    <2>3. v4 \in 0..v4 /\ status \in {"pending", "ready", "error"}
      BY <1>3
    <2>4. QED
      BY <2>2, <2>3 DEF Background!Task
  <1> HIDE DEF new
  <1>5. \A r \in rest : r \in Background!Task /\ r.id # rec.id
    <2>1. \A r, o \in v2[s] : r.id = o.id => r = o
      BY DEF Background!IInv, Background!OneEach
    <2>2. QED
      BY <1>3, <2>1
  <1>6. \A r, o \in b : r.id = o.id => r = o
    <2>1. \A r, o \in rest : r.id = o.id => r = o
      BY DEF Background!IInv, Background!OneEach
    <2>2. QED
      BY <1>4, <1>5, <2>1
  <1>7. IsFiniteSet(b) /\ Cardinality(b) <= MaxTasks + 1
    <2>1. IsFiniteSet(v2[s]) /\ Cardinality(v2[s]) <= MaxTasks + 1
      <3>1. v2[s] \in SUBSET v2[s]
        OBVIOUS
      <3>2. QED
        BY <3>1, BackgroundFewer
    <2>2. IsFiniteSet(rest) /\ Cardinality(rest) = Cardinality(v2[s]) - 1
      BY <2>1, FS_RemoveElement
    <2>3. IsFiniteSet(b) /\ Cardinality(b) = IF new \in rest THEN Cardinality(rest) ELSE Cardinality(rest) + 1
      BY <2>2, FS_AddElement
    <2>4. Cardinality(v2[s]) \in Nat /\ Cardinality(rest) \in Nat /\ MaxTasks \in Nat
      BY <2>1, <2>2, FS_CardinalityType, TasksAssumption
    <2>5. QED
      BY <2>1, <2>2, <2>3, <2>4
  <1>8. /\ v5' \in Nat /\ v6' \in [Clients -> 0..v5'] /\ v1' \in Seq(Clients)
        /\ \A i, j \in DOMAIN v1' : i < j => v6'[v1'[i]] < v6'[v1'[j]]
    BY <1>2, <1>3, BackgroundTouched
  <1>9. v2' = [v2 EXCEPT ![s] = b] /\ \A r \in b : r \in Background!Task
    BY <1>1, <1>4, <1>5 DEF new
  <1>10. Background!OnlyOldestGoes
    <2>1. v2'[s] = b /\ \A r \in Clients : r # s => v2'[r] = v2[r]
      BY <1>3, <1>9
    <2>2. \A old \in v2[s] : \E o \in b : o.id = old.id
      BY <1>4
    <2>3. QED
      BY <2>1, <2>2 DEF Background!OnlyOldestGoes
  <1> HIDE DEF b
  <1>11. QED
    BY <1>2, <1>6, <1>7, <1>8, <1>9, <1>10, BackgroundChanged

\* get: what is pruned is too old, or the oldest of too many.
LEMMA BackgroundGets ==
  ASSUME Background!IInv, NEW s \in Clients, Background!get(s)
  PROVE  Background!IInv' /\ Background!OnlyOldestGoes
  <1> DEFINE b == Background!prune_session_tasks(v2[s])
  <1>1. v2' = [v2 EXCEPT ![s] = b] /\ v1' = v1 /\ v3' = v3 /\ v4' = v4 /\ v5' = v5 /\ v6' = v6
    BY DEF Background!get
  <1>2. /\ v1 \in Seq(Clients) /\ v5 \in Nat /\ v6 \in [Clients -> 0..v5]
        /\ v2 \in [Clients -> SUBSET Background!Task]
        /\ \A i, j \in DOMAIN v1 : i < j => v6[v1[i]] < v6[v1[j]]
    BY DEF Background!IInv, Background!TypeOK, Background!OrderedByUse
  <1>3. /\ b \in SUBSET v2[s]
        /\ \A rec \in v2[s] : \/ rec \in b
                              \/ ~Background!Alive(rec)
                              \/ Cardinality(Background!Newer(rec, v2[s])) >= MaxTasks
    BY BackgroundPrunes
  <1> HIDE DEF b
  <1>4. /\ \A rec \in b : rec \in Background!Task
        /\ \A rec, other \in b : rec.id = other.id => rec = other
        /\ IsFiniteSet(b) /\ Cardinality(b) <= MaxTasks + 1
    BY <1>3, BackgroundFewer
  <1>5. Background!IInv'
    BY <1>1, <1>2, <1>4, BackgroundChanged
  <1>6. Background!OnlyOldestGoes
    <2>1. v2'[s] = b /\ \A r \in Clients : r # s => v2'[r] = v2[r]
      BY <1>1, <1>2
    <2>2. QED
      BY <1>3, <2>1, BackgroundSize DEF Background!OnlyOldestGoes
  <1>7. QED
    BY <1>5, <1>6

\* pop and pop_ready_result: a task leaves, and perhaps its session's key.
LEMMA BackgroundTakes ==
  ASSUME Background!IInv, Background!Taking
  PROVE  Background!IInv'
  <1>1. PICK s \in Clients : Background!pop(s) \/ Background!pop_ready_result(s)
    BY DEF Background!Taking
  <1>2. PICK rec \in v2[s] :
           /\ Background!Taken(s, rec)
           /\ \/ v1' = Background!Emptied(s, v1) /\ v5' = v5 /\ v6' = v6
              \/ v1' = Background!Emptied(s, Background!touch_session_order(s, v1)) /\ Background!Use(s)
    BY <1>1 DEF Background!pop, Background!pop_ready_result
  <1> DEFINE b == v2[s] \ {rec}
  <1>3. v2' = [v2 EXCEPT ![s] = b] /\ v3' = v3 /\ v4' = v4
    BY <1>2 DEF Background!Taken
  <1>4. /\ Background!TypeOK /\ v1 \in Seq(Clients) /\ v5 \in Nat /\ v6 \in [Clients -> 0..v5]
        /\ v6 \in [Clients -> Nat]
        /\ \A i, j \in DOMAIN v1 : i < j => v6[v1[i]] < v6[v1[j]]
    BY DEF Background!IInv, Background!TypeOK, Background!OrderedByUse
  <1>5. /\ \A r \in b : r \in Background!Task
        /\ \A r, other \in b : r.id = other.id => r = other
        /\ IsFiniteSet(b) /\ Cardinality(b) <= MaxTasks + 1
    <2>1. b \in SUBSET v2[s]
      OBVIOUS
    <2> HIDE DEF b
    <2>2. QED
      BY <2>1, BackgroundFewer
  <1> HIDE DEF b
  <1>6. /\ v5' \in Nat /\ v6' \in [Clients -> 0..v5'] /\ v1' \in Seq(Clients)
        /\ \A i, j \in DOMAIN v1' : i < j => v6'[v1'[i]] < v6'[v1'[j]]
    <2>1. CASE v1' = Background!Emptied(s, v1) /\ v5' = v5 /\ v6' = v6
      <3>1. v1' = v1 \/ v1' = Background!Without(s, v1)
        BY <2>1 DEF Background!Emptied
      <3>2. CASE v1' = v1
        BY <1>4, <2>1, <3>2
      <3>3. CASE v1' = Background!Without(s, v1)
        BY <1>4, <2>1, <3>3, BackgroundWithout
      <3>4. QED
        BY <3>1, <3>2, <3>3
    <2>2. CASE v1' = Background!Emptied(s, Background!touch_session_order(s, v1)) /\ Background!Use(s)
      <3>1. \/ v1' = Background!touch_session_order(s, v1)
            \/ v1' = Background!Without(s, Background!touch_session_order(s, v1))
        BY <2>2 DEF Background!Emptied
      <3>2. QED
        BY <1>4, <2>2, <3>1, BackgroundTouched
    <2>3. QED
      BY <1>2, <2>1, <2>2
  <1>7. QED
    BY <1>3, <1>5, <1>6, BackgroundChanged

\* Time passes: no task changes.
LEMMA BackgroundTicks ==
  ASSUME Background!IInv, Background!Tick
  PROVE  Background!IInv' /\ Background!OnlyOldestGoes
  <1>1. v4' = v4 + 1 /\ v1' = v1 /\ v2' = v2 /\ v3' = v3 /\ v5' = v5 /\ v6' = v6
    BY DEF Background!Tick
  <1>2. Background!TypeOK'
    <2>1. v4 \in Nat
      BY DEF Background!IInv, Background!TypeOK
    <2>2. 0..v4 \subseteq 0..v4'
      BY <1>1, <2>1
    <2>3. Background!Task \subseteq Background!Task'
      BY <1>1, <2>2 DEF Background!Task
    <2>4. v2' \in [Clients -> SUBSET Background!Task']
      BY <1>1, <2>3 DEF Background!IInv, Background!TypeOK
    <2>5. QED
      BY <1>1, <2>1, <2>4 DEF Background!IInv, Background!TypeOK
  <1>3. Background!OrderedByUse'
    BY <1>1 DEF Background!IInv, Background!OrderedByUse
  <1>4. Background!OneEach'
    BY <1>1 DEF Background!IInv, Background!OneEach
  <1>5. Background!OneTooMany'
    BY <1>1 DEF Background!IInv, Background!OneTooMany
  <1>6. Background!OnlyOldestGoes
    BY <1>1 DEF Background!OnlyOldestGoes
  <1>7. QED
    BY <1>2, <1>3, <1>4, <1>5, <1>6 DEF Background!IInv

\* Every step keeps the invariant of the registry, and only what is old, or too much,
\* or taken leaves it.
LEMMA BackgroundStep ==
  ASSUME Background!IInv, [Background!Next]_(Background!vars)
  PROVE  Background!IInv' /\ Background!OnlyOldestGoes
  <1>1. CASE UNCHANGED Background!vars
    <2>1. v1' = v1 /\ v2' = v2 /\ v3' = v3 /\ v4' = v4 /\ v5' = v5 /\ v6' = v6
      BY <1>1 DEF Background!vars
    <2>2. Background!TypeOK'
      BY <2>1 DEF Background!IInv, Background!TypeOK, Background!Task
    <2>3. Background!OrderedByUse' /\ Background!OneEach'
      BY <2>1 DEF Background!IInv, Background!OrderedByUse, Background!OneEach
    <2>4. Background!OneTooMany'
      BY <2>1 DEF Background!IInv, Background!OneTooMany
    <2>5. Background!OnlyOldestGoes
      BY <2>1 DEF Background!OnlyOldestGoes
    <2>6. QED
      BY <2>2, <2>3, <2>4, <2>5 DEF Background!IInv
  <1>2. ASSUME NEW s \in Clients, Background!create(s) PROVE Background!IInv' /\ Background!OnlyOldestGoes
    BY <1>2, BackgroundCreates
  <1>3. ASSUME NEW s \in Clients, Background!set_result(s) \/ Background!set_error(s)
        PROVE  Background!IInv' /\ Background!OnlyOldestGoes
    BY <1>3, BackgroundFinishes DEF Background!set_result, Background!set_error
  <1>4. ASSUME NEW s \in Clients, Background!get(s) PROVE Background!IInv' /\ Background!OnlyOldestGoes
    BY <1>4, BackgroundGets
  <1>5. CASE Background!Taking
    <2>1. Background!IInv'
      BY <1>5, BackgroundTakes
    <2>2. Background!OnlyOldestGoes
      BY <1>5 DEF Background!OnlyOldestGoes
    <2>3. QED
      BY <2>1, <2>2
  <1>6. CASE Background!Tick
    BY <1>6, BackgroundTicks
  <1>7. QED
    BY <1>1, <1>2, <1>3, <1>4, <1>5, <1>6 DEF Background!Next

-----------------------------------------------------------------------------
(***************************************************************************)
(* The module that runs the components                                     *)
(***************************************************************************)
\* What is unchanged for all components is unchanged for each.
LEMMA Stutters ==
  UNCHANGED vars =>
    /\ UNCHANGED part
    /\ UNCHANGED Context!vars
    /\ UNCHANGED Scheduler!vars
    /\ UNCHANGED Loop!vars
    /\ UNCHANGED Background!vars
    /\ UNCHANGED Project!vars
    /\ UNCHANGED Rotation!vars
    /\ UNCHANGED Migrate!vars
    /\ UNCHANGED Calls!vars
    /\ UNCHANGED Processes!vars
  BY DEF vars, Context!vars, Scheduler!vars, Loop!vars, Background!vars, Project!vars,
         Rotation!vars, Migrate!vars, Calls!vars, Processes!vars

\* The component is chosen at the start, and only that component takes steps.
LEMMA StepIsOfPart ==
  ASSUME [Next]_vars
  PROVE  /\ part' = part
         /\ part = "Context" => [Context!Next]_(Context!vars)
         /\ part = "Scheduler" => [Scheduler!Next]_(Scheduler!vars)
         /\ part = "Loop" => [Loop!Next]_(Loop!vars)
         /\ part = "Background" => [Background!Next]_(Background!vars)
         /\ part = "Project" => [Project!Next]_(Project!vars)
         /\ part = "Rotation" => [Rotation!Next]_(Rotation!vars)
         /\ part = "Migrate" => [Migrate!Next]_(Migrate!vars)
         /\ part = "Calls" => [Calls!Next]_(Calls!vars)
         /\ part = "Processes" => [Processes!Next]_(Processes!vars)
  BY Stutters
     DEF Next, ContextRuns, SchedulerRuns, LoopRuns, BackgroundRuns, ProjectRuns,
         RotationRuns, MigrateRuns, CallsRuns, ProcessesRuns

\* After a rotation one password opens everything, whenever it was stopped, the
\* core restarted or a token was set, for any number of users and rotations.
THEOREM RotationOpensAll == Spec => []SecretOpensAll
  <1> DEFINE Inv == part = "Rotation" => Rotation!IInv
  <1>1. Init => Inv
    BY RotationInit DEF Init
  <1>2. Inv /\ [Next]_vars => Inv'
    BY RotationStep, StepIsOfPart
  <1>3. Inv => SecretOpensAll
    BY DEF SecretOpensAll, Rotation!SecretOpensAll, Rotation!IInv, Rotation!OpensAtEachPlace,
           Rotation!Settled, Rotation!At
  <1>4. QED
    BY <1>1, <1>2, <1>3, PTL DEF Spec

\* A row that says running is the run that goes on, or one that a stop cut off;
\* a worker that is alive without its child was left by a child that was killed;
\* for any numbers of jobs, runs, workers and restarts.
THEOREM RunningIsExplained == Spec => []RunningExplained
  <1> DEFINE Inv == /\ part = "Scheduler" => Scheduler!IInv
                    /\ part = "Processes" => Processes!IInv
  <1>1. Init => Inv
    BY SchedulerInit, ProcessesInit DEF Init
  <1>2. Inv /\ [Next]_vars => Inv'
    BY SchedulerStep, ProcessesStep, StepIsOfPart
  <1>3. Inv => RunningExplained
    <2>1. Scheduler!IInv => Scheduler!RunningExplained
      BY DEF Scheduler!IInv, Scheduler!TypeOK, Scheduler!RunningGoesOn, Scheduler!RunningExplained
    <2>2. QED
      BY <2>1, ProcessesExplained DEF RunningExplained
  <1>4. QED
    BY <1>1, <1>2, <1>3, PTL DEF Spec

\* No change on the disk waits longer for a find than the settings say, for any
\* subtrees and intervals.
THEOREM ChangesAreTried == Spec => []ChangeIsTried
  <1> DEFINE Inv == part = "Loop" => Loop!IInv
  <1>1. Init => Inv
    BY LoopInit DEF Init
  <1>2. Inv /\ [Next]_vars => Inv'
    BY LoopStep, StepIsOfPart
  <1>3. Inv => ChangeIsTried
    BY LoopTried DEF ChangeIsTried
  <1>4. QED
    BY <1>1, <1>2, <1>3, PTL DEF Spec

\* A post works in a project its user had selected, the edits of its answer go
\* there too, and every manager has the name of its row, for any number of
\* sessions, projects, posts and restarts.
THEOREM PostsStayInTheirProject == Spec => []PostsKeepTheirProject
  <1> DEFINE Inv == part = "Project" => Project!IInv
  <1>1. Init => Inv
    BY ProjectInit DEF Init
  <1>2. Inv /\ [Next]_vars => Inv'
    BY ProjectStep, StepIsOfPart
  <1>3. Inv => PostsKeepTheirProject
    BY DEF Project!IInv, PostsKeepTheirProject
  <1>4. QED
    BY <1>1, <1>2, <1>3, PTL DEF Spec

\* A migration that ended has every old row once or the core's own with its id,
\* and no id the core is given next is in use, for any tables, any number of
\* runs that were stopped and any inserts of the core between.
THEOREM MigrationKeepsRows == Spec => []MigrationIsWhole
  <1> DEFINE Inv == part = "Migrate" => Migrate!IInv
  <1>1. Init => Inv
    BY MigrateInit DEF Init
  <1>2. Inv /\ [Next]_vars => Inv'
    BY MigrateStep, StepIsOfPart
  <1>3. Inv => MigrationIsWhole
    BY MigrateWhole DEF MigrationIsWhole
  <1>4. QED
    BY <1>1, <1>2, <1>3, PTL DEF Spec

\* What a model is sent is what its turn collected, whatever was reused, edited,
\* deleted or lost before; an answer is that of its own turn and counted once;
\* for any number of sessions, posts, edits, turns and faults.
THEOREM TurnsStayTrue == Spec => []TurnsAreTrue
  <1> DEFINE Inv == /\ part = "Context" => Context!IInv
                    /\ part = "Calls" => Calls!IInv
  <1>1. Init => Inv
    BY ContextInit, CallsInit DEF Init
  <1>2. Inv /\ [Next]_vars => Inv'
    BY ContextStep, CallsStep, StepIsOfPart
  <1>3. Inv => TurnsAreTrue
    BY DEF Context!IInv, Calls!IInv, TurnsAreTrue
  <1>4. QED
    BY <1>1, <1>2, <1>3, PTL DEF Spec

\* A context that is sent as DELTA_SAFE extends the one its session was sent
\* before, for any number of sessions, posts, edits, turns and restarts.
THEOREM DeltaAlwaysExtends == Spec => DeltaExtends
  <1> DEFINE Inv == part = "Context" => Context!IInv
  <1>1. Init => Inv
    BY ContextInit DEF Init
  <1>2. Inv /\ [Next]_vars => Inv'
    BY ContextStep, StepIsOfPart
  <1>3. Inv /\ [Next]_vars => [part = "Context" => Context!DeltaStep]_vars
    BY ContextDelta
  <1>4. QED
    BY <1>1, <1>2, <1>3, PTL DEF Spec, DeltaExtends

\* A task that nobody took is there until it is too old, MaxTasks others of its
\* session were touched after it, or MaxSessions other sessions were used after its
\* own, for any sessions, limits and calls.
THEOREM TasksGoOldestFirst == Spec => OnlyOldestGo
  <1> DEFINE Inv == part = "Background" => Background!IInv
  <1>1. Init => Inv
    BY BackgroundInit DEF Init
  <1>2. Inv /\ [Next]_vars => Inv'
    BY BackgroundStep, StepIsOfPart
  <1>3. Inv /\ [Next]_vars => [part = "Background" => Background!OnlyOldestGoes]_vars
    BY BackgroundStep, StepIsOfPart
  <1>4. QED
    BY <1>1, <1>2, <1>3, PTL DEF Spec, OnlyOldestGo
=============================================================================
