-------------------------- MODULE ReplicationProofs --------------------------
(***************************************************************************)
(* Proofs about the dialogues of a chat: who is inside its lock, which     *)
(* coroutines wait for which, and when two dialogues can go on at once.    *)
(* The inductive invariant is at the end of Replication; most actions are  *)
(* one coroutine that moves, with or without starting others, so what a    *)
(* move keeps is proved once (MovesPaths, MovesRounds, MovesAwaited,       *)
(* MovesDialogues, and LockJoined, LockEntered, LockLeft, LockRejoined for *)
(* the lock).                                                              *)
(***************************************************************************)
EXTENDS MCReplication, SequenceTheorems, WellFoundedInduction, TLAPS

\* A set of numbers below a bound that is not empty has a largest one.
LEMMA LargestExists ==
  ASSUME NEW n \in Nat, NEW S \in SUBSET (1..n), S # {}
  PROVE  \E i \in S : \A j \in S : j <= i
  <1> DEFINE below == {n - i : i \in S}
  <1>1. below \subseteq Nat /\ below # {}
    <2>1. \A i \in S : n - i \in Nat
      OBVIOUS
    <2>2. PICK i \in S : TRUE
      OBVIOUS
    <2>3. n - i \in below
      OBVIOUS
    <2>4. QED
      BY <2>1, <2>3
  <1> HIDE DEF below
  <1>2. PICK x \in below : \A y \in below : ~ (<<y, x>> \in OpToRel(<, Nat))
    BY <1>1, NatLessThanWellFounded, WFMin
  <1>3. ASSUME NEW y \in below PROVE x <= y
    <2>1. x \in Nat /\ y \in Nat
      BY <1>1
    <2>2. y < x => <<y, x>> \in OpToRel(<, Nat)
      BY <2>1 DEF OpToRel
    <2>3. ~ (y < x)
      BY <1>2, <2>2
    <2>4. QED
      BY <2>1, <2>3
  <1>4. PICK i \in S : x = n - i
    BY DEF below
  <1>5. ASSUME NEW j \in S PROVE j <= i
    <2>1. x <= n - j
      BY <1>3 DEF below
    <2>2. QED
      BY <1>4, <2>1
  <1>6. QED
    BY <1>5
-----------------------------------------------------------------------------
(***************************************************************************)
(* Paths                                                                   *)
(***************************************************************************)
\* The prefixes of a path: they are paths, have its elements, and are nested.
LEMMA PathPrefix ==
  ASSUME NEW p \in Paths, NEW n \in 1..Len(p)
  PROVE  /\ Prefix(p, n) \in Paths /\ Len(Prefix(p, n)) = n /\ Prefix(p, Len(p)) = p
         /\ \A i \in 1..n : Prefix(p, n)[i] = p[i] /\ Prefix(Prefix(p, n), i) = Prefix(p, i)
  <1> DEFINE S == Messages \cup ({1, 2} \X Actors)
  <1>1. p \in Seq(S) /\ Len(p) \in Nat /\ \A i \in 1..Len(p) : p[i] \in S
    BY DEF Paths
  <1> HIDE DEF S
  <1>2. /\ SubSeq(p, 1, n) \in Seq(S) /\ Len(SubSeq(p, 1, n)) = n
        /\ \A i \in 1..n : SubSeq(p, 1, n)[i] = p[i]
    <2>1. n \in Int /\ 1 \in Int /\ 1 <= n /\ n - 1 + 1 = n /\ \A i \in 1..n : p[i] \in S /\ 1 + i - 1 = i
      BY <1>1
    <2>2. QED
      BY <2>1, SubSeqProperties
  <1>3. SubSeq(p, 1, Len(p)) = p
    BY <1>1, SubSeqFull
  <1>4. ASSUME NEW i \in 1..n PROVE SubSeq(SubSeq(p, 1, n), 1, i) = SubSeq(p, 1, i)
    <2>1. /\ i \in Int /\ 1 <= i /\ i - 1 + 1 = i /\ i \in 1..Len(p)
          /\ \A j \in 1..i : j \in 1..n /\ 1 + j - 1 = j /\ p[j] \in S /\ SubSeq(p, 1, n)[j] \in S
      BY <1>1, <1>2
    <2>2. /\ SubSeq(p, 1, i) \in Seq(S) /\ Len(SubSeq(p, 1, i)) = i
          /\ \A j \in 1..i : SubSeq(p, 1, i)[j] = p[j]
      BY <2>1, SubSeqProperties
    <2>3. /\ SubSeq(SubSeq(p, 1, n), 1, i) \in Seq(S) /\ Len(SubSeq(SubSeq(p, 1, n), 1, i)) = i
          /\ \A j \in 1..i : SubSeq(SubSeq(p, 1, n), 1, i)[j] = SubSeq(p, 1, n)[j]
      BY <2>1, SubSeqProperties
    <2>4. \A j \in 1..i : SubSeq(SubSeq(p, 1, n), 1, i)[j] = SubSeq(p, 1, i)[j]
      BY <1>2, <2>1, <2>2, <2>3
    <2>5. QED
      BY <2>2, <2>3, <2>4, SeqEqual
  <1>5. QED
    BY <1>2, <1>3, <1>4 DEF Paths, Prefix, S

\* The path of a coroutine that p starts.
LEMMA PathChild ==
  ASSUME NEW p \in Paths, Len(p) >= 1, NEW e \in {1, 2} \X Actors
  PROVE  /\ Append(p, e) \in Paths /\ Len(Append(p, e)) = Len(p) + 1
         /\ Append(p, e)[Len(p) + 1] = e /\ \A i \in 1..Len(p) : Append(p, e)[i] = p[i]
         /\ Prefix(Append(p, e), Len(p)) = p /\ Prefix(Append(p, e), Len(p) + 1) = Append(p, e)
         /\ \A n \in 1..Len(p) : Prefix(Append(p, e), n) = Prefix(p, n)
  <1> DEFINE S == Messages \cup ({1, 2} \X Actors)
             q == Append(p, e)
  <1>1. p \in Seq(S) /\ Len(p) \in Nat \ {0} /\ e \in S /\ \A i \in 1..Len(p) : p[i] \in S
    BY DEF Paths
  <1> HIDE DEF S
  <1>2. q \in Seq(S) /\ Len(q) = Len(p) + 1 /\ q[Len(p) + 1] = e /\ \A i \in 1..Len(p) : q[i] = p[i]
    BY <1>1
  <1>3. q \in Paths
    BY <1>2 DEF Paths, S
  <1> HIDE DEF q
  <1>4. Len(p) \in 1..Len(q) /\ Len(q) \in 1..Len(q)
    BY <1>1, <1>2
  <1>5. /\ Prefix(q, Len(p)) \in Paths /\ Len(Prefix(q, Len(p))) = Len(p) /\ Prefix(q, Len(q)) = q
        /\ \A i \in 1..Len(p) : Prefix(q, Len(p))[i] = q[i] /\ Prefix(Prefix(q, Len(p)), i) = Prefix(q, i)
    BY <1>3, <1>4, PathPrefix
  <1>6. Prefix(q, Len(p)) = p
    <2>1. Prefix(q, Len(p)) \in Seq(S) /\ \A i \in 1..Len(p) : Prefix(q, Len(p))[i] = p[i]
      BY <1>2, <1>5 DEF Paths, S
    <2>2. QED
      BY <1>1, <1>5, <2>1, SeqEqual
  <1>7. QED
    BY <1>2, <1>3, <1>5, <1>6 DEF q

\* A path that a coroutine of t starts from is one of its prefixes.
LEMMA PathOfChild ==
  ASSUME NEW p \in Paths, NEW t \in Paths, NEW round, Len(p) >= 1,
         t \in Children(p, round)
  PROVE  /\ Len(t) = Len(p) + 1 /\ Prefix(t, Len(t) - 1) = p /\ t[Len(t)][1] = round /\ t[1] = p[1]
         /\ t \in Tasks
  <1>1. Len(p) \in Nat /\ Len(t) \in Nat
    BY DEF Paths
  <1>2. Len(t) = Len(p) + 1 /\ SubSeq(t, 1, Len(p)) = p /\ t[Len(t)][1] = round /\ t \in Tasks
    BY DEF Children
  <1>3. Len(t) - 1 = Len(p) /\ Len(p) \in 1..Len(t) /\ 1 \in 1..Len(p)
    BY <1>1, <1>2
  <1>4. Prefix(t, Len(p))[1] = t[1]
    BY <1>3, PathPrefix
  <1>5. QED
    BY <1>2, <1>3, <1>4 DEF Prefix
-----------------------------------------------------------------------------
(***************************************************************************)
(* The lock of the chat                                                    *)
(***************************************************************************)
\* A coroutine is in the line, or inside.
Held(p) == p \in DOMAIN proc /\ proc[p].pc \in {"wait", "turn", "llm", "hands"}
In(p) == p \in DOMAIN proc /\ proc[p].pc \in {"llm", "hands"}

\* No coroutine but p joins the line, leaves it, or goes on in it.
Others(p) == \A q : q # p => /\ Held(q)' <=> Held(q)
                             /\ Held(q) => proc'[q].pc = proc[q].pc
\* In the line are those who are held by the lock, once each; who is inside is
\* the first and has its name in busy.
Lock ==
    /\ line \in Seq(Paths)
    /\ \A i, j \in DOMAIN line : line[i] = line[j] => i = j
    /\ \A p : (\E i \in DOMAIN line : line[i] = p) => Held(p)
    /\ \A p : Held(p) => \E i \in DOMAIN line : line[i] = p
    /\ \A p : In(p) => line # <<>> /\ line[1] = p
    /\ busy = {NameOf(p) : p \in Inside}

\* This is the two invariants about the lock.
LEMMA LockIs == LineOK /\ OneInside <=> Lock
  BY DEF LineOK, OneInside, Lock, Held, In, Inside

\* Who is inside is held, and only p can begin or end to be inside.
LEMMA OthersInside ==
  ASSUME NEW p, Others(p), NEW q, q # p
  PROVE  (In(q)' <=> In(q)) /\ (In(q) => NameOf(q)' = NameOf(q))
  <1>1. \A r : In(r) <=> Held(r) /\ proc[r].pc \in {"llm", "hands"}
    BY DEF In, Held
  <1>2. \A r : In(r)' <=> Held(r)' /\ proc'[r].pc \in {"llm", "hands"}
    BY DEF In, Held
  <1>3. (Held(q)' <=> Held(q)) /\ (Held(q) => proc'[q].pc = proc[q].pc)
    BY DEF Others
  <1>4. QED
    BY <1>1, <1>2, <1>3 DEF NameOf

\* Nobody or the same are inside.
LEMMA BusyStays ==
  ASSUME Lock, UNCHANGED busy, \A p : In(p)' <=> In(p), \A p : In(p) => NameOf(p)' = NameOf(p)
  PROVE  busy' = {NameOf(p) : p \in Inside}'
  <1>1. Inside' = Inside
    BY DEF Inside, In
  <1>2. \A p \in Inside : NameOf(p)' = NameOf(p)
    BY DEF Inside, In
  <1>3. {NameOf(p) : p \in Inside}' = {NameOf(p)' : p \in Inside'}
    OBVIOUS
  <1>4. QED
    BY <1>1, <1>2 DEF Lock

\* Nothing happens to the line.
LEMMA LockStays ==
  ASSUME Lock, UNCHANGED <<line, busy>>,
         \A q : (Held(q)' <=> Held(q)) /\ (Held(q) => proc'[q].pc = proc[q].pc)
  PROVE  Lock'
  <1>1. \A p : (In(p)' <=> In(p)) /\ (In(p) => NameOf(p)' = NameOf(p))
    <2>1. \A p : In(p) <=> Held(p) /\ proc[p].pc \in {"llm", "hands"}
      BY DEF In, Held
    <2>2. \A p : In(p)' <=> Held(p)' /\ proc'[p].pc \in {"llm", "hands"}
      BY DEF In, Held
    <2>3. QED
      BY <2>1, <2>2 DEF NameOf
  <1>2. busy' = {NameOf(p) : p \in Inside}'
    BY <1>1, BusyStays
  <1>3. QED
    BY <1>1, <1>2 DEF Lock

\* p joins the line.
LEMMA LockJoined ==
  ASSUME Lock, NEW p \in Paths, line' = Append(line, p), UNCHANGED busy, Others(p),
         ~Held(p), Held(p)', proc'[p].pc \in {"wait", "turn"}
  PROVE  Lock'
  <1> DEFINE n == Len(line)
  <1>1. /\ line \in Seq(Paths) /\ n \in Nat /\ DOMAIN line = 1..n
        /\ line' \in Seq(Paths) /\ DOMAIN line' = 1..(n + 1) /\ line'[n + 1] = p
        /\ \A i \in 1..n : line'[i] = line[i]
    BY DEF Lock
  <1> HIDE DEF n
  <1>2. /\ \A i, j \in 1..n : line[i] = line[j] => i = j
        /\ \A i \in 1..n : Held(line[i]) /\ line[i] # p
        /\ \A q : Held(q) => \E i \in 1..n : line[i] = q
        /\ \A q : In(q) => line # <<>> /\ line[1] = q
    BY <1>1 DEF Lock
  <1>3. ASSUME NEW i \in 1..(n + 1), NEW j \in 1..(n + 1), line'[i] = line'[j] PROVE i = j
    <2>1. CASE i \in 1..n /\ j \in 1..n
      BY <1>1, <1>2, <1>3, <2>1
    <2>2. CASE i = n + 1 \/ j = n + 1
      <3>1. \A k \in 1..(n + 1) : k = n + 1 \/ k \in 1..n
        BY <1>1
      <3>2. QED
        BY <1>1, <1>2, <1>3, <2>2, <3>1
    <2>3. QED
      BY <1>1, <2>1, <2>2
  <1>4. ASSUME NEW q, NEW i \in 1..(n + 1), line'[i] = q PROVE Held(q)'
    <2>1. CASE i = n + 1
      BY <1>1, <1>4, <2>1
    <2>2. CASE i \in 1..n
      <3>1. Held(q) /\ q # p
        BY <1>1, <1>2, <1>4, <2>2
      <3>2. QED
        BY <3>1 DEF Others
    <2>3. QED
      BY <1>1, <2>1, <2>2
  <1>5. ASSUME NEW q, Held(q)' PROVE \E i \in 1..(n + 1) : line'[i] = q
    <2>1. CASE q = p
      BY <1>1, <2>1
    <2>2. CASE q # p
      <3>1. PICK i \in 1..n : line[i] = q
        BY <1>2, <1>5, <2>2 DEF Others
      <3>2. i \in 1..(n + 1) /\ line'[i] = q
        BY <1>1, <3>1
      <3>3. QED
        BY <3>2
    <2>3. QED
      BY <2>1, <2>2
  <1>6. ~In(p) /\ ~In(p)'
    BY DEF In, Held
  <1>7. \A q : In(q)' <=> In(q)
    BY <1>6, OthersInside
  <1>8. \A q : In(q) => NameOf(q)' = NameOf(q)
    BY <1>6, OthersInside
  <1>9. busy' = {NameOf(q) : q \in Inside}'
    BY <1>7, <1>8, BusyStays
  <1>10. ASSUME NEW q, In(q)' PROVE line' # <<>> /\ line'[1] = q
    <2>1. In(q) /\ line # <<>> /\ line[1] = q
      BY <1>2, <1>7, <1>10
    <2>2. 1 \in 1..n
      BY <1>1, <1>2, <2>1 DEF In, Held
    <2>3. QED
      BY <1>1, <2>1, <2>2
  <1>11. QED
    BY <1>1, <1>3, <1>4, <1>5, <1>9, <1>10 DEF Lock

\* The first of the line goes inside.
LEMMA LockEntered ==
  ASSUME Lock, NEW p, line # <<>>, line[1] = p, line' = line, Others(p), Held(p), ~In(p), In(p)',
         busy' = busy \cup {NameOf(p)'}
  PROVE  Lock'
  <1>1. \A q : ~In(q)
    BY DEF Lock
  <1>2. Inside = {} /\ busy = {}
    BY <1>1 DEF Lock, Inside, In
  <1>3. \A q : In(q)' <=> q = p
    BY <1>1, OthersInside
  <1>4. Inside' = {p}
    BY <1>3 DEF Inside, In
  <1>5. busy' = {NameOf(q) : q \in Inside}'
    <2>1. busy' = {NameOf(p)'}
      BY <1>2
    <2>2. {NameOf(q)' : q \in Inside'} = {NameOf(p)'}
      BY <1>4
    <2>3. QED
      BY <2>1, <2>2
  <1>6. \A q : Held(q)' <=> Held(q)
    <2>1. Held(p)'
      BY DEF In, Held
    <2>2. QED
      BY <2>1 DEF Others
  <1>7. QED
    BY <1>3, <1>5, <1>6 DEF Lock

\* What is left of the line when the first leaves it.
LEMMA LineRest ==
  ASSUME Lock, NEW p, In(p), NEW rest, rest = Tail(line)
  PROVE  /\ rest \in Seq(Paths) /\ p \in Paths
         /\ \A i, j \in DOMAIN rest : rest[i] = rest[j] => i = j
         /\ \A q : (\E i \in DOMAIN rest : rest[i] = q) => Held(q) /\ q # p
         /\ \A q : Held(q) /\ q # p => \E i \in DOMAIN rest : rest[i] = q
  <1>1. line \in Seq(Paths) /\ line # <<>> /\ line[1] = p
    BY DEF Lock
  <1> DEFINE n == Len(line)
  <1>2. /\ n \in Nat \ {0} /\ DOMAIN line = 1..n /\ p \in Paths
        /\ rest \in Seq(Paths) /\ DOMAIN rest = 1..(n - 1) /\ \A i \in 1..(n - 1) : rest[i] = line[i + 1]
    <2>1. n \in Nat \ {0} /\ DOMAIN line = 1..n /\ \A i \in 1..n : line[i] \in Paths
      BY <1>1, EmptySeq
    <2>2. /\ rest \in Seq(Paths) /\ Len(rest) = n - 1
          /\ \A i \in 1..Len(rest) : rest[i] = line[i + 1]
      BY <1>1, HeadTailProperties
    <2>3. QED
      BY <1>1, <2>1, <2>2
  <1> HIDE DEF n
  <1>3. /\ \A i, j \in 1..n : line[i] = line[j] => i = j
        /\ \A i \in 1..n : Held(line[i])
        /\ \A q : Held(q) => \E i \in 1..n : line[i] = q
    BY <1>2 DEF Lock
  <1>4. ASSUME NEW i \in 1..(n - 1) PROVE i + 1 \in 1..n /\ i + 1 # 1 /\ Held(rest[i]) /\ rest[i] # p
    <2>1. i + 1 \in 1..n /\ i + 1 # 1 /\ 1 \in 1..n
      BY <1>2
    <2>2. QED
      BY <1>1, <1>2, <1>3, <2>1
  <1>5. ASSUME NEW i \in 1..(n - 1), NEW j \in 1..(n - 1), rest[i] = rest[j] PROVE i = j
    <2>1. i + 1 = j + 1
      BY <1>2, <1>3, <1>4, <1>5
    <2>2. QED
      BY <2>1
  <1>6. ASSUME NEW q, Held(q), q # p PROVE \E i \in 1..(n - 1) : rest[i] = q
    <2>1. PICK k \in 1..n : line[k] = q
      BY <1>3, <1>6
    <2>2. k - 1 \in 1..(n - 1) /\ (k - 1) + 1 = k
      BY <1>1, <1>2, <1>6, <2>1
    <2>3. QED
      BY <1>2, <2>1, <2>2
  <1>7. QED
    BY <1>2, <1>4, <1>5, <1>6

\* The coroutine inside leaves, and others do not go on.
LEMMA LockLeft ==
  ASSUME Lock, NEW p, In(p), line' = Tail(line), busy' = busy \ {NameOf(p)}, Others(p), ~Held(p)'
  PROVE  Lock'
  <1>1. /\ line' \in Seq(Paths)
        /\ \A i, j \in DOMAIN line' : line'[i] = line'[j] => i = j
        /\ \A q : (\E i \in DOMAIN line' : line'[i] = q) => Held(q) /\ q # p
        /\ \A q : Held(q) /\ q # p => \E i \in DOMAIN line' : line'[i] = q
    BY LineRest
  <1>2. \A q : In(q) <=> q = p
    BY DEF Lock
  <1>3. ~In(p)'
    BY DEF In, Held
  <1>4. \A q : ~In(q)'
    BY <1>2, <1>3, OthersInside
  <1>5. Inside = {p} /\ Inside' = {}
    BY <1>2, <1>4 DEF Inside, In
  <1>6. busy' = {} /\ {NameOf(q) : q \in Inside}' = {}
    <2>1. busy = {NameOf(p)}
      BY <1>5 DEF Lock
    <2>2. QED
      BY <1>5, <2>1
  <1>7. QED
    BY <1>1, <1>4, <1>6 DEF Lock, Others

\* The coroutine inside leaves and waits again, behind all others.
LEMMA LockRejoined ==
  ASSUME Lock, NEW p, In(p), line' = Append(Tail(line), p), busy' = busy \ {NameOf(p)}, Others(p),
         Held(p)', ~In(p)'
  PROVE  Lock'
  <1> DEFINE rest == Tail(line)
             n == Len(rest)
  <1>1. /\ rest \in Seq(Paths) /\ p \in Paths
        /\ \A i, j \in DOMAIN rest : rest[i] = rest[j] => i = j
        /\ \A q : (\E i \in DOMAIN rest : rest[i] = q) => Held(q) /\ q # p
        /\ \A q : Held(q) /\ q # p => \E i \in DOMAIN rest : rest[i] = q
    BY LineRest
  <1> HIDE DEF rest
  <1>2. /\ n \in Nat /\ DOMAIN rest = 1..n
        /\ line' \in Seq(Paths) /\ DOMAIN line' = 1..(n + 1) /\ line'[n + 1] = p
        /\ \A i \in 1..n : line'[i] = rest[i]
    BY <1>1 DEF rest
  <1> HIDE DEF n
  <1>3. \A k \in 1..(n + 1) : k = n + 1 \/ k \in 1..n
    BY <1>2
  <1>4. \A i, j \in 1..(n + 1) : line'[i] = line'[j] => i = j
    BY <1>1, <1>2, <1>3, ZenonT(40)
  <1>5. ASSUME NEW q, NEW i \in 1..(n + 1), line'[i] = q PROVE Held(q)'
    <2>1. CASE i = n + 1
      BY <1>2, <1>5, <2>1
    <2>2. CASE i \in 1..n
      <3>1. Held(q) /\ q # p
        BY <1>1, <1>2, <1>5, <2>2
      <3>2. QED
        BY <3>1 DEF Others
    <2>3. QED
      BY <1>3, <2>1, <2>2
  <1>6. ASSUME NEW q, Held(q)' PROVE \E i \in 1..(n + 1) : line'[i] = q
    <2>1. CASE q = p
      BY <1>2, <2>1
    <2>2. CASE q # p
      <3>1. PICK i \in 1..n : rest[i] = q
        BY <1>1, <1>2, <1>6, <2>2 DEF Others
      <3>2. i \in 1..(n + 1) /\ line'[i] = q
        BY <1>2, <3>1
      <3>3. QED
        BY <3>2
    <2>3. QED
      BY <2>1, <2>2
  <1>7. \A q : In(q) <=> q = p
    BY DEF Lock
  <1>8. \A q : ~In(q)'
    BY <1>7, OthersInside
  <1>9. Inside = {p} /\ Inside' = {}
    BY <1>7, <1>8 DEF Inside, In
  <1>10. busy' = {} /\ {NameOf(q) : q \in Inside}' = {}
    <2>1. busy = {NameOf(p)}
      BY <1>9 DEF Lock
    <2>2. QED
      BY <1>9, <2>1
  <1>11. QED
    BY <1>2, <1>4, <1>5, <1>6, <1>8, <1>10 DEF Lock
-----------------------------------------------------------------------------
(***************************************************************************)
(* Posts                                                                   *)
(***************************************************************************)
PostLists == [Authors -> Seq([text : Text, live : BOOLEAN])]
\* No post is lost between ps and qs.
Keeps(ps, qs) == \A by \in Authors : DOMAIN ps[by] \subseteq DOMAIN qs[by]
\* i is the id of a post of ps.
Of(ps, i) == i \in Ids /\ i[2] \in DOMAIN ps[i[1]]

LEMMA TextFacts ==
  ASSUME NEW names, names \subseteq Actors \cup {All}
  PROVE  Saying(names) \in Text /\ Stub \in Text
  BY DEF Saying, Stub, Text

\* A post that is added is a new one of its author, and the others stay.
LEMMA AddedKeeps ==
  ASSUME NEW ps \in PostLists, NEW by \in Authors, NEW text \in Text
  PROVE  /\ Added(ps, by, text) \in PostLists /\ Keeps(ps, Added(ps, by, text))
         /\ Of(Added(ps, by, text), <<by, Len(ps[by]) + 1>>)
  <1> DEFINE R == [text : Text, live : BOOLEAN]
             e == [text |-> text, live |-> TRUE]
             qs == Added(ps, by, text)
  <1>1. e \in R /\ ps \in [Authors -> Seq(R)]
    BY DEF PostLists
  <1>2. ps[by] \in Seq(R)
    BY <1>1
  <1> HIDE DEF R, e
  <1>3. /\ Append(ps[by], e) \in Seq(R) /\ Len(ps[by]) \in Nat
        /\ DOMAIN ps[by] = 1..Len(ps[by]) /\ DOMAIN Append(ps[by], e) = 1..(Len(ps[by]) + 1)
    BY <1>1, <1>2
  <1>4. qs = [ps EXCEPT ![by] = Append(ps[by], e)]
    BY DEF Added, e
  <1>5. qs \in [Authors -> Seq(R)] /\ qs[by] = Append(ps[by], e) /\ \A c \in Authors \ {by} : qs[c] = ps[c]
    BY <1>1, <1>3, <1>4
  <1> HIDE DEF qs
  <1>6. Keeps(ps, qs)
    <2>1. DOMAIN ps[by] \subseteq DOMAIN qs[by]
      BY <1>3, <1>5
    <2>2. QED
      BY <1>5, <2>1 DEF Keeps
  <1>7. Of(qs, <<by, Len(ps[by]) + 1>>)
    <2>1. Len(ps[by]) + 1 \in Nat /\ Len(ps[by]) + 1 \in DOMAIN qs[by]
      BY <1>3, <1>5
    <2>2. QED
      BY <2>1 DEF Of, Ids
  <1>8. QED
    BY <1>5, <1>6, <1>7 DEF PostLists, R, qs

\* Writing a text into a post leaves the posts what they are.
LEMMA EditedKeeps ==
  ASSUME NEW ps \in PostLists, NEW i, Of(ps, i), NEW text \in Text
  PROVE  Edited(ps, i, text) \in PostLists /\ Keeps(ps, Edited(ps, i, text))
  <1> DEFINE R == [text : Text, live : BOOLEAN]
             by == i[1]
             n == i[2]
             e == [ps[by][n] EXCEPT !.text = text]
             qs == Edited(ps, i, text)
  <1>1. by \in Authors /\ ps \in [Authors -> Seq(R)] /\ ps[by] \in Seq(R) /\ n \in DOMAIN ps[by]
    BY DEF Of, Ids, PostLists
  <1>2. e \in R
    <2> HIDE DEF R, by, n
    <2>1. ps[by][n] \in R
      BY <1>1
    <2>2. QED
      BY <2>1 DEF R
  <1>3. qs = [ps EXCEPT ![by] = [ps[by] EXCEPT ![n] = e]]
    BY DEF Edited
  <1> HIDE DEF R, e, by, n, qs
  <1>4. [ps[by] EXCEPT ![n] = e] \in Seq(R) /\ DOMAIN [ps[by] EXCEPT ![n] = e] = DOMAIN ps[by]
    BY <1>1, <1>2
  <1>5. /\ qs \in [Authors -> Seq(R)] /\ qs[by] = [ps[by] EXCEPT ![n] = e]
        /\ \A c \in Authors \ {by} : qs[c] = ps[c]
    BY <1>1, <1>3, <1>4
  <1>6. Keeps(ps, qs)
    BY <1>4, <1>5 DEF Keeps
  <1>7. QED
    BY <1>5, <1>6 DEF PostLists, R, qs

\* So does hiding one.
LEMMA HiddenKeeps ==
  ASSUME NEW ps \in PostLists, NEW by \in Authors, NEW n \in DOMAIN ps[by],
         NEW qs, qs = [ps EXCEPT ![by][n].live = FALSE]
  PROVE  qs \in PostLists /\ Keeps(ps, qs)
  <1> DEFINE R == [text : Text, live : BOOLEAN]
             e == [ps[by][n] EXCEPT !.live = FALSE]
  <1>1. ps \in [Authors -> Seq(R)] /\ ps[by] \in Seq(R)
    BY DEF PostLists
  <1>2. e \in R
    <2> HIDE DEF R
    <2>1. ps[by][n] \in R
      BY <1>1
    <2>2. QED
      BY <2>1 DEF R
  <1>3. qs = [ps EXCEPT ![by] = [ps[by] EXCEPT ![n] = e]]
    OBVIOUS
  <1> HIDE DEF R, e
  <1>4. [ps[by] EXCEPT ![n] = e] \in Seq(R) /\ DOMAIN [ps[by] EXCEPT ![n] = e] = DOMAIN ps[by]
    BY <1>1, <1>2
  <1>5. /\ qs \in [Authors -> Seq(R)] /\ qs[by] = [ps[by] EXCEPT ![n] = e]
        /\ \A c \in Authors \ {by} : qs[c] = ps[c]
    BY <1>1, <1>3, <1>4
  <1>6. QED
    BY <1>4, <1>5 DEF PostLists, R, Keeps

\* What the agent adds to a post.
LEMMA RepliedKeeps ==
  ASSUME NEW ps \in PostLists, NEW reply \in {"none", "plain", "named"}, NEW name
  PROVE  Replied(ps, reply, name) \in PostLists /\ Keeps(ps, Replied(ps, reply, name))
  <1>1. "agent" \in Authors /\ Saying({}) \in Text /\ Saying({name} \cap Actors) \in Text
    BY TextFacts DEF Authors
  <1>2. CASE reply = "none"
    BY <1>2 DEF Replied, Keeps
  <1>3. CASE reply = "plain"
    BY <1>1, <1>3, AddedKeeps DEF Replied
  <1>4. CASE reply = "named"
    BY <1>1, <1>4, AddedKeeps DEF Replied
  <1>5. QED
    BY <1>2, <1>3, <1>4

\* One change after the other.
LEMMA KeepsBoth ==
  ASSUME NEW ps, NEW qs, NEW rs, Keeps(ps, qs), Keeps(qs, rs)
  PROVE  Keeps(ps, rs)
  BY DEF Keeps

LEMMA KeepsPost ==
  ASSUME NEW ps, NEW qs, Keeps(ps, qs), NEW i, Of(ps, i)
  PROVE  Of(qs, i)
  BY DEF Keeps, Of, Ids

\* What is true of a coroutine's state stays true when no post is lost.
LEMMA RecordStays ==
  ASSUME NEW p, NEW r, RecordOK(p, r), Keeps(posts, posts')
  PROVE  RecordOK(p, r)'
  <1>1. \A i : Known(i) => Known(i)'
    BY KeepsPost DEF Known, Of
  <1>2. QED
    BY <1>1 DEF RecordOK

\* latest_post names a post.
LEMMA LatestIsOne ==
  ASSUME NEW ps \in PostLists, NEW by \in Authors
  PROVE  latest_post(ps, by) = NoPost \/ Of(ps, latest_post(ps, by))
  <1> DEFINE shown == {n \in DOMAIN ps[by] : ps[by][n].live}
             last == CHOOSE n \in shown : \A k \in shown : k <= n
  <1>1. CASE shown = {}
    BY <1>1 DEF latest_post
  <1>2. CASE shown # {}
    <2>1. \E n \in shown : \A k \in shown : k <= n
      <3>1. shown \subseteq 1..Len(ps[by]) /\ Len(ps[by]) \in Nat
        BY DEF PostLists
      <3> HIDE DEF shown
      <3>2. QED
        BY <1>2, <3>1, LargestExists
    <2>2. last \in shown
      BY <2>1
    <2>3. last \in DOMAIN ps[by] /\ last \in Nat
      BY <2>2 DEF PostLists
    <2>4. latest_post(ps, by) = <<by, last>>
      BY <1>2 DEF latest_post
    <2> HIDE DEF last
    <2>5. QED
      BY <2>3, <2>4 DEF Of, Ids
  <1>3. QED
    BY <1>1, <1>2
-----------------------------------------------------------------------------
(***************************************************************************)
(* The tree of the coroutines                                              *)
(***************************************************************************)
New(p, round, R) == {Append(p, <<round, x>>) : x \in R}
\* The coroutine p gets the state r and starts those for R.
Moves(p, r, round, R) ==
    /\ DOMAIN proc' = DOMAIN proc \cup New(p, round, R)
    /\ proc'[p] = r
    /\ \A q \in New(p, round, R) : proc'[q] = Idle
    /\ \A q \in DOMAIN proc \ {p} : q \notin New(p, round, R) => proc'[q] = proc[q]
\* p has started none.
Childless(p) == \A t \in Tasks : Prefix(t, Len(t) - 1) # p
\* Of those below p none is at work, unless a branch has raised.
AtRest(p) ==
    \A t \in Going : \A n \in 1..Len(t) - 1 : Prefix(t, n) = p => HasRaised(MessageOf(p))
Tree == PathsOK /\ RoundsOK /\ Awaited

LEMMA TaskFacts ==
  ASSUME PathsOK, NEW t \in Tasks
  PROVE  /\ t \in Paths /\ t \in DOMAIN proc /\ Len(t) \in 2..MaxRql + 1 /\ t[1] \in Messages
         /\ \A i \in 2..Len(t) : t[i] \in {1, 2} \X Actors
         /\ \A n \in 1..Len(t) : Prefix(t, n) \in DOMAIN proc
         /\ Actor(t) \in Actors
  <1>1. t \in DOMAIN proc /\ Len(t) > 1
    BY DEF Tasks
  <1>2. /\ t \in Paths /\ Len(t) \in 1..MaxRql + 1 /\ t[1] \in Messages
        /\ \A i \in 2..Len(t) : t[i] \in {1, 2} \X Actors
        /\ \A n \in 1..Len(t) : Prefix(t, n) \in DOMAIN proc
    BY <1>1 DEF PathsOK
  <1>3. Len(t) \in 2..MaxRql + 1
    BY <1>1, <1>2, ReplicationAssumption
  <1>4. Len(t) \in 2..Len(t)
    BY <1>3, ReplicationAssumption
  <1>5. QED
    BY <1>1, <1>2, <1>3, <1>4 DEF Actor

LEMMA HandlerFacts ==
  ASSUME NEW m \in Messages
  PROVE  /\ Handler(m) \in Paths /\ Len(Handler(m)) = 1 /\ Handler(m)[1] = m /\ MessageOf(Handler(m)) = m
         /\ \A p \in Paths : Len(p) = 1 /\ p[1] = m => p = Handler(m)
  <1> DEFINE S == Messages \cup ({1, 2} \X Actors)
  <1>1. <<m>> \in Seq(S) /\ Len(<<m>>) = 1 /\ <<m>>[1] = m
    OBVIOUS
  <1>2. ASSUME NEW p \in Seq(S), Len(p) = 1, p[1] = m PROVE p = <<m>>
    <2>1. \A i \in 1..Len(p) : p[i] = <<m>>[i]
      BY <1>2
    <2> HIDE DEF S
    <2>2. QED
      BY <1>1, <1>2, <2>1, SeqEqual
  <1>3. QED
    BY <1>1, <1>2 DEF Handler, Paths, MessageOf

\* The coroutine above t, and what is said of it.
LEMMA ParentFacts ==
  ASSUME PathsOK, NEW t \in Tasks, NEW n \in 1..Len(t), NEW p, p = Prefix(t, n)
  PROVE  /\ p \in Paths /\ p \in DOMAIN proc /\ Len(p) = n /\ p[1] = t[1] /\ (n = Len(t) => p = t)
         /\ \A i \in 1..n : Prefix(p, i) = Prefix(t, i) /\ p[i] = t[i]
         /\ n > 1 => p \in Tasks
         /\ n = 1 => p = Handler(t[1])
  <1>1. t \in Paths /\ Len(t) \in 2..MaxRql + 1 /\ p \in DOMAIN proc /\ t[1] \in Messages
    BY TaskFacts
  <1>2. /\ p \in Paths /\ Len(p) = n /\ (n = Len(t) => p = t)
        /\ \A i \in 1..n : Prefix(p, i) = Prefix(t, i) /\ p[i] = t[i]
    BY <1>1, PathPrefix
  <1>3. 1 \in 1..n
    BY <1>1, ReplicationAssumption
  <1>4. p[1] = t[1]
    BY <1>2, <1>3
  <1>5. n > 1 => p \in Tasks
    BY <1>1, <1>2 DEF Tasks
  <1>6. n = 1 => p = Handler(t[1])
    BY <1>1, <1>2, <1>4, HandlerFacts
  <1>7. QED
    BY <1>1, <1>2, <1>4, <1>5, <1>6

\* Where nobody was started, nobody is below.
LEMMA ChildlessAtRest ==
  ASSUME PathsOK, NEW p, Childless(p)
  PROVE  AtRest(p)
  <1>1. SUFFICES ASSUME NEW t \in Going, NEW n \in 1..Len(t) - 1, Prefix(t, n) = p PROVE FALSE
    BY DEF AtRest
  <1>2. t \in Tasks /\ Len(t) \in 2..MaxRql + 1
    BY TaskFacts DEF Going
  <1>3. n + 1 \in 1..Len(t) /\ n \in 1..(n + 1) /\ n + 1 > 1 /\ n + 1 - 1 = n
    BY <1>2, ReplicationAssumption
  <1> DEFINE q == Prefix(t, n + 1)
  <1>4. q \in Tasks /\ Len(q) = n + 1 /\ Prefix(q, n) = Prefix(t, n)
    BY <1>2, <1>3, ParentFacts
  <1>5. Prefix(q, Len(q) - 1) = p
    BY <1>1, <1>3, <1>4
  <1>6. QED
    BY <1>4, <1>5 DEF Childless

\* Who is at work himself has started none.
LEMMA WorkerChildless ==
  ASSUME PathsOK, RoundsOK, NEW p \in DOMAIN proc, proc[p].pc \notin {"gather", "ended", "raised", "done"}
  PROVE  Childless(p)
  <1>1. SUFFICES ASSUME NEW t \in Tasks, Prefix(t, Len(t) - 1) = p PROVE FALSE
    BY DEF Childless
  <1>2. Len(t) \in 2..MaxRql + 1 /\ t[1] \in Messages
    BY TaskFacts
  <1>3. CASE Len(t) = 2
    <2>1. Len(t) - 1 \in 1..Len(t) /\ Len(t) - 1 = 1
      BY <1>3
    <2>2. p = Handler(t[1])
      BY <1>1, <2>1, ParentFacts
    <2>3. dialogue[t[1]] \in {"running", "over"}
      BY <1>3 DEF RoundsOK
    <2>4. QED
      BY <1>2, <2>2, <2>3 DEF RoundsOK
  <1>4. CASE Len(t) # 2
    BY <1>1, <1>4 DEF RoundsOK
  <1>5. QED
    BY <1>3, <1>4

\* The branches that p waits for are over.
LEMMA EndedAtRest ==
  ASSUME Tree, NEW p \in DOMAIN proc, NEW round, AllEnded(p, round),
         IF Len(p) = 1 THEN round = 1 ELSE round = proc[p].round
  PROVE  AtRest(p)
  <1>1. SUFFICES ASSUME NEW t \in Going, NEW n \in 1..Len(t) - 1, Prefix(t, n) = p,
                        ~HasRaised(MessageOf(p))
                 PROVE  FALSE
    BY DEF AtRest
  <1>2. t \in Tasks /\ Len(t) \in 2..MaxRql + 1
    BY TaskFacts DEF Going, Tree
  <1>3. n \in 1..Len(t) /\ n + 1 \in 1..Len(t) /\ n \in 1..(n + 1) /\ n + 1 \in 1..(n + 1) /\ n + 1 > 1 /\ n \in Nat
    BY <1>2, ReplicationAssumption
  <1> DEFINE q == Prefix(t, n + 1)
  <1>4. /\ q \in Tasks /\ Len(q) = n + 1 /\ Prefix(q, n) = p /\ q[n + 1] = t[n + 1] /\ q[1] = t[1]
        /\ q \in DOMAIN proc /\ (n + 1 = Len(t) => q = t)
    BY <1>1, <1>2, <1>3, ParentFacts DEF Tree
  <1>5. Len(p) = n /\ p[1] = t[1] /\ p \in Paths
    BY <1>1, <1>2, <1>3, ParentFacts DEF Tree
  <1>6. ~HasRaised(MessageOf(t))
    BY <1>1, <1>5 DEF MessageOf
  <1> HIDE DEF q
  <1>7. q[n + 1][1] = round
    <2>1. CASE n = 1
      <3>1. Len(q) = 2 /\ Len(p) = 1
        BY <1>4, <1>5, <2>1
      <3>2. q[2][1] = 1
        BY <1>4, <3>1 DEF Tree, RoundsOK
      <3>3. n + 1 = 2
        BY <2>1
      <3>4. round = 1
        BY <3>1
      <3>5. QED
        BY <3>2, <3>3, <3>4
    <2>2. CASE n # 1
      <3>1. n \in 2..Len(t) - 1 /\ Len(p) # 1
        BY <1>2, <1>5, <2>2
      <3>2. proc[p].round = t[n + 1][1]
        BY <1>1, <1>6, <3>1 DEF Tree, Awaited
      <3>3. round = proc[p].round
        BY <3>1
      <3>4. QED
        BY <1>4, <3>2, <3>3
    <2>3. QED
      BY <2>1, <2>2
  <1>8. q \in Children(p, round)
    BY <1>4, <1>5, <1>7 DEF Children, Prefix
  <1>9. proc[q].pc = "ended"
    BY <1>8 DEF AllEnded
  <1>10. CASE n + 1 = Len(t)
    BY <1>4, <1>9, <1>10 DEF Going
  <1>11. CASE n + 1 # Len(t)
    <2>1. n + 1 \in 2..Len(t) - 1
      BY <1>2, <1>3, <1>11
    <2>2. QED
      BY <1>1, <1>6, <1>9, <2>1 DEF Tree, Awaited, q
  <1>12. QED
    BY <1>10, <1>11
-----------------------------------------------------------------------------
(***************************************************************************)
(* A coroutine moves                                                       *)
(***************************************************************************)
\* The coroutines that p starts are new, and who was there keeps his place.
Fresh(p, round, R) == New(p, round, R) \cap DOMAIN proc = {}

LEMMA NewFacts ==
  ASSUME PathsOK, NEW p \in DOMAIN proc, NEW round \in {1, 2}, NEW R \in SUBSET Actors,
         NEW q \in New(p, round, R)
  PROVE  /\ q \in Paths /\ Len(q) = Len(p) + 1 /\ Len(q) > 1 /\ q[1] = p[1] /\ q[Len(q)] \in {1, 2} \X Actors
         /\ q[Len(q)][1] = round /\ Prefix(q, Len(q) - 1) = p /\ q # p
         /\ \A i \in 1..Len(p) : q[i] = p[i] /\ Prefix(q, i) = Prefix(p, i)
         /\ Prefix(q, Len(q)) = q /\ Len(p) \in 1..MaxRql + 1
  <1>1. PICK x \in R : q = Append(p, <<round, x>>)
    BY DEF New
  <1>2. p \in Paths /\ Len(p) \in 1..MaxRql + 1 /\ <<round, x>> \in {1, 2} \X Actors /\ <<round, x>>[1] = round
    BY DEF PathsOK
  <1>3. Len(p) >= 1 /\ Len(p) \in Nat /\ 1 \in 1..Len(p) /\ Len(p) + 1 > 1 /\ Len(p) + 1 - 1 = Len(p) /\ Len(p) # Len(p) + 1
    BY <1>2, ReplicationAssumption
  <1>4. /\ q \in Paths /\ Len(q) = Len(p) + 1 /\ q[Len(p) + 1] = <<round, x>>
        /\ \A i \in 1..Len(p) : q[i] = p[i] /\ Prefix(q, i) = Prefix(p, i)
        /\ Prefix(q, Len(p)) = p /\ Prefix(q, Len(p) + 1) = q
    BY <1>1, <1>2, <1>3, PathChild
  <1>5. q # p /\ Len(q) > 1 /\ Len(q) - 1 = Len(p)
    <2>1. Len(q) = Len(p) + 1
      BY <1>4
    <2>2. PICK k \in Nat : Len(p) = k /\ k >= 1
      BY <1>3
    <2>3. Len(q) > 1 /\ Len(q) - 1 = Len(p) /\ Len(q) # Len(p)
      BY <2>1, <2>2
    <2>4. QED
      BY <2>3
  <1>6. q[Len(q)] = <<round, x>> /\ Prefix(q, Len(q)) = q /\ Prefix(q, Len(q) - 1) = p
    BY <1>4, <1>5
  <1>7. q[1] = p[1]
    BY <1>3, <1>4
  <1>8. q[Len(q)] \in {1, 2} \X Actors /\ q[Len(q)][1] = round
    BY <1>2, <1>6
  <1>9. QED
    BY <1>2, <1>4, <1>5, <1>6, <1>7, <1>8

\* Who has started none starts new ones.
LEMMA ChildlessFresh ==
  ASSUME PathsOK, NEW p \in DOMAIN proc, NEW round \in {1, 2}, NEW R \in SUBSET Actors, Childless(p)
  PROVE  Fresh(p, round, R)
  <1>1. SUFFICES ASSUME NEW q \in New(p, round, R), q \in DOMAIN proc PROVE FALSE
    BY DEF Fresh
  <1>2. Len(q) > 1 /\ Prefix(q, Len(q) - 1) = p
    BY NewFacts
  <1>3. QED
    BY <1>1, <1>2 DEF Childless, Tasks

\* The moves of a coroutine, seen from the lock: only p can join or leave.
LEMMA MovesOthers ==
  ASSUME NEW p \in DOMAIN proc, NEW r, NEW round, NEW R, Moves(p, r, round, R), Fresh(p, round, R)
  PROVE  /\ Others(p)
         /\ Held(p)' <=> r.pc \in {"wait", "turn", "llm", "hands"}
         /\ In(p)' <=> r.pc \in {"llm", "hands"}
  <1>1. p \in DOMAIN proc' /\ proc'[p] = r
    BY DEF Moves
  <1>2. ASSUME NEW q, q # p PROVE (Held(q)' <=> Held(q)) /\ (Held(q) => proc'[q].pc = proc[q].pc)
    <2>1. CASE q \in New(p, round, R)
      <3>1. q \in DOMAIN proc' /\ q \notin DOMAIN proc /\ proc'[q].pc = "new"
        BY <2>1 DEF Moves, Fresh, Idle
      <3>2. QED
        BY <3>1 DEF Held
    <2>2. CASE q \notin New(p, round, R)
      <3>1. (q \in DOMAIN proc' <=> q \in DOMAIN proc) /\ (q \in DOMAIN proc => proc'[q] = proc[q])
        BY <1>2, <2>2 DEF Moves
      <3>2. QED
        BY <3>1 DEF Held
    <2>3. QED
      BY <2>1, <2>2
  <1>3. QED
    BY <1>1, <1>2 DEF Others, Held, In

\* Those started are there with all above them.
LEMMA MovesPaths ==
  ASSUME PathsOK, NEW p \in DOMAIN proc, NEW r, NEW round \in {1, 2}, NEW R \in SUBSET Actors,
         Moves(p, r, round, R), R # {} => Len(p) <= MaxRql
  PROVE  PathsOK'
  <1>1. SUFFICES ASSUME NEW q \in DOMAIN proc'
                 PROVE  /\ q \in Paths /\ Len(q) \in 1..MaxRql + 1 /\ q[1] \in Messages
                        /\ \A i \in 2..Len(q) : q[i] \in {1, 2} \X Actors
                        /\ \A n \in 1..Len(q) : Prefix(q, n) \in DOMAIN proc'
    BY DEF PathsOK, Paths, Prefix
  <1>2. CASE q \in DOMAIN proc
    BY <1>2 DEF PathsOK, Moves
  <1>3. CASE q \in New(p, round, R)
    <2>1. /\ q \in Paths /\ Len(q) = Len(p) + 1 /\ q[1] = p[1] /\ q[Len(q)] \in {1, 2} \X Actors
          /\ \A i \in 1..Len(p) : q[i] = p[i] /\ Prefix(q, i) = Prefix(p, i)
          /\ Prefix(q, Len(q)) = q /\ Len(p) \in 1..MaxRql + 1
      BY <1>3, NewFacts
    <2>2. /\ p[1] \in Messages /\ \A i \in 2..Len(p) : p[i] \in {1, 2} \X Actors
          /\ \A n \in 1..Len(p) : Prefix(p, n) \in DOMAIN proc
      BY DEF PathsOK
    <2>3. R # {} /\ Len(p) <= MaxRql
      BY <1>3 DEF New
    <2>4. Len(q) \in 1..MaxRql + 1 /\ Len(q) \in Nat
      BY <2>1, <2>3, ReplicationAssumption
    <2>5. ASSUME NEW i \in 1..Len(q) PROVE i = Len(q) \/ (i \in 1..Len(p) /\ (i \in 2..Len(q) => i \in 2..Len(p)))
      BY <2>1, <2>4
    <2>6. \A i \in 2..Len(q) : i \in 1..Len(q)
      BY <2>4
    <2>7. \A i \in 2..Len(q) : q[i] \in {1, 2} \X Actors
      BY <2>1, <2>2, <2>5, <2>6
    <2>8. \A n \in 1..Len(q) : Prefix(q, n) \in DOMAIN proc'
      BY <1>1, <2>1, <2>2, <2>5 DEF Moves
    <2>9. QED
      BY <2>1, <2>2, <2>4, <2>7, <2>8
  <1>4. QED
    BY <1>1, <1>2, <1>3 DEF Moves
\* Who is there after p moved.
After(p, r, round, R) ==
    /\ \A t \in Tasks' : t \in Tasks \/ t \in New(p, round, R)
    /\ \A q \in DOMAIN proc : q # p => proc'[q] = proc[q]
    /\ \A q \in DOMAIN proc : q \notin New(p, round, R) /\ q \in DOMAIN proc'
    /\ \A t \in Tasks : t \in Tasks'
    /\ \A t \in New(p, round, R) : t \in Tasks' /\ proc'[t] = Idle
    /\ proc'[p] = r

LEMMA MovesTasks ==
  ASSUME PathsOK, NEW p \in DOMAIN proc, NEW r, NEW round \in {1, 2}, NEW R \in SUBSET Actors,
         Moves(p, r, round, R), Fresh(p, round, R)
  PROVE  After(p, r, round, R)
  <1>1. \A t \in New(p, round, R) : Len(t) > 1
    BY NewFacts
  <1>2. QED
    BY <1>1 DEF Moves, Fresh, Tasks, After

\* The start of a round is lawful: p is the handler whose dialogue runs now, or
\* waits for this round.
Starts(p, r, round, R) ==
    R # {} => IF Len(p) = 1 THEN round = 1 /\ dialogue'[p[1]] \in {"running", "over"}
              ELSE r.pc = "gather" /\ r.round = round

LEMMA MovesRounds ==
  ASSUME PathsOK, RoundsOK, NEW p \in DOMAIN proc, NEW r, NEW round \in {1, 2}, NEW R \in SUBSET Actors,
         Moves(p, r, round, R), Fresh(p, round, R), Starts(p, r, round, R),
         Childless(p) \/ Len(p) = 1 \/ r.pc \in {"ended", "raised"} \/ (r.pc = "gather" /\ r.round = 2),
         \A m \in Messages : \/ dialogue'[m] = dialogue[m]
                             \/ dialogue'[m] \in {"running", "over"}
                             \/ ~ \E t \in Tasks : t[1] = m,
         \A m \in Messages : (Handler(m) \in DOMAIN proc' /\ proc'[Handler(m)].pc = "done") \/ dialogue'[m] = "none"
  PROVE  RoundsOK'
  <1> DEFINE N == New(p, round, R)
  <1>0. After(p, r, round, R)
    BY MovesTasks
  <1>1. /\ \A t \in Tasks' : t \in Tasks \/ t \in N
        /\ \A q \in DOMAIN proc : q # p => proc'[q] = proc[q]
        /\ \A t \in N : t \in Tasks' /\ proc'[t] = Idle
        /\ proc'[p] = r
    BY <1>0 DEF After
  <1>2. ASSUME NEW t \in Tasks, Len(t) = 2 PROVE t[2][1] = 1 /\ dialogue'[t[1]] \in {"running", "over"}
    <2>1. t[2][1] = 1 /\ dialogue[t[1]] \in {"running", "over"} /\ t[1] \in Messages
      BY <1>2, TaskFacts DEF RoundsOK
    <2>2. QED
      BY <2>1
  <1>3. ASSUME NEW t \in N, Len(t) = 2 PROVE t[2][1] = 1 /\ dialogue'[t[1]] \in {"running", "over"}
    <2>1. Len(t) = Len(p) + 1 /\ t[1] = p[1] /\ t[Len(t)][1] = round /\ Len(p) \in 1..MaxRql + 1
      BY NewFacts
    <2>2. Len(p) = 1
      <3>1. PICK k \in Nat : k = Len(p)
        BY <2>1, ReplicationAssumption
      <3>2. QED
        BY <1>3, <2>1, <3>1
    <2>3. R # {}
      BY DEF New
    <2>4. QED
      BY <1>3, <2>1, <2>2, <2>3 DEF Starts
  <1>4. ASSUME NEW t \in Tasks, Len(t) # 2, NEW q, q = Prefix(t, Len(t) - 1)
        PROVE  /\ proc'[q].pc \in {"gather", "ended", "raised"}
               /\ proc'[q].pc = "gather" /\ t[Len(t)][1] = 2 => proc'[q].round = 2
    <2>1. /\ proc[q].pc \in {"gather", "ended", "raised"}
          /\ proc[q].pc = "gather" /\ t[Len(t)][1] = 2 => proc[q].round = 2
      BY <1>4 DEF RoundsOK
    <2>2. Len(t) \in 2..MaxRql + 1
      BY TaskFacts
    <2>3. Len(t) - 1 \in 1..Len(t) /\ Len(t) - 1 # 1
      BY <1>4, <2>2, ReplicationAssumption
    <2>4. q \in DOMAIN proc /\ Len(q) = Len(t) - 1
      BY <1>4, <2>3, ParentFacts
    <2>5. CASE q # p
      BY <1>1, <2>1, <2>4, <2>5
    <2>6. CASE q = p
      <3>1. ~Childless(p)
        BY <1>4, <2>6 DEF Childless
      <3>2. QED
        BY <1>1, <2>3, <2>4, <2>6, <3>1
    <2>7. QED
      BY <2>5, <2>6
  <1>5. ASSUME NEW t \in N, Len(t) # 2, NEW q, q = Prefix(t, Len(t) - 1)
        PROVE  /\ proc'[q].pc \in {"gather", "ended", "raised"}
               /\ proc'[q].pc = "gather" /\ t[Len(t)][1] = 2 => proc'[q].round = 2
    <2>1. Len(t) = Len(p) + 1 /\ t[Len(t)][1] = round /\ q = p
      BY <1>5, NewFacts
    <2>2. Len(p) # 1
      <3>1. ASSUME Len(p) = 1 PROVE FALSE
        <4>1. Len(t) = 1 + 1
          BY <2>1, <3>1
        <4>2. QED
          BY <1>5, <4>1
      <3>2. QED
        BY <3>1
    <2>3. R # {}
      BY DEF New
    <2>4. r.pc = "gather" /\ r.round = round
      BY <2>2, <2>3 DEF Starts
    <2>5. QED
      BY <1>1, <2>1, <2>4
  <1> HIDE DEF N
  <1>6. ASSUME NEW t \in Tasks'
        PROVE  IF Len(t) = 2 THEN t[2][1] = 1 /\ dialogue'[t[1]] \in {"running", "over"}
               ELSE /\ proc'[Prefix(t, Len(t) - 1)].pc \in {"gather", "ended", "raised"}
                    /\ proc'[Prefix(t, Len(t) - 1)].pc = "gather" /\ t[Len(t)][1] = 2 =>
                          proc'[Prefix(t, Len(t) - 1)].round = 2
    BY <1>1, <1>2, <1>3, <1>4, <1>5
  <1>7. \A m \in Messages : \/ Handler(m) \in DOMAIN proc' /\ proc'[Handler(m)].pc = "done"
                            \/ dialogue'[m] = "none"
    OBVIOUS
  <1>8. QED
    BY <1>6, <1>7 DEF RoundsOK, Handler, Prefix

\* Who has raised stays where he is.
LEMMA MovesRaised ==
  ASSUME PathsOK, NEW p \in DOMAIN proc, NEW r, NEW round \in {1, 2}, NEW R \in SUBSET Actors,
         Moves(p, r, round, R), Fresh(p, round, R), proc[p].pc # "raised", NEW m, HasRaised(m)
  PROVE  HasRaised(m)'
  <1>1. PICK u \in Tasks : proc[u].pc = "raised" /\ MessageOf(u) = m
    BY DEF HasRaised
  <1>2. u \in DOMAIN proc /\ u # p
    BY <1>1 DEF Tasks
  <1>3. After(p, r, round, R)
    BY MovesTasks
  <1>4. u \in Tasks' /\ proc'[u] = proc[u]
    BY <1>2, <1>3 DEF After
  <1>5. QED
    BY <1>1, <1>4 DEF HasRaised, MessageOf

LEMMA MovesGoing ==
  ASSUME PathsOK, NEW p \in DOMAIN proc, NEW r, NEW round \in {1, 2}, NEW R \in SUBSET Actors,
         Moves(p, r, round, R), Fresh(p, round, R), proc[p].pc \notin {"ended", "raised"},
         NEW t \in Going'
  PROVE  t \in Going \/ t \in New(p, round, R)
  <1>0. After(p, r, round, R)
    BY MovesTasks
  <1>1. t \in Tasks' /\ proc'[t].pc \notin {"ended", "raised"}
    BY DEF Going
  <1>2. CASE t \in Tasks /\ t # p
    <2>1. t \in DOMAIN proc
      BY <1>2 DEF Tasks
    <2>2. proc'[t] = proc[t]
      BY <1>0, <1>2, <2>1 DEF After
    <2>3. QED
      BY <1>1, <1>2, <2>2 DEF Going
  <1>3. CASE t \in Tasks /\ t = p
    BY <1>3 DEF Going
  <1>4. QED
    BY <1>0, <1>1, <1>2, <1>3 DEF After

LEMMA MovesAwaited ==
  ASSUME PathsOK, Awaited, NEW p \in DOMAIN proc, NEW r, NEW round \in {1, 2}, NEW R \in SUBSET Actors,
         Moves(p, r, round, R), Fresh(p, round, R), Starts(p, r, round, R),
         proc[p].pc \notin {"ended", "raised"}, AtRest(p) \/ HasRaised(MessageOf(p))
  PROVE  Awaited'
  <1> DEFINE N == New(p, round, R)
  <1>0. After(p, r, round, R)
    BY MovesTasks
  <1>1. /\ \A q \in DOMAIN proc : q # p => proc'[q] = proc[q]
        /\ proc'[p] = r
    BY <1>0 DEF After
  <1>2. \A t \in Going' : t \in Going \/ t \in N
    BY MovesGoing
  <1>3. \A m : HasRaised(m) => HasRaised(m)'
    BY MovesRaised
  \* Above who was at work nothing has changed.
  <1>4. ASSUME NEW t \in Going, ~HasRaised(MessageOf(t)), NEW n \in 2..Len(t) - 1, NEW q, q = Prefix(t, n)
        PROVE  proc'[q].pc = "gather" /\ proc'[q].round = t[n + 1][1]
    <2>1. t \in Tasks /\ Len(t) \in 2..MaxRql + 1
      BY TaskFacts DEF Going
    <2>2. n \in 1..Len(t) - 1 /\ n \in 1..Len(t)
      BY <2>1, ReplicationAssumption
    <2>3. q \in DOMAIN proc /\ q[1] = t[1]
      BY <1>4, <2>1, <2>2, ParentFacts
    <2>4. q # p
      <3>1. SUFFICES ASSUME q = p PROVE FALSE
        OBVIOUS
      <3>2. MessageOf(p) = MessageOf(t)
        BY <2>3, <3>1 DEF MessageOf
      <3>3. AtRest(p)
        BY <1>4, <3>2
      <3>4. QED
        BY <1>4, <2>2, <3>1, <3>2, <3>3 DEF AtRest
    <2>5. proc[q].pc = "gather" /\ proc[q].round = t[n + 1][1]
      BY <1>4 DEF Awaited
    <2>6. QED
      BY <1>1, <2>3, <2>4, <2>5
  <1>5. ASSUME NEW t \in N, ~HasRaised(MessageOf(t)), NEW n \in 2..Len(t) - 1, NEW q, q = Prefix(t, n)
        PROVE  proc'[q].pc = "gather" /\ proc'[q].round = t[n + 1][1]
    <2>1. /\ Len(t) = Len(p) + 1 /\ Prefix(t, Len(t) - 1) = p /\ t[1] = p[1] /\ t[Len(t)][1] = round
          /\ \A i \in 1..Len(p) : t[i] = p[i] /\ Prefix(t, i) = Prefix(p, i)
          /\ Len(p) \in 1..MaxRql + 1
      BY NewFacts
    <2>2. PICK k \in Nat : k = Len(p) /\ k >= 1
      BY <2>1, ReplicationAssumption
    <2>3. Len(t) = k + 1 /\ n \in 2..k /\ n \in 1..k /\ k > 1
      BY <2>1, <2>2
    <2>4. p \in Going
      BY <2>2, <2>3 DEF Going, Tasks
    <2>5. CASE n = k
      <3>1. q = p /\ t[n + 1][1] = round
        BY <1>5, <2>1, <2>3, <2>5
      <3>2. R # {}
        BY DEF New
      <3>3. r.pc = "gather" /\ r.round = round
        BY <2>2, <2>3, <3>2 DEF Starts
      <3>4. QED
        BY <1>1, <3>1, <3>3
    <2>6. CASE n # k
      <3>1. n \in 2..Len(p) - 1 /\ n + 1 \in 1..Len(p)
        BY <2>2, <2>3, <2>6
      <3>2. q = Prefix(p, n) /\ t[n + 1] = p[n + 1]
        BY <1>5, <2>1, <2>2, <2>3, <3>1
      <3>3. MessageOf(p) = MessageOf(t)
        BY <2>1 DEF MessageOf
      <3>4. QED
        BY <1>4, <1>5, <2>4, <3>1, <3>2, <3>3
    <2>7. QED
      BY <2>5, <2>6
  <1> HIDE DEF N
  <1>6. \A t \in Going' : HasRaised(MessageOf(t)) \/ \A n \in 2..Len(t) - 1 :
            proc'[Prefix(t, n)].pc = "gather" /\ proc'[Prefix(t, n)].round = t[n + 1][1]
    BY <1>2, <1>4, <1>5
  <1>7. \A t \in Going' : HasRaised(MessageOf(t))' \/ \A n \in 2..Len(t) - 1 :
            proc'[Prefix(t, n)].pc = "gather" /\ proc'[Prefix(t, n)].round = t[n + 1][1]
    BY <1>3, <1>6
  <1>8. QED
    BY <1>7 DEF Awaited, MessageOf, Prefix

\* Those at work belong to the dialogue that runs.
LEMMA MovesDialogues ==
  ASSUME PathsOK, DialoguesOK, NEW p \in DOMAIN proc, NEW r, NEW round \in {1, 2}, NEW R \in SUBSET Actors,
         Moves(p, r, round, R), Fresh(p, round, R), proc[p].pc \notin {"ended", "raised"},
         \A m \in Messages : dialogue[m] = "running" => dialogue'[m] = "running",
         R # {} /\ Len(p) = 1 => dialogue'[p[1]] = "running",
         active' <=> \E m \in Messages : dialogue'[m] = "running",
         \A m, n \in Messages : dialogue'[m] = "running" /\ dialogue'[n] = "running" => m = n
  PROVE  DialoguesOK'
  <1>1. \A m : HasRaised(m) => HasRaised(m)'
    BY MovesRaised
  <1>2. ASSUME NEW t \in Going PROVE dialogue'[MessageOf(t)] = "running" \/ HasRaised(MessageOf(t))
    <2>1. MessageOf(t) \in Messages
      BY TaskFacts DEF Going, MessageOf
    <2>2. QED
      BY <2>1 DEF DialoguesOK
  <1>3. ASSUME NEW t \in New(p, round, R) PROVE dialogue'[MessageOf(t)] = "running" \/ HasRaised(MessageOf(t))
    <2>1. MessageOf(t) = p[1] /\ MessageOf(p) = p[1]
      BY NewFacts DEF MessageOf
    <2>2. R # {}
      BY DEF New
    <2>3. CASE Len(p) = 1
      BY <2>1, <2>2, <2>3
    <2>4. CASE Len(p) # 1
      <3>1. PICK k \in Nat : k = Len(p) /\ k >= 1
        BY NewFacts, ReplicationAssumption
      <3>2. p \in Going
        BY <2>4, <3>1 DEF Going, Tasks
      <3>3. QED
        BY <1>2, <2>1, <3>2
    <2>5. QED
      BY <2>3, <2>4
  <1>4. \A t \in Going' : dialogue'[MessageOf(t)] = "running" \/ HasRaised(MessageOf(t))'
    BY <1>1, <1>2, <1>3, MovesGoing
  <1>5. QED
    BY <1>4 DEF DialoguesOK, MessageOf
-----------------------------------------------------------------------------
(***************************************************************************)
(* What each action does                                                   *)
(***************************************************************************)
\* RecordOK for the posts ps.
RecordIn(ps, p, r) ==
    /\ r \in Records
    /\ r.post = NoPost \/ Of(ps, r.post)
    /\ r.stub = NoPost \/ Of(ps, r.stub)
    /\ r.pc \in {"sent", "turn", "llm", "wait", "hands"} => Of(ps, r.post)
    /\ r.pc \in {"sent", "done"} => Len(p) = 1
    /\ r.pc \in {"new", "turn", "llm", "gather", "ended", "raised"} => Len(p) > 1
    /\ r.pc = "gather" => Len(p) <= MaxRql /\ r.round # 0 /\ (r.round = 2 => ~r.reply)

LEMMA RecordIs ==
  ASSUME NEW p, NEW r
  PROVE  /\ RecordOK(p, r) <=> RecordIn(posts, p, r)
         /\ RecordOK(p, r)' <=> RecordIn(posts', p, r)
  BY DEF RecordOK, RecordIn, Known, Of

LEMMA RecordKept ==
  ASSUME NEW ps, NEW qs, Keeps(ps, qs), NEW p, NEW r, RecordIn(ps, p, r)
  PROVE  RecordIn(qs, p, r)
  BY KeepsPost DEF RecordIn

\* A coroutine that has come, is over, or waits for those it started.
LEMMA RecordPlain ==
  ASSUME NEW ps, NEW p, Len(p) > 1
  PROVE  /\ RecordIn(ps, p, Idle)
         /\ \A pc \in {"ended", "raised"} : RecordIn(ps, p, [Idle EXCEPT !.pc = pc])
         /\ \A round \in {1, 2}, reply \in BOOLEAN :
               Len(p) <= MaxRql /\ (round = 2 => ~reply) =>
                  RecordIn(ps, p, [Idle EXCEPT !.pc = "gather", !.round = round, !.reply = reply])
  <1>1. Stub \in Text
    BY TextFacts
  <1>2. Idle \in Records /\ Idle = [pc |-> "new", post |-> NoPost, stub |-> NoPost, text |-> Stub,
                                    reply |-> FALSE, round |-> 0]
    BY <1>1 DEF Idle, Records, Pcs
  <1>3. RecordIn(ps, p, Idle)
    BY <1>2 DEF RecordIn
  <1>4. ASSUME NEW pc \in {"ended", "raised"} PROVE RecordIn(ps, p, [Idle EXCEPT !.pc = pc])
    BY <1>1 DEF Idle, Records, Pcs, RecordIn
  <1>5. ASSUME NEW round \in {1, 2}, NEW reply \in BOOLEAN, Len(p) <= MaxRql, round = 2 => ~reply
        PROVE  RecordIn(ps, p, [Idle EXCEPT !.pc = "gather", !.round = round, !.reply = reply])
    <2> DEFINE s == [Idle EXCEPT !.pc = "gather", !.round = round, !.reply = reply]
    <2>1. /\ s \in Records /\ s.pc = "gather" /\ s.post = NoPost /\ s.stub = NoPost
          /\ s.round = round /\ s.reply = reply
      BY <1>1 DEF Idle, Records, Pcs
    <2> HIDE DEF s
    <2>2. s.round = 2 => ~s.reply
      BY <1>5, <2>1, Zenon
    <2>3. s.pc = "gather" => Len(p) <= MaxRql /\ s.round # 0 /\ (s.round = 2 => ~s.reply)
      BY <1>5, <2>1, <2>2
    <2>4. s.pc \notin {"sent", "turn", "llm", "wait", "hands"} /\ s.pc \notin {"sent", "done"}
      BY <2>1
    <2>5. RecordIn(ps, p, s)
      BY <2>1, <2>3, <2>4, Zenon DEF RecordIn
    <2>6. QED
      BY <2>5 DEF s
  <1>6. QED
    BY <1>3, <1>4, <1>5

\* The invariant, with the lock's part as it was used above.
LEMMA Parts ==
  /\ IInv <=> StateOK /\ PathsOK /\ RoundsOK /\ Awaited /\ DialoguesOK /\ Lock
  /\ IInv' <=> StateOK' /\ PathsOK' /\ RoundsOK' /\ Awaited' /\ DialoguesOK' /\ Lock'
  <1>1. (LineOK /\ OneInside)' <=> Lock'
    BY LockIs, PTL
  <1>2. QED
    BY <1>1, LockIs DEF IInv

DialogueStates == {"none", "scheduled", "dropped", "running", "over"}

LEMMA StateParts ==
  ASSUME StateOK
  PROVE  /\ posts \in PostLists /\ busy \subseteq Actors \cup {"agent"} /\ active \in BOOLEAN
         /\ dialogue \in [Messages -> DialogueStates] /\ events \in 0..MaxEvents
         /\ \A p \in DOMAIN proc : RecordIn(posts, p, proc[p])
  BY RecordIs DEF StateOK, PostLists, DialogueStates

LEMMA MovesState ==
  ASSUME StateOK, PathsOK, NEW p \in DOMAIN proc, NEW r, NEW round \in {1, 2}, NEW R \in SUBSET Actors,
         Moves(p, r, round, R), Fresh(p, round, R),
         posts' \in PostLists, Keeps(posts, posts'), busy' \subseteq Actors \cup {"agent"}, active' \in BOOLEAN,
         dialogue' \in [Messages -> DialogueStates], events' \in 0..MaxEvents, RecordIn(posts', p, r)
  PROVE  StateOK'
  <1>1. ASSUME NEW q \in DOMAIN proc' PROVE RecordIn(posts', q, proc'[q])
    <2>1. CASE q \in New(p, round, R)
      <3>1. Len(q) > 1 /\ proc'[q] = Idle
        BY <2>1, NewFacts DEF Moves
      <3>2. QED
        BY <3>1, RecordPlain
    <2>2. CASE q = p
      BY <2>2 DEF Moves
    <2>3. CASE q # p /\ q \notin New(p, round, R)
      <3>1. q \in DOMAIN proc /\ proc'[q] = proc[q]
        BY <2>3 DEF Moves
      <3>2. RecordIn(posts, q, proc[q])
        BY <3>1, StateParts
      <3>3. QED
        BY <3>1, <3>2, RecordKept
    <2>4. QED
      BY <2>1, <2>2, <2>3
  <1>2. (\A q \in DOMAIN proc : RecordOK(q, proc[q]))'
    BY <1>1 DEF RecordOK, RecordIn, Known, Of
  <1>3. QED
    BY <1>2 DEF StateOK, PostLists, DialogueStates

\* Where a coroutine was started the dialogue has begun.
LEMMA TaskDialogue ==
  ASSUME PathsOK, RoundsOK, NEW t \in Tasks
  PROVE  dialogue[t[1]] \in {"running", "over"}
  <1>1. Len(t) \in 2..MaxRql + 1
    BY TaskFacts
  <1>2. PICK n \in 1..Len(t) : n = 2 /\ n > 1
    BY <1>1, ReplicationAssumption
  <1>3. PICK q : q = Prefix(t, n)
    OBVIOUS
  <1>4. q \in Tasks /\ Len(q) = n /\ q[1] = t[1]
    <2>1. n \in 1..Len(t) /\ n > 1
      BY <1>2
    <2>2. QED
      BY <1>3, <2>1, ParentFacts
  <1>5. Len(q) = 2
    BY <1>2, <1>4
  <1>6. QED
    BY <1>4, <1>5 DEF RoundsOK

\* A coroutine goes on and starts no one.
LEMMA AloneMoves ==
  ASSUME NEW p \in DOMAIN proc, NEW r, proc' = [proc EXCEPT ![p] = r]
  PROVE  /\ Moves(p, r, 1, {}) /\ Fresh(p, 1, {}) /\ Starts(p, r, 1, {})
         /\ Others(p)
         /\ Held(p)' <=> r.pc \in {"wait", "turn", "llm", "hands"}
         /\ In(p)' <=> r.pc \in {"llm", "hands"}
  <1>1. New(p, 1, {}) = {}
    BY DEF New
  <1>2. Moves(p, r, 1, {}) /\ Fresh(p, 1, {}) /\ Starts(p, r, 1, {})
    BY <1>1 DEF Moves, Fresh, Starts
  <1>3. QED
    BY <1>2, MovesOthers

\* A coroutine that is at work itself goes on.
LEMMA WorkerMoves ==
  ASSUME IInv, NEW p \in DOMAIN proc, proc[p].pc \notin {"gather", "ended", "raised", "done"}, NEW r,
         proc' = [proc EXCEPT ![p] = r], UNCHANGED active,
         \/ dialogue' = dialogue
         \/ /\ Len(p) = 1 /\ r.pc = "done"
            /\ \E d \in {"none", "scheduled"} : dialogue' = [dialogue EXCEPT ![p[1]] = d],
         posts' \in PostLists, Keeps(posts, posts'), busy' \subseteq Actors \cup {"agent"},
         events' \in 0..MaxEvents, RecordIn(posts', p, r), Lock'
  PROVE  IInv'
  <1>1. StateOK /\ PathsOK /\ RoundsOK /\ Awaited /\ DialoguesOK
    BY Parts
  <1>2. Moves(p, r, 1, {}) /\ Fresh(p, 1, {}) /\ Starts(p, r, 1, {}) /\ {} \in SUBSET Actors
    BY AloneMoves
  <1>3. Childless(p) /\ AtRest(p)
    BY <1>1, WorkerChildless, ChildlessAtRest
  <1>4. p[1] \in Messages /\ p \in Paths
    BY <1>1 DEF PathsOK
  <1>5. dialogue \in [Messages -> DialogueStates] /\ active \in BOOLEAN
    BY <1>1, StateParts
  <1>6. Len(p) = 1 => p = Handler(p[1]) /\ dialogue[p[1]] = "none"
    <2>1. Len(p) = 1 => p = Handler(p[1])
      BY <1>4, HandlerFacts
    <2>2. QED
      BY <1>1, <1>4, <2>1 DEF RoundsOK
  <1>7. /\ dialogue' \in [Messages -> DialogueStates]
        /\ \A m \in Messages : \/ dialogue'[m] = dialogue[m]
                               \/ m = p[1] /\ Len(p) = 1 /\ r.pc = "done" /\ dialogue'[m] \in {"none", "scheduled"}
    BY <1>4, <1>5 DEF DialogueStates
  <1>8. \A m \in Messages : (Handler(m) \in DOMAIN proc' /\ proc'[Handler(m)].pc = "done") \/ dialogue'[m] = "none"
    <2>1. SUFFICES ASSUME NEW m \in Messages, dialogue'[m] # "none"
                   PROVE  Handler(m) \in DOMAIN proc' /\ proc'[Handler(m)].pc = "done"
      OBVIOUS
    <2>2. CASE dialogue'[m] = dialogue[m]
      <3>1. Handler(m) \in DOMAIN proc /\ proc[Handler(m)].pc = "done"
        BY <1>1, <2>1, <2>2 DEF RoundsOK
      <3>2. Handler(m) # p
        BY <3>1
      <3>3. QED
        BY <3>1, <3>2
    <2>3. CASE dialogue'[m] # dialogue[m]
      <3>1. p = Handler(m) /\ r.pc = "done"
        BY <1>6, <1>7, <2>3
      <3>2. QED
        BY <3>1
    <2>4. QED
      BY <2>2, <2>3
  <1>9. \A m \in Messages : \/ dialogue'[m] = dialogue[m]
                            \/ dialogue'[m] \in {"running", "over"}
                            \/ ~ \E t \in Tasks : t[1] = m
    <2>1. SUFFICES ASSUME NEW m \in Messages, dialogue'[m] # dialogue[m], NEW t \in Tasks, t[1] = m PROVE FALSE
      OBVIOUS
    <2>2. p = Handler(m) /\ dialogue[m] = "none"
      BY <1>6, <1>7, <2>1
    <2>3. dialogue[m] \in {"running", "over"}
      BY <1>1, <2>1, TaskDialogue
    <2>4. QED
      BY <2>2, <2>3
  <1>10. \A m \in Messages : dialogue'[m] = "running" <=> dialogue[m] = "running"
    BY <1>6, <1>7
  <1>11. StateOK' /\ PathsOK'
    BY <1>1, <1>2, <1>5, <1>7, MovesState, MovesPaths
  <1>12. RoundsOK'
    BY <1>1, <1>2, <1>3, <1>8, <1>9, MovesRounds
  <1>13. Awaited'
    BY <1>1, <1>2, <1>3, MovesAwaited
  <1>14. DialoguesOK'
    <2>1. /\ active' <=> \E m \in Messages : dialogue'[m] = "running"
          /\ \A m, n \in Messages : dialogue'[m] = "running" /\ dialogue'[n] = "running" => m = n
          /\ \A m \in Messages : dialogue[m] = "running" => dialogue'[m] = "running"
      BY <1>1, <1>10 DEF DialoguesOK
    <2>2. QED
      BY <1>1, <1>2, <2>1, MovesDialogues
  <1>15. QED
    BY <1>11, <1>12, <1>13, <1>14, Parts
\* A coroutine of an LLM goes on, ends, or starts others.
LEMMA TaskMoves ==
  ASSUME IInv, NEW p \in Tasks, proc[p].pc \notin {"ended", "raised", "done"}, NEW r,
         NEW round \in {1, 2}, NEW R \in SUBSET Actors,
         Moves(p, r, round, R), Fresh(p, round, R), Starts(p, r, round, R),
         AtRest(p) \/ HasRaised(MessageOf(p)),
         Childless(p) \/ r.pc \in {"ended", "raised"} \/ (r.pc = "gather" /\ r.round = 2),
         R # {} => Len(p) <= MaxRql, UNCHANGED <<active, dialogue>>,
         posts' \in PostLists, Keeps(posts, posts'), busy' \subseteq Actors \cup {"agent"},
         events' \in 0..MaxEvents, RecordIn(posts', p, r), Lock'
  PROVE  IInv'
  <1>1. StateOK /\ PathsOK /\ RoundsOK /\ Awaited /\ DialoguesOK
    BY Parts
  <1>2. p \in DOMAIN proc /\ Len(p) # 1
    BY <1>1, TaskFacts DEF Tasks
  <1>3. dialogue' \in [Messages -> DialogueStates] /\ active' \in BOOLEAN
    BY <1>1, StateParts
  <1>4. \A m \in Messages : (Handler(m) \in DOMAIN proc' /\ proc'[Handler(m)].pc = "done") \/ dialogue'[m] = "none"
    <2>1. SUFFICES ASSUME NEW m \in Messages, dialogue[m] # "none"
                   PROVE  Handler(m) \in DOMAIN proc' /\ proc'[Handler(m)].pc = "done"
      OBVIOUS
    <2>2. Handler(m) \in DOMAIN proc /\ proc[Handler(m)].pc = "done"
      BY <1>1, <2>1 DEF RoundsOK
    <2>3. Handler(m) # p
      BY <2>2
    <2>4. After(p, r, round, R)
      BY <1>1, <1>2, MovesTasks
    <2>5. QED
      BY <2>2, <2>3, <2>4 DEF After
  <1>5. StateOK' /\ PathsOK'
    BY <1>1, <1>2, <1>3, MovesState, MovesPaths
  <1>6. RoundsOK'
    <2>1. \A m \in Messages : \/ dialogue'[m] = dialogue[m]
                              \/ dialogue'[m] \in {"running", "over"}
                              \/ ~ \E t \in Tasks : t[1] = m
      OBVIOUS
    <2>2. Childless(p) \/ Len(p) = 1 \/ r.pc \in {"ended", "raised"} \/ (r.pc = "gather" /\ r.round = 2)
      OBVIOUS
    <2>3. QED
      BY <1>1, <1>2, <1>4, <2>1, <2>2, MovesRounds
  <1>7. Awaited'
    BY <1>1, <1>2, MovesAwaited
  <1>8. DialoguesOK'
    <2>1. /\ active' <=> \E m \in Messages : dialogue'[m] = "running"
          /\ \A m, n \in Messages : dialogue'[m] = "running" /\ dialogue'[n] = "running" => m = n
          /\ \A m \in Messages : dialogue[m] = "running" => dialogue'[m] = "running"
      BY <1>1 DEF DialoguesOK
    <2>2. R # {} /\ Len(p) = 1 => dialogue'[p[1]] = "running"
      BY <1>2
    <2>3. QED
      BY <1>1, <1>2, <2>1, <2>2, MovesDialogues
  <1>9. QED
    BY <1>5, <1>6, <1>7, <1>8, Parts

\* The coroutine of an LLM that is at work itself ends, or raises.
LEMMA TaskEnds ==
  ASSUME IInv, NEW p \in Tasks, proc[p].pc \notin {"ended", "raised", "done"}, AtRest(p) \/ HasRaised(MessageOf(p)),
         NEW pc \in {"ended", "raised"}, proc' = [proc EXCEPT ![p] = [Idle EXCEPT !.pc = pc]],
         UNCHANGED <<active, dialogue>>,
         posts' \in PostLists, Keeps(posts, posts'), busy' \subseteq Actors \cup {"agent"},
         events' \in 0..MaxEvents, Lock'
  PROVE  IInv'
  <1> DEFINE r == [Idle EXCEPT !.pc = pc]
  <1>1. Len(p) > 1 /\ p \in DOMAIN proc
    BY DEF Tasks
  <1>2. RecordIn(posts', p, r)
    BY <1>1, RecordPlain
  <1>3. r.pc = pc
    BY DEF Idle
  <1>4. proc' = [proc EXCEPT ![p] = r]
    OBVIOUS
  <1> HIDE DEF r
  <1>5. Moves(p, r, 1, {}) /\ Fresh(p, 1, {}) /\ Starts(p, r, 1, {})
    BY <1>1, <1>4, AloneMoves
  <1>6. 1 \in {1, 2} /\ {} \in SUBSET Actors /\ r.pc \in {"ended", "raised"}
    BY <1>3
  <1>7. QED
    BY <1>2, <1>5, <1>6, TaskMoves

\* t starts coroutines, or is over.
LEMMA Gathers ==
  ASSUME NEW t \in DOMAIN proc, NEW round, NEW R, NEW reply, Gathering(t, round, R, reply), Fresh(t, round, R)
  PROVE  Moves(t, IF R = {} THEN [Idle EXCEPT !.pc = "ended"]
                  ELSE [Idle EXCEPT !.pc = "gather", !.round = round, !.reply = reply], round, R)
  <1> DEFINE r == IF R = {} THEN [Idle EXCEPT !.pc = "ended"]
                  ELSE [Idle EXCEPT !.pc = "gather", !.round = round, !.reply = reply]
             N == New(t, round, R)
  <1>1. Spawned(t, round, R) = [q \in DOMAIN proc \cup N |-> IF q \in N THEN Idle ELSE proc[q]]
    BY DEF Spawned, New
  <1>2. proc' = [Spawned(t, round, R) EXCEPT ![t] = r]
    BY DEF Gathering
  <1>3. t \notin N
    BY DEF Fresh
  <1> HIDE DEF r
  <1>4. Moves(t, r, round, R)
    BY <1>1, <1>2, <1>3 DEF Moves
  <1>5. QED
    BY <1>4 DEF r

LEMMA TaskGathers ==
  ASSUME IInv, NEW t \in Tasks, proc[t].pc \notin {"ended", "raised", "done"}, NEW round \in {1, 2},
         NEW R \in SUBSET Actors, NEW reply \in BOOLEAN, Gathering(t, round, R, reply), Fresh(t, round, R),
         AtRest(t) \/ HasRaised(MessageOf(t)), Childless(t) \/ round = 2, round = 2 => ~reply,
         R # {} => Len(t) <= MaxRql, UNCHANGED <<active, dialogue>>,
         posts' \in PostLists, Keeps(posts, posts'), busy' \subseteq Actors \cup {"agent"},
         events' \in 0..MaxEvents, Lock'
  PROVE  IInv'
  <1>1. t \in DOMAIN proc /\ Len(t) > 1 /\ Len(t) # 1
    BY Parts, TaskFacts DEF Tasks
  <1>2. PICK r : r = IF R = {} THEN [Idle EXCEPT !.pc = "ended"]
                     ELSE [Idle EXCEPT !.pc = "gather", !.round = round, !.reply = reply]
    OBVIOUS
  <1>3. Moves(t, r, round, R)
    BY <1>1, <1>2, Gathers
  <1>4. RecordIn(posts', t, r)
    <2>1. CASE R = {}
      BY <1>1, <1>2, <2>1, RecordPlain
    <2>2. CASE R # {}
      <3>1. r = [Idle EXCEPT !.pc = "gather", !.round = round, !.reply = reply]
        BY <1>2, <2>2
      <3>2. QED
        BY <1>1, <2>2, <3>1, RecordPlain
    <2>3. QED
      BY <2>1, <2>2
  <1>5. IF R = {} THEN r.pc = "ended" ELSE r.pc = "gather" /\ r.round = round
    BY <1>2 DEF Idle
  <1>6. Starts(t, r, round, R)
    BY <1>1, <1>5 DEF Starts
  <1>7. Childless(t) \/ r.pc \in {"ended", "raised"} \/ (r.pc = "gather" /\ r.round = 2)
    BY <1>5
  <1>8. QED
    BY <1>3, <1>4, <1>6, <1>7, TaskMoves

\* No coroutine moves.
LEMMA Still ==
  ASSUME IInv, UNCHANGED <<proc, line, busy>>,
         posts' \in PostLists, Keeps(posts, posts'), events' \in 0..MaxEvents,
         active' \in BOOLEAN, dialogue' \in [Messages -> DialogueStates],
         \A m \in Messages : \/ dialogue'[m] = dialogue[m]
                             \/ dialogue[m] = "scheduled" /\ dialogue'[m] = "dropped"
                             \/ dialogue[m] = "running" /\ dialogue'[m] = "over",
         active' <=> \E m \in Messages : dialogue'[m] = "running",
         \A t \in Going : dialogue'[MessageOf(t)] = "running" \/ HasRaised(MessageOf(t))
  PROVE  IInv'
  <1>1. StateOK /\ PathsOK /\ RoundsOK /\ Awaited /\ DialoguesOK /\ Lock
    BY Parts
  <1>2. StateOK'
    <2>1. \A p \in DOMAIN proc : RecordIn(posts', p, proc[p])
      BY <1>1, StateParts, RecordKept
    <2>2. (\A p \in DOMAIN proc : RecordOK(p, proc[p]))'
      BY <2>1 DEF RecordOK, RecordIn, Known, Of
    <2>3. busy' \subseteq Actors \cup {"agent"}
      BY <1>1, StateParts
    <2>4. QED
      BY <2>2, <2>3 DEF StateOK, PostLists, DialogueStates
  <1>3. PathsOK'
    BY <1>1 DEF PathsOK
  <1>4. RoundsOK'
    <2>1. \A m \in Messages : (Handler(m) \in DOMAIN proc /\ proc[Handler(m)].pc = "done") \/ dialogue'[m] = "none"
      BY <1>1 DEF RoundsOK
    <2>2. \A t \in Tasks : dialogue[t[1]] \in {"running", "over"} => dialogue'[t[1]] \in {"running", "over"}
      <3>1. ASSUME NEW t \in Tasks, dialogue[t[1]] \in {"running", "over"} PROVE dialogue'[t[1]] \in {"running", "over"}
        <4>1. t[1] \in Messages
          BY <1>1, TaskFacts
        <4>2. QED
          BY <3>1, <4>1
      <3>2. QED
        BY <3>1
    <2>3. QED
      BY <1>1, <2>1, <2>2 DEF RoundsOK, Tasks
  <1>5. Awaited'
    BY <1>1 DEF Awaited, Going, Tasks, HasRaised
  <1>6. DialoguesOK'
    <2>1. \A m, n \in Messages : dialogue'[m] = "running" /\ dialogue'[n] = "running" => m = n
      BY <1>1 DEF DialoguesOK
    <2>2. QED
      BY <2>1 DEF DialoguesOK, Going, Tasks, HasRaised
  <1>7. Lock'
    <2>1. \A q : (Held(q)' <=> Held(q)) /\ (Held(q) => proc'[q].pc = proc[q].pc)
      BY DEF Held
    <2>2. QED
      BY <1>1, <2>1, LockStays
  <1>8. QED
    BY <1>2, <1>3, <1>4, <1>5, <1>6, <1>7, Parts
-----------------------------------------------------------------------------
(***************************************************************************)
(* The actions one by one                                                  *)
(***************************************************************************)
\* What is known before every action.
LEMMA KnownBefore ==
  ASSUME IInv
  PROVE  /\ StateOK /\ PathsOK /\ RoundsOK /\ Awaited /\ DialoguesOK /\ Lock
         /\ posts \in PostLists /\ busy \subseteq Actors \cup {"agent"} /\ active \in BOOLEAN
         /\ dialogue \in [Messages -> DialogueStates] /\ events \in 0..MaxEvents
         /\ \A p \in DOMAIN proc : RecordIn(posts, p, proc[p])
  BY Parts, StateParts

LEMMA BoundedEvents ==
  ASSUME events \in 0..MaxEvents, Bounded
  PROVE  events' \in 0..MaxEvents
  BY ReplicationAssumption DEF Bounded

\* Changes of posts that users make.
LEMMA PostChanges ==
  ASSUME IInv, NEW by \in Authors, NEW n \in DOMAIN posts[by],
         DeletePost(by, n) \/ \E text \in LlmTexts : EditPost(by, n, text)
  PROVE  IInv'
  <1>1. /\ DialoguesOK /\ posts \in PostLists /\ active \in BOOLEAN
        /\ dialogue \in [Messages -> DialogueStates] /\ events \in 0..MaxEvents
    BY KnownBefore
  <1>2. UNCHANGED <<line, busy, active, dialogue, proc>> /\ Bounded
    BY DEF DeletePost, EditPost
  <1>3. posts' \in PostLists /\ Keeps(posts, posts')
    <2>1. CASE DeletePost(by, n)
      <3>1. posts' = [posts EXCEPT ![by][n].live = FALSE]
        BY <2>1 DEF DeletePost
      <3>2. QED
        BY <1>1, <3>1, HiddenKeeps
    <2>2. CASE \E text \in LlmTexts : EditPost(by, n, text)
      <3>1. PICK text \in LlmTexts : EditPost(by, n, text)
        BY <2>2
      <3>2. text \in Text /\ posts' = Edited(posts, <<by, n>>, text)
        BY <3>1, ReplicationAssumption DEF EditPost
      <3>3. Of(posts, <<by, n>>)
        BY <1>1 DEF Of, Ids, PostLists
      <3>4. QED
        BY <1>1, <3>2, <3>3, EditedKeeps
    <2>3. QED
      BY <2>1, <2>2
  <1>4. events' \in 0..MaxEvents
    BY <1>1, <1>2, BoundedEvents
  <1>5. /\ \A m \in Messages : dialogue'[m] = dialogue[m]
        /\ active' \in BOOLEAN /\ dialogue' \in [Messages -> DialogueStates]
        /\ active' <=> \E m \in Messages : dialogue'[m] = "running"
        /\ \A t \in Going : dialogue'[MessageOf(t)] = "running" \/ HasRaised(MessageOf(t))
    BY <1>1, <1>2 DEF DialoguesOK
  <1>6. QED
    BY <1>2, <1>3, <1>4, <1>5, Still

LEMMA HeartbeatStep ==
  ASSUME IInv, NEW t \in Tasks, Heartbeat(t)
  PROVE  IInv'
  <1>1. /\ DialoguesOK /\ posts \in PostLists /\ active \in BOOLEAN
        /\ dialogue \in [Messages -> DialogueStates] /\ events \in 0..MaxEvents
        /\ RecordIn(posts, t, proc[t])
    BY KnownBefore DEF Tasks
  <1>2. UNCHANGED <<line, busy, active, dialogue, proc, events>> /\ proc[t].pc = "llm"
        /\ posts' = Edited(posts, proc[t].post, Stub)
    BY DEF Heartbeat
  <1>3. Of(posts, proc[t].post)
    BY <1>1, <1>2 DEF RecordIn
  <1>4. posts' \in PostLists /\ Keeps(posts, posts')
    BY <1>1, <1>2, <1>3, TextFacts, EditedKeeps
  <1>5. /\ \A m \in Messages : dialogue'[m] = dialogue[m]
        /\ active' \in BOOLEAN /\ dialogue' \in [Messages -> DialogueStates]
        /\ active' <=> \E m \in Messages : dialogue'[m] = "running"
        /\ \A u \in Going : dialogue'[MessageOf(u)] = "running" \/ HasRaised(MessageOf(u))
    BY <1>1, <1>2 DEF DialoguesOK
  <1>6. events' \in 0..MaxEvents
    BY <1>1, <1>2
  <1>7. QED
    BY <1>2, <1>4, <1>5, <1>6, Still

LEMMA KeepsItself ==
  ASSUME NEW ps \in PostLists PROVE Keeps(ps, ps)
  BY DEF Keeps

\* A dialogue that is dropped was not running, and one that is over has nobody
\* at work, unless a branch has raised.
LEMMA DialogueEnds ==
  ASSUME IInv, NEW m \in Messages, Drop(m) \/ DialogueOver(m) \/ DialogueRaised(m)
  PROVE  IInv'
  <1>1. /\ PathsOK /\ RoundsOK /\ Awaited /\ DialoguesOK /\ posts \in PostLists /\ active \in BOOLEAN
        /\ dialogue \in [Messages -> DialogueStates] /\ events \in 0..MaxEvents
    BY KnownBefore
  <1>2. UNCHANGED <<line, busy, proc, events>>
    BY DEF Drop, DialogueOver, DialogueRaised
  <1>3. posts' \in PostLists /\ Keeps(posts, posts')
    <2>1. CASE DialogueRaised(m)
      <3>1. posts' = Added(posts, "agent", Saying({})) /\ "agent" \in Authors
        BY <2>1 DEF DialogueRaised, Authors
      <3>2. QED
        BY <1>1, <3>1, TextFacts, AddedKeeps
    <2>2. CASE Drop(m) \/ DialogueOver(m)
      <3>1. posts' = posts
        BY <2>2 DEF Drop, DialogueOver
      <3>2. QED
        BY <1>1, <3>1, KeepsItself
    <2>3. QED
      BY <2>1, <2>2
  <1>4. CASE Drop(m)
    <2>1. dialogue[m] = "scheduled" /\ active' = active /\ dialogue' = [dialogue EXCEPT ![m] = "dropped"]
      BY <1>4 DEF Drop
    <2>2. /\ dialogue' \in [Messages -> DialogueStates]
          /\ \A k \in Messages : dialogue'[k] = dialogue[k] \/ (dialogue[k] = "scheduled" /\ dialogue'[k] = "dropped")
          /\ \A k \in Messages : dialogue'[k] = "running" <=> dialogue[k] = "running"
      BY <1>1, <2>1 DEF DialogueStates
    <2>3. active' <=> \E k \in Messages : dialogue'[k] = "running"
      BY <1>1, <2>1, <2>2 DEF DialoguesOK
    <2>4. \A t \in Going : dialogue'[MessageOf(t)] = "running" \/ HasRaised(MessageOf(t))
      <3>1. \A t \in Going : MessageOf(t) \in Messages
        BY <1>1, TaskFacts DEF Going, MessageOf
      <3>2. QED
        BY <1>1, <2>2, <3>1 DEF DialoguesOK
    <2>5. active' \in BOOLEAN /\ events' \in 0..MaxEvents
      BY <1>1, <1>2, <2>1
    <2>6. QED
      BY <1>2, <1>3, <2>2, <2>3, <2>4, <2>5, Still
  <1>5. CASE DialogueOver(m) \/ DialogueRaised(m)
    <2>1. dialogue[m] = "running" /\ active' = FALSE /\ dialogue' = [dialogue EXCEPT ![m] = "over"]
      BY <1>5 DEF DialogueOver, DialogueRaised
    <2>2. /\ dialogue' \in [Messages -> DialogueStates]
          /\ \A k \in Messages : dialogue'[k] = dialogue[k] \/ (dialogue[k] = "running" /\ dialogue'[k] = "over")
          /\ \A k \in Messages : dialogue'[k] = "running" => dialogue[k] = "running" /\ k # m
          /\ \A k \in Messages : k # m => dialogue'[k] = dialogue[k]
      BY <1>1, <2>1 DEF DialogueStates
    <2>3. active' <=> \E k \in Messages : dialogue'[k] = "running"
      <3>1. \A k \in Messages : dialogue'[k] # "running"
        BY <1>1, <2>1, <2>2 DEF DialoguesOK
      <3>2. QED
        BY <2>1, <3>1
    <2>4. ASSUME NEW t \in Going PROVE dialogue'[MessageOf(t)] = "running" \/ HasRaised(MessageOf(t))
      <3>1. t \in Tasks /\ t[1] \in Messages /\ t \in Paths /\ Len(t) \in 2..MaxRql + 1
        BY <1>1, TaskFacts DEF Going
      <3>2. CASE t[1] # m
        BY <1>1, <2>2, <3>1, <3>2 DEF DialoguesOK, MessageOf
      <3>3. CASE t[1] = m
        <4>1. CASE DialogueRaised(m)
          <5>1. PICK u \in Children(Handler(m), 1) : proc[u].pc = "raised"
            BY <4>1 DEF DialogueRaised, OneRaised
          <5>2. u \in Tasks /\ u \in Paths
            BY <1>1, TaskFacts DEF Children
          <5>3. u[1] = m
            BY <5>1, <5>2, HandlerFacts, PathOfChild
          <5>4. QED
            BY <3>3, <5>1, <5>2, <5>3 DEF HasRaised, MessageOf
        <4>2. CASE DialogueOver(m)
          <5>1. AllEnded(Handler(m), 1)
            BY <4>2 DEF DialogueOver
          <5>2. Handler(m) \in DOMAIN proc
            BY <1>1, <2>1 DEF RoundsOK
          <5>3. Len(Handler(m)) = 1 /\ MessageOf(Handler(m)) = m
            BY HandlerFacts
          <5>4. AtRest(Handler(m))
            BY <1>1, <5>1, <5>2, <5>3, EndedAtRest DEF Tree
          <5>5. PICK n \in 1..Len(t) - 1 : n = 1 /\ n \in 1..Len(t)
            BY <3>1, ReplicationAssumption
          <5>6. Prefix(t, n) = Handler(m)
            BY <1>1, <3>1, <3>3, <5>5, ParentFacts
          <5>7. QED
            BY <3>3, <5>3, <5>4, <5>5, <5>6 DEF AtRest, MessageOf
        <4>3. QED
          BY <1>5, <4>1, <4>2
      <3>4. QED
        BY <3>2, <3>3
    <2>5. active' \in BOOLEAN /\ events' \in 0..MaxEvents
      BY <1>1, <1>2, <2>1
    <2>6. QED
      BY <1>2, <1>3, <2>2, <2>3, <2>4, <2>5, Still
  <1>6. QED
    BY <1>4, <1>5
\* A message of its own comes with its handler.
LEMMA SendStep ==
  ASSUME IInv, NEW m \in Messages, NEW text \in UserTexts[m], Send(m, text)
  PROVE  IInv'
  <1> DEFINE h == Handler(m)
             r == [Idle EXCEPT !.pc = "sent", !.post = NewId(m), !.text = text]
  <1>1. /\ StateOK /\ PathsOK /\ RoundsOK /\ Awaited /\ DialoguesOK /\ Lock
        /\ posts \in PostLists /\ busy \subseteq Actors \cup {"agent"} /\ active \in BOOLEAN
        /\ dialogue \in [Messages -> DialogueStates] /\ events \in 0..MaxEvents
        /\ \A p \in DOMAIN proc : RecordIn(posts, p, proc[p])
    BY KnownBefore
  <1>2. /\ h \notin DOMAIN proc /\ posts' = Added(posts, m, text)
        /\ proc' = [p \in DOMAIN proc \cup {h} |-> IF p = h THEN r ELSE proc[p]]
        /\ UNCHANGED <<line, busy, active, dialogue, events>>
    BY DEF Send
  <1>3. text \in Text /\ m \in Authors
    BY ReplicationAssumption DEF Authors
  <1>4. posts' \in PostLists /\ Keeps(posts, posts') /\ Of(posts', NewId(m))
    BY <1>1, <1>2, <1>3, AddedKeeps DEF NewId
  <1>5. h \in Paths /\ Len(h) = 1 /\ h[1] = m
    BY HandlerFacts
  <1>6. RecordIn(posts', h, r)
    <2>1. NewId(m) \in Ids /\ Stub \in Text
      BY <1>4, TextFacts DEF Of
    <2>2. r \in Records /\ r.pc = "sent" /\ r.post = NewId(m) /\ r.stub = NoPost
      BY <1>3, <2>1 DEF Records, Pcs, Idle
    <2> HIDE DEF r
    <2>3. QED
      BY <1>4, <1>5, <2>2 DEF RecordIn
  <1>7. r.pc = "sent"
    BY DEF Idle
  <1> HIDE DEF r, h
  <1>8. /\ DOMAIN proc' = DOMAIN proc \cup {h} /\ proc'[h] = r
        /\ \A p \in DOMAIN proc : proc'[p] = proc[p] /\ p # h
    BY <1>2
  <1>9. Tasks' = Tasks
    <2>1. ~ (Len(h) > 1)
      BY <1>5
    <2>2. \A t : t \in DOMAIN proc' /\ Len(t) > 1 <=> t \in DOMAIN proc /\ Len(t) > 1
      BY <1>8, <2>1
    <2>3. QED
      BY <2>2 DEF Tasks
  <1>10. StateOK'
    <2>1. \A p \in DOMAIN proc' : RecordIn(posts', p, proc'[p])
      BY <1>1, <1>4, <1>6, <1>8, RecordKept
    <2>2. (\A p \in DOMAIN proc : RecordOK(p, proc[p]))'
      BY <2>1 DEF RecordOK, RecordIn, Known, Of
    <2>3. QED
      BY <1>1, <1>2, <1>4, <2>2 DEF StateOK, PostLists, DialogueStates
  <1>11. PathsOK'
    <2>1. ASSUME NEW p, p = h
          PROVE  /\ p \in Paths /\ Len(p) \in 1..MaxRql + 1 /\ p[1] \in Messages
                 /\ \A i \in 2..Len(p) : p[i] \in {1, 2} \X Actors
                 /\ \A n \in 1..Len(p) : Prefix(p, n) \in DOMAIN proc'
      <3>1. Len(p) \in 1..MaxRql + 1 /\ p[1] \in Messages /\ p \in Paths
        <4>1. 1 \in 1..MaxRql + 1
          BY ReplicationAssumption
        <4>2. QED
          BY <1>5, <2>1, <4>1
      <3>2. \A i \in 2..Len(p) : FALSE
        <4>1. Len(p) = 1
          BY <1>5, <2>1
        <4>2. QED
          BY <4>1
      <3>3. Prefix(p, Len(p)) = p
        <4>1. Len(p) \in 1..Len(p)
          BY <1>5, <2>1, SMTT(30)
        <4>2. QED
          BY <3>1, <4>1, PathPrefix
      <3>4. \A n \in 1..Len(p) : n = Len(p)
        BY <1>5, <2>1
      <3>5. QED
        BY <1>8, <2>1, <3>1, <3>2, <3>3, <3>4
    <2>2. \A p \in DOMAIN proc :
             /\ p \in Paths /\ Len(p) \in 1..MaxRql + 1 /\ p[1] \in Messages
             /\ \A i \in 2..Len(p) : p[i] \in {1, 2} \X Actors
             /\ \A n \in 1..Len(p) : Prefix(p, n) \in DOMAIN proc'
      BY <1>1, <1>8 DEF PathsOK
    <2>3. QED
      BY <1>8, <2>1, <2>2 DEF PathsOK, Paths, Prefix
  <1>12. RoundsOK'
    <2>1. \A k \in Messages : (Handler(k) \in DOMAIN proc' /\ proc'[Handler(k)].pc = "done") \/ dialogue[k] = "none"
      BY <1>1, <1>8 DEF RoundsOK
    <2>2. \A t \in Tasks : Len(t) # 2 => proc'[Prefix(t, Len(t) - 1)] = proc[Prefix(t, Len(t) - 1)]
      <3>1. ASSUME NEW t \in Tasks PROVE Prefix(t, Len(t) - 1) \in DOMAIN proc
        <4>1. Len(t) \in 2..MaxRql + 1
          BY <1>1, TaskFacts
        <4>2. Len(t) - 1 \in 1..Len(t)
          BY <4>1, ReplicationAssumption
        <4>3. QED
          BY <1>1, <4>2, TaskFacts
      <3>2. QED
        BY <1>8, <3>1
    <2>3. \A t \in Tasks : IF Len(t) = 2 THEN t[2][1] = 1 /\ dialogue[t[1]] \in {"running", "over"}
                           ELSE /\ proc'[Prefix(t, Len(t) - 1)].pc \in {"gather", "ended", "raised"}
                                /\ proc'[Prefix(t, Len(t) - 1)].pc = "gather" /\ t[Len(t)][1] = 2 =>
                                      proc'[Prefix(t, Len(t) - 1)].round = 2
      BY <1>1, <2>2 DEF RoundsOK
    <2>4. dialogue' = dialogue
      BY <1>2
    <2>5. QED
      BY <1>9, <2>1, <2>3, <2>4 DEF RoundsOK, Handler, Prefix
  <1>13. Going' = Going /\ \A k : HasRaised(k)' <=> HasRaised(k)
    <2>1. \A t \in Tasks : proc'[t] = proc[t]
      BY <1>8 DEF Tasks
    <2>2. QED
      BY <1>9, <2>1 DEF Going, HasRaised, MessageOf
  <1>14. Awaited'
    <2>1. ASSUME NEW t \in Going, NEW n \in 2..Len(t) - 1 PROVE Prefix(t, n) \in DOMAIN proc
      <3>1. t \in Tasks /\ Len(t) \in 2..MaxRql + 1
        BY <1>1, TaskFacts DEF Going
      <3>2. n \in 1..Len(t)
        BY <3>1, ReplicationAssumption
      <3>3. QED
        BY <1>1, <3>1, <3>2, TaskFacts
    <2>2. \A t \in Going : \A n \in 2..Len(t) - 1 : proc'[Prefix(t, n)] = proc[Prefix(t, n)]
      BY <1>8, <2>1
    <2>3. \A t \in Going : HasRaised(MessageOf(t)) \/ \A n \in 2..Len(t) - 1 :
             proc'[Prefix(t, n)].pc = "gather" /\ proc'[Prefix(t, n)].round = t[n + 1][1]
      BY <1>1, <2>2 DEF Awaited
    <2>4. \A t \in Going' : HasRaised(MessageOf(t))' \/ \A n \in 2..Len(t) - 1 :
             proc'[Prefix(t, n)].pc = "gather" /\ proc'[Prefix(t, n)].round = t[n + 1][1]
      BY <1>13, <2>3
    <2>5. QED
      BY <2>4 DEF Awaited, MessageOf, Prefix
  <1>15. DialoguesOK'
    <2>1. active' = active /\ dialogue' = dialogue
      BY <1>2
    <2>2. \A t \in Going' : dialogue'[MessageOf(t)] = "running" \/ HasRaised(MessageOf(t))'
      BY <1>1, <1>13, <2>1 DEF DialoguesOK
    <2>3. QED
      BY <1>1, <2>1, <2>2 DEF DialoguesOK, MessageOf
  <1>16. Lock'
    <2>1. \A q : (Held(q)' <=> Held(q)) /\ (Held(q) => proc'[q].pc = proc[q].pc)
      BY <1>7, <1>8 DEF Held
    <2>2. QED
      BY <1>1, <1>2, <2>1, LockStays
  <1>17. QED
    BY <1>10, <1>11, <1>12, <1>14, <1>15, <1>16, Parts

\* A handler shows a progress post, or not, and waits for the lock.
LEMMA ProcessStep ==
  ASSUME IInv, NEW m \in Messages, Handler(m) \in DOMAIN proc, Process(m)
  PROVE  IInv'
  <1>1. PICK h : h = Handler(m)
    OBVIOUS
  <1>2. /\ h \in DOMAIN proc /\ proc[h].pc = "sent" /\ line' = Append(line, h)
        /\ UNCHANGED <<busy, active, dialogue, events>>
    BY <1>1 DEF Process, Enqueue
  <1>3. /\ PathsOK /\ Lock /\ posts \in PostLists /\ busy \subseteq Actors \cup {"agent"}
        /\ events \in 0..MaxEvents /\ RecordIn(posts, h, proc[h])
    BY <1>2, KnownBefore
  <1>4. PICK r : /\ proc' = [proc EXCEPT ![h] = r] /\ r.pc = "wait" /\ posts' \in PostLists
                 /\ Keeps(posts, posts') /\ RecordIn(posts', h, r)
    <2>1. CASE proc' = [proc EXCEPT ![h].pc = "wait"] /\ posts' = posts
      <3> DEFINE r == [proc[h] EXCEPT !.pc = "wait"]
      <3>1. proc' = [proc EXCEPT ![h] = r]
        BY <2>1
      <3>2. /\ r \in Records /\ r.pc = "wait" /\ r.post = proc[h].post /\ r.stub = proc[h].stub
        BY <1>3 DEF RecordIn, Records, Pcs
      <3> HIDE DEF r
      <3>3. RecordIn(posts', h, r)
        BY <1>2, <1>3, <2>1, <3>2 DEF RecordIn
      <3>4. QED
        BY <1>3, <2>1, <3>1, <3>2, <3>3, KeepsItself
    <2>2. CASE \E x \in Actors : posts' = Added(posts, x, Stub) /\ proc' = [proc EXCEPT ![h].pc = "wait", ![h].stub = NewId(x)]
      <3>1. PICK x \in Actors : posts' = Added(posts, x, Stub) /\ proc' = [proc EXCEPT ![h].pc = "wait", ![h].stub = NewId(x)]
        BY <2>2
      <3>2. posts' \in PostLists /\ Keeps(posts, posts') /\ Of(posts', NewId(x))
        BY <1>3, <3>1, TextFacts, AddedKeeps DEF NewId, Authors
      <3> DEFINE r == [proc[h] EXCEPT !.pc = "wait", !.stub = NewId(x)]
      <3>3. proc' = [proc EXCEPT ![h] = r]
        BY <3>1
      <3>4. NewId(x) \in Ids
        BY <3>2 DEF Of
      <3>5. /\ r \in Records /\ r.pc = "wait" /\ r.post = proc[h].post /\ r.stub = NewId(x)
        BY <1>3, <3>4 DEF RecordIn, Records, Pcs
      <3> HIDE DEF r
      <3>6. RecordIn(posts', h, proc[h])
        BY <1>3, <3>2, RecordKept
      <3>7. RecordIn(posts', h, r)
        BY <1>2, <3>2, <3>5, <3>6 DEF RecordIn
      <3>8. QED
        BY <3>2, <3>3, <3>5, <3>7
    <2>3. QED
      BY <1>1, <2>1, <2>2 DEF Process, Triggers
  <1>5. Others(h) /\ Held(h)'
    BY <1>2, <1>4, AloneMoves
  <1>6. Lock'
    <2>1. h \in Paths /\ ~Held(h) /\ proc'[h].pc \in {"wait", "turn"} /\ UNCHANGED busy
      BY <1>2, <1>3, <1>4 DEF PathsOK, Held
    <2>2. QED
      BY <1>2, <1>3, <1>5, <2>1, LockJoined
  <1>7. events' \in 0..MaxEvents /\ busy' \subseteq Actors \cup {"agent"} /\ UNCHANGED active /\ dialogue' = dialogue
    BY <1>2, <1>3
  <1>8. proc[h].pc \notin {"gather", "ended", "raised", "done"}
    BY <1>2
  <1>9. QED
    BY <1>2, <1>4, <1>6, <1>7, <1>8, WorkerMoves

\* The agent begins to run the commands of a post.
LEMMA HandsStep ==
  ASSUME IInv, NEW p \in DOMAIN proc, HandsEnter(p)
  PROVE  IInv'
  <1>1. /\ proc[p].pc = "wait" /\ line # <<>> /\ line[1] = p /\ busy' = busy \cup {"agent"}
        /\ proc' = [proc EXCEPT ![p].pc = "hands"] /\ UNCHANGED <<posts, line, active, dialogue, events>>
    BY DEF HandsEnter, Enter
  <1>2. /\ Lock /\ posts \in PostLists /\ busy \subseteq Actors \cup {"agent"}
        /\ events \in 0..MaxEvents /\ RecordIn(posts, p, proc[p])
    BY KnownBefore
  <1> DEFINE r == [proc[p] EXCEPT !.pc = "hands"]
  <1>3. proc' = [proc EXCEPT ![p] = r]
    BY <1>1
  <1>4. r \in Records /\ r.pc = "hands" /\ r.post = proc[p].post /\ r.stub = proc[p].stub
    BY <1>2 DEF RecordIn, Records, Pcs
  <1> HIDE DEF r
  <1>5. RecordIn(posts', p, r) /\ posts' \in PostLists /\ Keeps(posts, posts')
    <2>1. posts' = posts
      BY <1>1
    <2>2. RecordIn(posts, p, r)
      BY <1>1, <1>2, <1>4 DEF RecordIn
    <2>3. QED
      BY <1>2, <2>1, <2>2, KeepsItself
  <1>6. Others(p) /\ In(p)'
    BY <1>3, <1>4, AloneMoves
  <1>7. Lock'
    <2>1. Held(p) /\ ~In(p) /\ line' = line
      BY <1>1 DEF Held, In
    <2>2. NameOf(p)' = "agent"
      BY <1>3, <1>4 DEF NameOf
    <2>3. busy' = busy \cup {NameOf(p)'}
      BY <1>1, <2>2
    <2>4. QED
      BY <1>1, <1>2, <1>6, <2>1, <2>3, LockEntered
  <1>8. events' \in 0..MaxEvents /\ busy' \subseteq Actors \cup {"agent"} /\ UNCHANGED active /\ dialogue' = dialogue
    BY <1>1, <1>2
  <1>9. proc[p].pc \notin {"gather", "ended", "raised", "done"}
    BY <1>1
  <1>10. QED
    BY <1>3, <1>5, <1>7, <1>8, <1>9, WorkerMoves
\* The agent has run the commands of a user's post.
LEMMA ProcessedStep ==
  ASSUME IInv, NEW m \in Messages, Handler(m) \in DOMAIN proc,
         NEW text \in Results(proc[Handler(m)].text), NEW reply \in Replies[m], Processed(m, text, reply)
  PROVE  IInv'
  <1>1. PICK h : h = Handler(m)
    OBVIOUS
  <1> DEFINE edited == IF text = proc[h].text THEN posts ELSE Edited(posts, proc[h].post, text)
             r == [proc[h] EXCEPT !.pc = "done"]
             d == IF Triggers(text) = {} THEN "none" ELSE "scheduled"
  <1>2. /\ h \in DOMAIN proc /\ proc[h].pc = "hands" /\ posts' = Replied(edited, reply, m)
        /\ line' = Tail(line) /\ busy' = busy \ {NameOf(h)} /\ proc' = [proc EXCEPT ![h] = r]
        /\ dialogue' = [dialogue EXCEPT ![m] = d] /\ UNCHANGED <<active, events>>
    BY <1>1 DEF Processed, Leave
  <1>3. /\ Lock /\ posts \in PostLists /\ busy \subseteq Actors \cup {"agent"}
        /\ events \in 0..MaxEvents /\ RecordIn(posts, h, proc[h])
    BY <1>2, KnownBefore
  <1>4. text \in Text /\ reply \in {"none", "plain", "named"}
    <2>1. proc[h].text \in Text
      BY <1>3 DEF RecordIn, Records
    <2>2. text \in Text
      BY <1>1, <2>1, TextFacts DEF Results
    <2>3. QED
      BY <2>2, ReplicationAssumption
  <1>5. edited \in PostLists /\ Keeps(posts, edited)
    <2>1. Of(posts, proc[h].post)
      BY <1>2, <1>3 DEF RecordIn
    <2>2. QED
      BY <1>3, <1>4, <2>1, EditedKeeps, KeepsItself
  <1> HIDE DEF edited
  <1>6. posts' \in PostLists /\ Keeps(posts, posts')
    BY <1>2, <1>4, <1>5, RepliedKeeps, KeepsBoth
  <1>7. h[1] = m /\ Len(h) = 1
    BY <1>1, HandlerFacts
  <1>8. r \in Records /\ r.pc = "done" /\ r.post = proc[h].post /\ r.stub = proc[h].stub
    BY <1>3 DEF RecordIn, Records, Pcs
  <1> HIDE DEF r
  <1>9. RecordIn(posts', h, r)
    <2>1. RecordIn(posts', h, proc[h])
      BY <1>3, <1>6, RecordKept
    <2>2. QED
      BY <1>7, <1>8, <2>1 DEF RecordIn
  <1>10. Others(h) /\ ~Held(h)'
    BY <1>2, <1>8, AloneMoves
  <1>11. Lock'
    <2>1. In(h)
      BY <1>2 DEF In
    <2>2. QED
      BY <1>2, <1>3, <1>10, <2>1, LockLeft
  <1>12. events' \in 0..MaxEvents /\ busy' \subseteq Actors \cup {"agent"} /\ UNCHANGED active
    BY <1>2, <1>3
  <1>13. proc[h].pc \notin {"gather", "ended", "raised", "done"}
    BY <1>2
  <1>14. Len(h) = 1 /\ r.pc = "done" /\ \E e \in {"none", "scheduled"} : dialogue' = [dialogue EXCEPT ![h[1]] = e]
    BY <1>2, <1>7, <1>8
  <1>15. QED
    BY <1>2, <1>6, <1>9, <1>11, <1>12, <1>13, <1>14, WorkerMoves

\* A dialogue begins, and no other runs.
LEMMA ReplicateStep ==
  ASSUME IInv, NEW m \in Messages, Replicate(m)
  PROVE  IInv'
  <1>1. PICK h : h = Handler(m)
    OBVIOUS
  <1>2. PICK R : R = Addressed(posts, proc[h].post)
    OBVIOUS
  <1> DEFINE d == IF R = {} THEN "over" ELSE "running"
  <1>3. /\ dialogue[m] = "scheduled" /\ ~active /\ active' = (R # {}) /\ dialogue' = [dialogue EXCEPT ![m] = d]
        /\ proc' = Spawned(h, 1, R) /\ UNCHANGED <<posts, line, busy, events>>
    BY <1>1, <1>2 DEF Replicate
  <1>4. /\ StateOK /\ PathsOK /\ RoundsOK /\ Awaited /\ DialoguesOK /\ Lock
        /\ posts \in PostLists /\ busy \subseteq Actors \cup {"agent"} /\ active \in BOOLEAN
        /\ dialogue \in [Messages -> DialogueStates] /\ events \in 0..MaxEvents
        /\ \A p \in DOMAIN proc : RecordIn(posts, p, proc[p])
    BY KnownBefore
  <1>5. h \in DOMAIN proc /\ proc[h].pc = "done"
    BY <1>1, <1>3, <1>4 DEF RoundsOK
  <1>6. Len(h) = 1 /\ h[1] = m /\ MessageOf(h) = m
    BY <1>1, HandlerFacts
  <1>7. R \in SUBSET Actors
    BY <1>2 DEF Addressed
  <1>8. \A t \in Tasks : t[1] # m
    BY <1>3, <1>4, TaskDialogue
  <1>9. Childless(h)
    <2>1. SUFFICES ASSUME NEW t \in Tasks, Prefix(t, Len(t) - 1) = h PROVE FALSE
      BY DEF Childless
    <2>2. Len(t) \in 2..MaxRql + 1
      BY <1>4, TaskFacts
    <2>3. PICK n \in 1..Len(t) : n = Len(t) - 1
      <3>1. Len(t) - 1 \in 1..Len(t)
        BY <2>2, ReplicationAssumption
      <3>2. QED
        BY <3>1
    <2>4. h[1] = t[1]
      BY <1>4, <2>1, <2>3, ParentFacts
    <2>5. QED
      BY <1>6, <1>8, <2>4
  <1>10. Fresh(h, 1, R) /\ AtRest(h)
    BY <1>4, <1>5, <1>7, <1>9, ChildlessFresh, ChildlessAtRest
  <1>11. PICK r : r = proc[h]
    OBVIOUS
  <1>12. Moves(h, r, 1, R)
    <2>1. proc' = [q \in DOMAIN proc \cup New(h, 1, R) |-> IF q \in New(h, 1, R) THEN Idle ELSE proc[q]]
      BY <1>3 DEF Spawned, New
    <2>2. QED
      BY <1>5, <1>10, <1>11, <2>1 DEF Moves, Fresh
  <1>13. /\ dialogue' \in [Messages -> DialogueStates] /\ dialogue'[m] = d
         /\ \A k \in Messages : k # m => dialogue'[k] = dialogue[k]
    BY <1>3, <1>4 DEF DialogueStates
  <1>14. Starts(h, r, 1, R)
    BY <1>6, <1>13 DEF Starts
  <1>15. posts' \in PostLists /\ Keeps(posts, posts') /\ RecordIn(posts', h, r)
    BY <1>3, <1>4, <1>5, <1>11, KeepsItself
  <1>16. busy' \subseteq Actors \cup {"agent"} /\ active' \in BOOLEAN /\ events' \in 0..MaxEvents
    BY <1>3, <1>4
  <1>17. 1 \in {1, 2} /\ proc[h].pc \notin {"ended", "raised"}
    BY <1>5
  <1>18. StateOK'
    BY <1>4, <1>5, <1>7, <1>10, <1>12, <1>13, <1>15, <1>16, <1>17, MovesState
  <1>19. PathsOK'
    <2>1. R # {} => Len(h) <= MaxRql
      BY <1>6, ReplicationAssumption
    <2>2. QED
      BY <1>4, <1>5, <1>7, <1>12, <1>17, <2>1, MovesPaths
  <1>20. RoundsOK'
    <2>1. \A k \in Messages : \/ dialogue'[k] = dialogue[k]
                              \/ dialogue'[k] \in {"running", "over"}
                              \/ ~ \E t \in Tasks : t[1] = k
      BY <1>13
    <2>2. \A k \in Messages : (Handler(k) \in DOMAIN proc' /\ proc'[Handler(k)].pc = "done") \/ dialogue'[k] = "none"
      <3>1. SUFFICES ASSUME NEW k \in Messages, dialogue'[k] # "none"
                     PROVE  Handler(k) \in DOMAIN proc' /\ proc'[Handler(k)].pc = "done"
        OBVIOUS
      <3>2. Handler(k) \in DOMAIN proc /\ proc[Handler(k)].pc = "done"
        BY <1>1, <1>4, <1>5, <1>13, <3>1 DEF RoundsOK
      <3>3. QED
        BY <1>10, <1>11, <1>12, <3>2 DEF Moves, Fresh
    <2>3. Childless(h) \/ Len(h) = 1 \/ r.pc \in {"ended", "raised"} \/ (r.pc = "gather" /\ r.round = 2)
      BY <1>9
    <2>4. QED
      BY <1>4, <1>5, <1>7, <1>10, <1>12, <1>14, <1>17, <2>1, <2>2, <2>3, MovesRounds
  <1>21. Awaited'
    BY <1>4, <1>5, <1>7, <1>10, <1>12, <1>14, <1>17, MovesAwaited
  <1>22. DialoguesOK'
    <2>1. \A k \in Messages : dialogue[k] # "running"
      BY <1>3, <1>4 DEF DialoguesOK
    <2>2. \A k \in Messages : dialogue'[k] = "running" <=> k = m /\ R # {}
      BY <1>13, <2>1
    <2>3. /\ \A k \in Messages : dialogue[k] = "running" => dialogue'[k] = "running"
          /\ R # {} /\ Len(h) = 1 => dialogue'[h[1]] = "running"
          /\ active' <=> \E k \in Messages : dialogue'[k] = "running"
          /\ \A k, n \in Messages : dialogue'[k] = "running" /\ dialogue'[n] = "running" => k = n
      BY <1>3, <1>6, <2>1, <2>2
    <2>4. QED
      BY <1>4, <1>5, <1>7, <1>10, <1>12, <1>17, <2>3, MovesDialogues
  <1>23. Lock'
    <2>1. Others(h) /\ ~Held(h) /\ ~Held(h)'
      BY <1>5, <1>10, <1>11, <1>12, MovesOthers DEF Held
    <2>2. \A q : (Held(q)' <=> Held(q)) /\ (Held(q) => proc'[q].pc = proc[q].pc)
      BY <2>1 DEF Others
    <2>3. QED
      BY <1>3, <1>4, <2>2, LockStays
  <1>24. QED
    BY <1>18, <1>19, <1>20, <1>21, <1>22, <1>23, Parts
\* A coroutine takes or makes its progress post and waits for the lock.
LEMMA StartStep ==
  ASSUME IInv, NEW t \in Tasks, Start(t)
  PROVE  IInv'
  <1> DEFINE last == latest_post(posts, Actor(t))
             reuse == last # NoPost /\ Post(posts, last).text.stub
             i == IF reuse THEN last ELSE NewId(Actor(t))
             r == [proc[t] EXCEPT !.pc = "turn", !.post = i]
  <1>1. /\ proc[t].pc = "new" /\ posts' = (IF reuse THEN posts ELSE Added(posts, Actor(t), Stub))
        /\ proc' = [proc EXCEPT ![t] = r] /\ line' = Append(line, t)
        /\ UNCHANGED <<busy, active, dialogue, events>>
    BY DEF Start, Enqueue
  <1>2. /\ PathsOK /\ Lock /\ posts \in PostLists /\ busy \subseteq Actors \cup {"agent"}
        /\ events \in 0..MaxEvents /\ t \in DOMAIN proc /\ RecordIn(posts, t, proc[t])
    BY KnownBefore DEF Tasks
  <1>3. Actor(t) \in Authors /\ t \in Paths
    BY <1>2, TaskFacts DEF Authors
  <1>4. posts' \in PostLists /\ Keeps(posts, posts') /\ Of(posts', i)
    <2>1. CASE reuse
      <3>1. posts' = posts /\ i = last
        BY <1>1, <2>1
      <3>2. Of(posts, last)
        BY <1>2, <1>3, <2>1, LatestIsOne
      <3> HIDE DEF last, i
      <3>3. QED
        BY <1>2, <3>1, <3>2, KeepsItself
    <2>2. CASE ~reuse
      <3>1. posts' = Added(posts, Actor(t), Stub) /\ i = NewId(Actor(t))
        BY <1>1, <2>2
      <3> HIDE DEF i
      <3>2. QED
        BY <1>2, <1>3, <3>1, TextFacts, AddedKeeps DEF NewId
    <2>3. QED
      BY <2>1, <2>2
  <1> HIDE DEF reuse, i
  <1>5. r \in Records /\ r.pc = "turn" /\ r.post = i /\ r.stub = proc[t].stub
    <2>1. i \in Ids
      BY <1>4 DEF Of
    <2>2. QED
      BY <1>2, <2>1 DEF RecordIn, Records, Pcs
  <1> HIDE DEF r
  <1>6. RecordIn(posts', t, r)
    <2>1. RecordIn(posts', t, proc[t])
      BY <1>2, <1>4, RecordKept
    <2>2. QED
      BY <1>1, <1>4, <1>5, <2>1 DEF RecordIn
  <1>7. Others(t) /\ Held(t)'
    BY <1>1, <1>2, <1>5, AloneMoves
  <1>8. Lock'
    <2>1. ~Held(t) /\ proc'[t].pc \in {"wait", "turn"} /\ UNCHANGED busy
      BY <1>1, <1>2, <1>5 DEF Held
    <2>2. QED
      BY <1>1, <1>2, <1>3, <1>7, <2>1, LockJoined
  <1>9. events' \in 0..MaxEvents /\ busy' \subseteq Actors \cup {"agent"} /\ UNCHANGED active /\ dialogue' = dialogue
    BY <1>1, <1>2
  <1>10. proc[t].pc \notin {"gather", "ended", "raised", "done"}
    BY <1>1
  <1>11. QED
    BY <1>1, <1>2, <1>4, <1>6, <1>8, <1>9, <1>10, WorkerMoves

\* A coroutine begins to talk to its LLM.
LEMMA AskStep ==
  ASSUME IInv, NEW t \in Tasks, Ask(t)
  PROVE  IInv'
  <1> DEFINE r == [proc[t] EXCEPT !.pc = "llm"]
  <1>1. /\ proc[t].pc = "turn" /\ line # <<>> /\ line[1] = t /\ busy' = busy \cup {Actor(t)}
        /\ proc' = [proc EXCEPT ![t] = r] /\ posts' = Edited(posts, proc[t].post, Stub)
        /\ UNCHANGED <<line, active, dialogue, events>>
    BY DEF Ask, Enter
  <1>2. /\ PathsOK /\ Lock /\ posts \in PostLists /\ busy \subseteq Actors \cup {"agent"}
        /\ events \in 0..MaxEvents /\ t \in DOMAIN proc /\ RecordIn(posts, t, proc[t])
    BY KnownBefore DEF Tasks
  <1>3. posts' \in PostLists /\ Keeps(posts, posts')
    <2>1. Of(posts, proc[t].post)
      BY <1>1, <1>2 DEF RecordIn
    <2>2. QED
      BY <1>1, <1>2, <2>1, TextFacts, EditedKeeps
  <1>4. r \in Records /\ r.pc = "llm" /\ r.post = proc[t].post /\ r.stub = proc[t].stub
    BY <1>2 DEF RecordIn, Records, Pcs
  <1> HIDE DEF r
  <1>5. RecordIn(posts', t, r)
    <2>1. RecordIn(posts', t, proc[t])
      BY <1>2, <1>3, RecordKept
    <2>2. QED
      BY <1>1, <1>4, <2>1 DEF RecordIn
  <1>6. Others(t) /\ In(t)'
    BY <1>1, <1>2, <1>4, AloneMoves
  <1>7. Lock'
    <2>1. Held(t) /\ ~In(t) /\ line' = line
      BY <1>1, <1>2 DEF Held, In
    <2>2. NameOf(t)' = Actor(t)
      BY <1>1, <1>2, <1>4 DEF NameOf, Actor
    <2>3. busy' = busy \cup {NameOf(t)'}
      BY <1>1, <2>2
    <2>4. QED
      BY <1>1, <1>2, <1>6, <2>1, <2>3, LockEntered
  <1>8. events' \in 0..MaxEvents /\ busy' \subseteq Actors \cup {"agent"} /\ UNCHANGED active /\ dialogue' = dialogue
    BY <1>1, <1>2, TaskFacts
  <1>9. proc[t].pc \notin {"gather", "ended", "raised", "done"}
    BY <1>1
  <1>10. QED
    BY <1>1, <1>2, <1>3, <1>5, <1>7, <1>8, <1>9, WorkerMoves

\* The answer of an LLM, or an error in its place.
LEMMA AnswerStep ==
  ASSUME IInv, NEW t \in Tasks, ProviderFails(t) \/ \E text \in LlmTexts : Answer(t, text)
  PROVE  IInv'
  <1>1. /\ PathsOK /\ Lock /\ posts \in PostLists /\ busy \subseteq Actors \cup {"agent"}
        /\ events \in 0..MaxEvents /\ t \in DOMAIN proc /\ RecordIn(posts, t, proc[t])
    BY KnownBefore DEF Tasks
  <1>2. PICK text \in Text, ps \in {posts, Added(posts, "agent", Saying({}))} :
          /\ proc[t].pc = "llm" /\ posts' = Edited(ps, proc[t].post, text)
          /\ busy' = busy \ {NameOf(t)} /\ line' = Append(Tail(line), t)
          /\ proc' = [proc EXCEPT ![t].pc = "wait", ![t].text = text]
          /\ UNCHANGED <<active, dialogue>> /\ (events' = events \/ Bounded)
    <2>1. CASE ProviderFails(t)
      BY <2>1, TextFacts DEF ProviderFails
    <2>2. CASE \E text \in LlmTexts : Answer(t, text)
      BY <2>2, ReplicationAssumption DEF Answer
    <2>3. QED
      BY <2>1, <2>2
  <1>3. ps \in PostLists /\ Keeps(posts, ps)
    BY <1>1, AddedKeeps, KeepsItself, TextFacts DEF Authors
  <1>4. posts' \in PostLists /\ Keeps(posts, posts')
    <2>1. Of(posts, proc[t].post)
      BY <1>1, <1>2 DEF RecordIn
    <2>2. Of(ps, proc[t].post)
      BY <1>3, <2>1, KeepsPost
    <2>3. posts' \in PostLists /\ Keeps(ps, posts')
      BY <1>2, <1>3, <2>2, EditedKeeps
    <2>4. QED
      BY <1>3, <2>3, KeepsBoth
  <1> DEFINE r == [proc[t] EXCEPT !.pc = "wait", !.text = text]
  <1>5. proc' = [proc EXCEPT ![t] = r]
    BY <1>2
  <1>6. r \in Records /\ r.pc = "wait" /\ r.post = proc[t].post /\ r.stub = proc[t].stub
    BY <1>1 DEF RecordIn, Records, Pcs
  <1> HIDE DEF r
  <1>7. RecordIn(posts', t, r)
    <2>1. RecordIn(posts', t, proc[t])
      BY <1>1, <1>4, RecordKept
    <2>2. QED
      BY <1>2, <1>6, <2>1 DEF RecordIn
  <1>8. Others(t) /\ Held(t)' /\ ~In(t)'
    BY <1>1, <1>5, <1>6, AloneMoves
  <1>9. Lock'
    <2>1. In(t)
      BY <1>1, <1>2 DEF In
    <2>2. QED
      BY <1>1, <1>2, <1>8, <2>1, LockRejoined
  <1>10. events' \in 0..MaxEvents
    BY <1>1, <1>2, BoundedEvents
  <1>11. busy' \subseteq Actors \cup {"agent"} /\ UNCHANGED active /\ dialogue' = dialogue
    BY <1>1, <1>2
  <1>12. proc[t].pc \notin {"gather", "ended", "raised", "done"}
    BY <1>2
  <1>13. QED
    BY <1>1, <1>4, <1>5, <1>7, <1>9, <1>10, <1>11, <1>12, WorkerMoves

\* No answer: the coroutine is over, or raises.
LEMMA NoAnswerStep ==
  ASSUME IInv, NEW t \in Tasks, NoAnswer(t) \/ Raise(t)
  PROVE  IInv'
  <1>1. /\ PathsOK /\ RoundsOK /\ Lock /\ posts \in PostLists /\ busy \subseteq Actors \cup {"agent"}
        /\ events \in 0..MaxEvents /\ t \in DOMAIN proc /\ RecordIn(posts, t, proc[t])
    BY KnownBefore DEF Tasks
  <1>2. PICK pc \in {"ended", "raised"} :
          /\ proc' = [proc EXCEPT ![t] = [Idle EXCEPT !.pc = pc]]
          /\ proc[t].pc = "llm" /\ busy' = busy \ {NameOf(t)} /\ line' = Tail(line) /\ Bounded
          /\ UNCHANGED <<active, dialogue>>
    BY DEF NoAnswer, Raise, Leave
  <1>3. posts' \in PostLists /\ Keeps(posts, posts')
    <2>1. CASE Raise(t)
      <3>1. posts' = posts
        BY <2>1 DEF Raise
      <3>2. QED
        BY <1>1, <3>1, KeepsItself
    <2>2. CASE NoAnswer(t)
      <3>1. Of(posts, proc[t].post)
        BY <1>1, <1>2 DEF RecordIn
      <3>2. PICK ps : ps = Edited(posts, proc[t].post, Saying({}))
        OBVIOUS
      <3>3. posts' = Added(ps, "agent", Saying({}))
        BY <2>2, <3>2 DEF NoAnswer
      <3>4. ps \in PostLists /\ Keeps(posts, ps)
        BY <1>1, <3>1, <3>2, TextFacts, EditedKeeps
      <3>5. posts' \in PostLists /\ Keeps(ps, posts')
        BY <3>3, <3>4, TextFacts, AddedKeeps DEF Authors
      <3>6. QED
        BY <3>4, <3>5, KeepsBoth
    <2>3. QED
      BY <2>1, <2>2
  <1>4. PICK r : r = [Idle EXCEPT !.pc = pc]
    OBVIOUS
  <1>5. r.pc \in {"ended", "raised"} /\ proc' = [proc EXCEPT ![t] = r]
    BY <1>2, <1>4 DEF Idle
  <1>6. Others(t) /\ ~Held(t)'
    BY <1>1, <1>5, AloneMoves
  <1>7. Lock'
    <2>1. In(t)
      BY <1>1, <1>2 DEF In
    <2>2. QED
      BY <1>1, <1>2, <1>6, <2>1, LockLeft
  <1>8. AtRest(t)
    BY <1>1, <1>2, WorkerChildless, ChildlessAtRest
  <1>9. events' \in 0..MaxEvents /\ busy' \subseteq Actors \cup {"agent"}
    BY <1>1, <1>2, BoundedEvents
  <1>10. proc[t].pc \notin {"ended", "raised", "done"}
    BY <1>2
  <1>11. QED
    BY <1>2, <1>3, <1>7, <1>8, <1>9, <1>10, TaskEnds

\* What a coroutine that gathers has to do with the lock.
LEMMA GathersOthers ==
  ASSUME NEW t \in DOMAIN proc, NEW round, NEW R, NEW reply, Gathering(t, round, R, reply), Fresh(t, round, R)
  PROVE  Others(t) /\ ~Held(t)'
  <1>1. PICK r : r = IF R = {} THEN [Idle EXCEPT !.pc = "ended"]
                     ELSE [Idle EXCEPT !.pc = "gather", !.round = round, !.reply = reply]
    OBVIOUS
  <1>2. Moves(t, r, round, R)
    BY <1>1, Gathers
  <1>3. r.pc \in {"ended", "gather"}
    BY <1>1 DEF Idle
  <1>4. QED
    BY <1>2, <1>3, MovesOthers

\* The answer, with the agent's results, is spread.
LEMMA SpreadStep ==
  ASSUME IInv, NEW t \in Tasks, NEW text \in Results(proc[t].text), NEW reply \in Replies[MessageOf(t)],
         Spread(t, text, reply)
  PROVE  IInv'
  <1> DEFINE edited == IF text = proc[t].text THEN posts ELSE Edited(posts, proc[t].post, text)
  <1>1. PICK ps : ps = Replied(edited, reply, Actor(t))
    OBVIOUS
  <1> DEFINE deeper == rql(t) < MaxRql
             first == IF deeper THEN Addressed(ps, proc[t].post) ELSE {}
             second == IF deeper /\ reply # "none" THEN Addressed(ps, latest_post(ps, "agent")) ELSE {}
  <1>2. /\ proc[t].pc = "hands" /\ posts' = ps /\ busy' = busy \ {NameOf(t)} /\ line' = Tail(line)
        /\ IF first # {} THEN Gathering(t, 1, first, reply # "none") ELSE Gathering(t, 2, second, FALSE)
        /\ UNCHANGED <<active, dialogue, events>>
    BY <1>1 DEF Spread, Leave
  <1>3. /\ PathsOK /\ RoundsOK /\ Lock /\ posts \in PostLists /\ busy \subseteq Actors \cup {"agent"}
        /\ events \in 0..MaxEvents /\ t \in DOMAIN proc /\ RecordIn(posts, t, proc[t])
    BY KnownBefore DEF Tasks
  <1>4. MessageOf(t) \in Messages /\ Len(t) \in 2..MaxRql + 1
    BY <1>3, TaskFacts DEF MessageOf
  <1>5. text \in Text /\ reply \in {"none", "plain", "named"}
    <2>1. proc[t].text \in Text
      BY <1>3 DEF RecordIn, Records
    <2>2. text \in Text
      BY <2>1, TextFacts DEF Results
    <2>3. QED
      BY <1>4, <2>2, ReplicationAssumption
  <1>6. edited \in PostLists /\ Keeps(posts, edited)
    <2>1. Of(posts, proc[t].post)
      BY <1>2, <1>3 DEF RecordIn
    <2>2. QED
      BY <1>3, <1>5, <2>1, EditedKeeps, KeepsItself
  <1> HIDE DEF edited
  <1>7. posts' \in PostLists /\ Keeps(posts, posts')
    BY <1>1, <1>2, <1>5, <1>6, RepliedKeeps, KeepsBoth
  <1>8. PICK round \in {1, 2}, R \in SUBSET Actors, again \in BOOLEAN :
          /\ Gathering(t, round, R, again) /\ (R # {} => deeper) /\ (round = 2 => ~again)
    <2>1. first \in SUBSET Actors /\ second \in SUBSET Actors /\ (first # {} => deeper) /\ (second # {} => deeper)
      BY DEF Addressed
    <2> HIDE DEF first, second
    <2>2. CASE first # {}
      <3>1. PICK again \in BOOLEAN : again = (reply # "none")
        OBVIOUS
      <3>2. Gathering(t, 1, first, again)
        BY <1>2, <2>2, <3>1
      <3>3. 1 \in {1, 2} /\ (1 = 2 => ~again)
        OBVIOUS
      <3>4. QED
        BY <2>1, <3>2, <3>3
    <2>3. CASE first = {}
      <3>1. Gathering(t, 2, second, FALSE)
        BY <1>2, <2>3
      <3>2. QED
        BY <2>1, <3>1
    <2>4. QED
      BY <2>2, <2>3
  <1>9. R # {} => Len(t) <= MaxRql
    BY <1>4, <1>8, ReplicationAssumption DEF rql
  <1>10. Childless(t) /\ AtRest(t)
    BY <1>2, <1>3, WorkerChildless, ChildlessAtRest
  <1>11. Fresh(t, round, R)
    BY <1>3, <1>10, ChildlessFresh
  <1>12. Others(t) /\ ~Held(t)'
    BY <1>3, <1>8, <1>11, GathersOthers
  <1>13. Lock'
    <2>1. In(t)
      BY <1>2, <1>3 DEF In
    <2>2. QED
      BY <1>2, <1>3, <1>12, <2>1, LockLeft
  <1>14. /\ events' \in 0..MaxEvents /\ busy' \subseteq Actors \cup {"agent"} /\ UNCHANGED <<active, dialogue>>
         /\ proc[t].pc \notin {"ended", "raised", "done"}
    BY <1>2, <1>3
  <1>15. QED
    BY <1>7, <1>8, <1>9, <1>10, <1>11, <1>13, <1>14, TaskGathers

\* The branches are over, and the agent's post is spread, or a branch has raised.
LEMMA JoinedStep ==
  ASSUME IInv, NEW t \in Tasks, Joined(t) \/ BranchRaised(t)
  PROVE  IInv'
  <1>1. /\ PathsOK /\ RoundsOK /\ Awaited /\ Lock /\ posts \in PostLists /\ busy \subseteq Actors \cup {"agent"}
        /\ events \in 0..MaxEvents /\ t \in DOMAIN proc /\ RecordIn(posts, t, proc[t])
    BY KnownBefore DEF Tasks
  <1>2. proc[t].pc = "gather" /\ UNCHANGED <<posts, line, busy, active, dialogue, events>>
    BY DEF Joined, BranchRaised
  <1>3. /\ Len(t) <= MaxRql /\ (proc[t].round = 2 => ~proc[t].reply) /\ proc[t] \in Records
    BY <1>1, <1>2 DEF RecordIn
  <1>4. posts' \in PostLists /\ Keeps(posts, posts') /\ busy' \subseteq Actors \cup {"agent"} /\ events' \in 0..MaxEvents
    BY <1>1, <1>2, KeepsItself
  <1>5. Len(t) \in 2..MaxRql + 1 /\ t \in Paths
    BY <1>1, TaskFacts
  <1>6. CASE Joined(t)
    <2>1. PICK R : R = IF proc[t].reply THEN Addressed(posts, latest_post(posts, "agent")) ELSE {}
      OBVIOUS
    <2>2. AllEnded(t, proc[t].round) /\ Gathering(t, 2, R, FALSE)
      BY <1>6, <2>1 DEF Joined
    <2>3. R \in SUBSET Actors /\ (R # {} => proc[t].reply)
      BY <2>1 DEF Addressed
    <2>4. Fresh(t, 2, R)
      <3>1. SUFFICES ASSUME NEW q \in New(t, 2, R), q \in DOMAIN proc PROVE FALSE
        BY DEF Fresh
      <3>2. 2 \in {1, 2}
        OBVIOUS
      <3>3. Len(q) = Len(t) + 1 /\ Prefix(q, Len(q) - 1) = t /\ q[Len(q)][1] = 2
        BY <1>1, <2>3, <3>2, NewFacts
      <3>4. Len(q) # 2 /\ Len(q) > 1
        BY <1>5, <3>3, ReplicationAssumption
      <3>5. q \in Tasks
        BY <3>1, <3>4 DEF Tasks
      <3>6. proc[t].round = 2
        BY <1>1, <1>2, <3>3, <3>4, <3>5 DEF RoundsOK
      <3>7. R # {}
        BY DEF New
      <3>8. QED
        BY <1>3, <2>3, <3>6, <3>7
    <2>5. AtRest(t)
      <3>1. Len(t) # 1
        <4>1. 1 \notin 2..MaxRql + 1
          BY ReplicationAssumption
        <4>2. QED
          BY <1>5, <4>1
      <3>2. QED
        BY <1>1, <2>2, <3>1, EndedAtRest DEF Tree
    <2>6. Others(t) /\ ~Held(t)' /\ ~Held(t)
      BY <1>1, <1>2, <2>2, <2>4, GathersOthers DEF Held
    <2>7. Lock'
      <3>1. \A q : (Held(q)' <=> Held(q)) /\ (Held(q) => proc'[q].pc = proc[q].pc)
        BY <2>6 DEF Others
      <3>2. QED
        BY <1>1, <1>2, <3>1, LockStays
    <2>8. 2 \in {1, 2} /\ FALSE \in BOOLEAN /\ proc[t].pc \notin {"ended", "raised", "done"}
      BY <1>2
    <2>9. QED
      BY <1>2, <1>3, <1>4, <2>2, <2>3, <2>4, <2>5, <2>7, <2>8, TaskGathers
  <1>7. CASE BranchRaised(t)
    <2>1. OneRaised(t, proc[t].round) /\ proc' = [proc EXCEPT ![t] = [Idle EXCEPT !.pc = "raised"]]
      BY <1>7 DEF BranchRaised
    <2>2. HasRaised(MessageOf(t))
      <3>1. PICK u \in Children(t, proc[t].round) : proc[u].pc = "raised"
        BY <2>1 DEF OneRaised
      <3>2. u \in Tasks /\ u \in Paths /\ Len(t) >= 1
        BY <1>1, <1>5, TaskFacts, ReplicationAssumption DEF Children
      <3>3. u[1] = t[1]
        BY <1>5, <3>1, <3>2, PathOfChild
      <3>4. QED
        BY <3>1, <3>2, <3>3 DEF HasRaised, MessageOf
    <2>3. PICK r : r = [Idle EXCEPT !.pc = "raised"]
      OBVIOUS
    <2>4. r.pc = "raised" /\ proc' = [proc EXCEPT ![t] = r]
      BY <2>1, <2>3 DEF Idle
    <2>5. Others(t) /\ ~Held(t)' /\ ~Held(t)
      BY <1>1, <1>2, <2>4, AloneMoves DEF Held
    <2>6. Lock'
      <3>1. \A q : (Held(q)' <=> Held(q)) /\ (Held(q) => proc'[q].pc = proc[q].pc)
        BY <2>5 DEF Others
      <3>2. QED
        BY <1>1, <1>2, <3>1, LockStays
    <2>7. "raised" \in {"ended", "raised"} /\ proc[t].pc \notin {"ended", "raised", "done"}
      BY <1>2
    <2>8. QED
      BY <1>2, <1>4, <2>1, <2>2, <2>6, <2>7, TaskEnds
  <1>8. QED
    BY <1>6, <1>7
-----------------------------------------------------------------------------
(***************************************************************************)
(* The theorem                                                             *)
(***************************************************************************)
LEMMA InvInit == Init => IInv
  <1> SUFFICES ASSUME Init PROVE IInv
    OBVIOUS
  <1>1. DOMAIN proc = {} /\ Tasks = {} /\ Inside = {} /\ Going = {}
    BY DEF Init, Tasks, Inside, Going
  <1>2. StateOK
    <2>1. posts \in [Authors -> Seq([text : Text, live : BOOLEAN])]
      BY DEF Init
    <2>2. 0 \in 0..MaxEvents
      BY ReplicationAssumption
    <2>3. QED
      BY <1>1, <2>1, <2>2 DEF Init, StateOK
  <1>3. LineOK /\ OneInside
    BY <1>1 DEF Init, LineOK, OneInside
  <1>4. PathsOK /\ RoundsOK /\ Awaited /\ DialoguesOK
    BY <1>1 DEF Init, PathsOK, RoundsOK, Awaited, DialoguesOK
  <1>5. QED
    BY <1>2, <1>3, <1>4 DEF IInv

LEMMA InvNext == IInv /\ [Next]_vars => IInv'
  <1> SUFFICES ASSUME IInv, [Next]_vars PROVE IInv'
    OBVIOUS
  <1>1. ASSUME NEW m \in Messages, HandlerStep(m) PROVE IInv'
    BY <1>1, ProcessStep, HandsStep, ProcessedStep DEF HandlerStep
  <1>2. ASSUME NEW m \in Messages, DialogueStep(m) PROVE IInv'
    BY <1>2, ReplicateStep, DialogueEnds DEF DialogueStep
  <1>3. ASSUME NEW t \in Tasks, TaskStep(t) PROVE IInv'
    <2>1. t \in DOMAIN proc
      BY DEF Tasks
    <2>2. QED
      BY <1>3, <2>1, StartStep, AskStep, HeartbeatStep, HandsStep, AnswerStep, SpreadStep, JoinedStep
         DEF TaskStep
  <1>4. CASE UNCHANGED vars
    <2>1. UNCHANGED <<posts, line, busy, active, dialogue, proc, events>>
      BY <1>4 DEF vars
    <2>2. StateOK'
      BY <2>1 DEF IInv, StateOK, RecordOK, Known
    <2>3. PathsOK' /\ LineOK'
      BY <2>1 DEF IInv, PathsOK, LineOK
    <2>4. OneInside'
      BY <2>1 DEF IInv, OneInside, Inside, NameOf
    <2>5. Tasks' = Tasks /\ Going' = Going /\ \A m : HasRaised(m)' <=> HasRaised(m)
      BY <2>1 DEF Tasks, Going, HasRaised
    <2>6. RoundsOK'
      BY <2>1, <2>5 DEF IInv, RoundsOK
    <2>7. Awaited' /\ DialoguesOK'
      BY <2>1, <2>5 DEF IInv, Awaited, DialoguesOK, Tasks, Going, HasRaised
    <2>8. QED
      BY <2>2, <2>3, <2>4, <2>6, <2>7 DEF IInv
  <1>5. QED
    BY <1>1, <1>2, <1>3, <1>4, SendStep, AnswerStep, NoAnswerStep, PostChanges DEF Next, Step

\* The invariant implies what the run checks.
LEMMA InvApart == IInv => DialoguesAreApart
  <1> SUFFICES ASSUME IInv PROVE DialoguesAreApart
    OBVIOUS
  <1>1. StateOK /\ PathsOK /\ DialoguesOK
    BY Parts
  <1>2. TypeOK
    <2>1. ASSUME NEW p \in DOMAIN proc
          PROVE  /\ p[1] \in Messages /\ Len(p) <= MaxRql + 1
                 /\ proc[p].pc \in Pcs
                 /\ \A i \in {proc[p].post, proc[p].stub} \ {NoPost} : i[2] \in DOMAIN posts[i[1]]
                 /\ proc[p].text \in Text
      <3>1. p[1] \in Messages /\ Len(p) \in 1..MaxRql + 1
        BY <1>1 DEF PathsOK
      <3>2. RecordIn(posts, p, proc[p])
        BY <1>1, StateParts
      <3>3. QED
        BY <3>1, <3>2, ReplicationAssumption DEF RecordIn, Records, Of
    <2>2. QED
      BY <1>1, <2>1 DEF TypeOK, StateOK
  <1>3. OneDialogue
    <2>1. SUFFICES ASSUME NEW s \in Going, NEW t \in Going, MessageOf(s) # MessageOf(t)
                   PROVE  HasRaised(MessageOf(s)) \/ HasRaised(MessageOf(t))
      BY DEF OneDialogue, HasRaised
    <2>2. MessageOf(s) \in Messages /\ MessageOf(t) \in Messages
      BY <1>1, TaskFacts DEF Going, MessageOf
    <2>3. QED
      BY <1>1, <2>1, <2>2 DEF DialoguesOK
  <1>4. QED
    BY <1>2, <1>3 DEF DialoguesAreApart, IInv

\* In a chat one coroutine at a time talks to an LLM or runs the agent's
\* commands, the one GET /chat/get reports, and two dialogues go on at once only
\* after a branch has raised, for any LLMs, messages, texts, depth and number of
\* failures (replication.py:140-200, 415-450; chats.py:118-200).
THEOREM DialoguesStayApart == Spec => []DialoguesAreApart
  <1>1. Init => IInv
    BY InvInit
  <1>2. IInv /\ [Next]_vars => IInv'
    BY InvNext
  <1>3. IInv => DialoguesAreApart
    BY InvApart
  <1>4. QED
    BY <1>1, <1>2, <1>3, PTL DEF Spec
=============================================================================
