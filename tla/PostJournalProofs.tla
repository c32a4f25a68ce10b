------------------------- MODULE PostJournalProofs -------------------------
(***************************************************************************)
(* Theorems about PostJournal, for any number of posts, clients and        *)
(* faults: its types, StaleExplained and NoGoingBack.                      *)
(***************************************************************************)
EXTENDS PostJournal, TLAPS

\* What is known of a poll: where its changes end, and that the entries which
\* no clear has reached are still in the journal.
PollOK(c) ==
    /\ poll[c].pc = "idle" => poll[c] = NoPoll
    /\ poll[c].pc = "select" => poll[c].history = {}
    /\ poll[c].upto <= logged
    /\ Len(poll[c].changes) <= poll[c].upto
    /\ \A k \in DOMAIN poll[c].changes :
          k > Cleared(c) => poll[c].changes[k] \in Range(journal)

PollInv == Len(journal) <= logged /\ \A c \in Clients : PollOK(c)

\* A change that says "deleted" is about a deleted post: none comes back.
Deleted(p) == rows[p].writes > 0 /\ ~rows[p].live
Known == Range(journal) \cup {logging} \cup UNION {Range(poll[c].changes) : c \in Clients}
DeletionsTrue == \A d \in Known : d.deleted => Deleted(d.post)

\* What a poll is about to tell is no older than what its client knows, and no
\* newer than the table.
HistoryOK(c) ==
    /\ \A p \in Posts : seen[c][p] <= Shown(p)
    /\ \A h \in poll[c].history : /\ h.post \in PostsOf(poll[c].changes)
                                  /\ seen[c][h.post] <= h.state
                                  /\ h.state <= Shown(h.post)
    /\ \A g, h \in poll[c].history : g.post = h.post => g = h

HistoryInv == \A c \in Clients : HistoryOK(c)

\* Client c knows the state of p, or will when its poll is answered.
Told(c, p) ==
    \/ \E h \in poll[c].history : h.post = p /\ h.state = Shown(p)
    \/ (\A h \in poll[c].history : h.post # p) /\ seen[c][p] = Shown(p)

\* Entry d makes a client that has not seen it learn the state of p.
About(d, p) == d.post = p /\ (d.deleted \/ rows[p].live)

\* A client that will not know the state of p has an entry for it ahead, or
\* has missed one.
OwedTo(c, p) ==
    \/ Told(c, p)
    \/ p \in missed[c]
    \/ About(logging, p)
    \/ \E k \in UnreadAt(c) : About(journal[k], p)
    \/ poll[c].pc = "select" /\ \E d \in Range(poll[c].changes) : About(d, p)

Owed == \A c \in Clients, p \in Posts : OwedTo(c, p)

IInv == TypeOK /\ PollInv /\ DeletionsTrue /\ HistoryInv /\ Owed

-----------------------------------------------------------------------------
\* Sequences of changes.
LEMMA RangeEmpty == Range(<<>>) = {}
  BY DEF Range

LEMMA RangeAppend ==
    ASSUME NEW S, NEW s \in Seq(S), NEW e \in S
    PROVE  /\ Range(Append(s, e)) = Range(s) \cup {e}
           /\ Append(s, e) \in Seq(S) /\ Len(Append(s, e)) = Len(s) + 1
           /\ \A k \in DOMAIN s : k \in DOMAIN Append(s, e) /\ Append(s, e)[k] = s[k]
           /\ Len(s) + 1 \in DOMAIN Append(s, e) /\ Append(s, e)[Len(s) + 1] = e
<1>1. /\ Append(s, e) \in Seq(S) /\ Len(Append(s, e)) = Len(s) + 1
      /\ \A k \in 1..Len(s) : Append(s, e)[k] = s[k]
      /\ Append(s, e)[Len(s) + 1] = e
      /\ DOMAIN s = 1..Len(s) /\ Len(s) \in Nat
  OBVIOUS
<1>2. DOMAIN Append(s, e) = 1..(Len(s) + 1)
  BY <1>1
<1>3. \A k \in 1..(Len(s) + 1) : k \in 1..Len(s) \/ k = Len(s) + 1
  BY <1>1
<1>4. \A k \in 1..Len(s) : k \in 1..(Len(s) + 1)
  BY <1>1
<1>5. Len(s) + 1 \in 1..(Len(s) + 1)
  BY <1>1
<1>6. Range(Append(s, e)) = Range(s) \cup {e}
  BY <1>1, <1>2, <1>3, <1>4, <1>5 DEF Range
<1>7. QED
  BY <1>1, <1>2, <1>4, <1>5, <1>6

LEMMA RangeType ==
    ASSUME NEW S, NEW s \in Seq(S)
    PROVE  Range(s) \subseteq S
  BY DEF Range

\* The entries of the journal and of the polls are changes.
LEMMA Entries ==
    ASSUME TypeOK
    PROVE  /\ Range(journal) \subseteq Change
           /\ \A c \in Clients : Range(poll[c].changes) \subseteq Change
           /\ \A c \in Clients : PostsOf(poll[c].changes) \subseteq Posts
           /\ PostsOf(journal) \subseteq Posts
           /\ \A c \in Clients : Unread(c) \subseteq PostsOf(journal)
<1>1. journal \in Seq(Change) /\ \A c \in Clients : poll[c].changes \in Seq(Change)
  BY DEF TypeOK
<1>2. Range(journal) \subseteq Change /\ \A c \in Clients : Range(poll[c].changes) \subseteq Change
  BY <1>1, RangeType
<1>3. \A d \in Change : d.post \in Posts
  BY DEF Change
<1>4. \A c \in Clients : UnreadAt(c) \subseteq DOMAIN journal
  BY DEF UnreadAt
<1>5. \A c \in Clients : Unread(c) \subseteq PostsOf(journal)
  BY <1>4 DEF Unread, PostsOf, Range
<1>6. QED
  BY <1>2, <1>3, <1>5 DEF PostsOf

\* What a state is.
LEMMA StateTypes ==
    ASSUME TypeOK, NEW p \in Posts
    PROVE  /\ rows[p].writes \in States /\ rows[p].writes < Removed
           /\ Removed \in States /\ Absent \in States
           /\ Shown(p) \in States /\ Shown(p) <= Removed
  BY JournalAssumption DEF TypeOK, States, Shown, Absent, Removed

-----------------------------------------------------------------------------
LEMMA InitIInv == Init => IInv
<1> SUFFICES ASSUME Init PROVE IInv
  OBVIOUS
<1>1. TypeOK
  BY JournalAssumption DEF Init, TypeOK, NoChange, NoPoll, States, Absent, Removed
<1>2. PollInv
  BY DEF Init, PollInv, PollOK, NoPoll
<1>3. DeletionsTrue
  BY RangeEmpty DEF Init, DeletionsTrue, Known, NoPoll, NoChange
<1>4. HistoryInv /\ Owed
  BY DEF Init, HistoryInv, HistoryOK, Owed, OwedTo, NoPoll, Shown, Absent, Told
<1>5. QED
  BY <1>1, <1>2, <1>3, <1>4 DEF IInv

LEMMA WriteType ==
    ASSUME TypeOK, NEW p \in Posts, NEW live \in BOOLEAN, NEW deleted \in BOOLEAN,
           Write(p, live, deleted)
    PROVE  TypeOK'
<1>1. rows' \in [Posts -> [writes : 0..MaxWrites, live : BOOLEAN]]
  BY JournalAssumption DEF TypeOK, Write
<1>2. logging' \in Change
  BY DEF Write, Change
<1>3. QED
  BY <1>1, <1>2 DEF TypeOK, Write

LEMMA AddChangeType == TypeOK /\ add_change => TypeOK'
<1> SUFFICES ASSUME TypeOK, add_change PROVE TypeOK'
  OBVIOUS
<1>1. logging \in Change
  BY DEF TypeOK, add_change
<1>2. journal' \in Seq(Change)
  BY <1>1, RangeAppend DEF TypeOK, add_change
<1>3. QED
  BY <1>2 DEF TypeOK, add_change

LEMMA SelectType ==
    ASSUME TypeOK, NEW c \in Clients, PollSelect(c)
    PROVE  TypeOK'
<1> DEFINE H == Texts(post_ids(c)) \cup {As(p, Removed) : p \in deleted_ids(c)}
<1>1. post_ids(c) \subseteq Posts /\ deleted_ids(c) \subseteq Posts
  BY Entries DEF post_ids, deleted_ids, Change
<1>2. H \subseteq [post : Posts, state : States]
  BY <1>1, StateTypes DEF Texts, As
<1>3. poll' \in [Clients -> [pc : {"idle", "select", "clear", "answer"}, changes : Seq(Change),
                             upto : Nat, history : SUBSET [post : Posts, state : States]]]
  <2>1. poll[c] \in [pc : {"idle", "select", "clear", "answer"}, changes : Seq(Change),
                     upto : Nat, history : SUBSET [post : Posts, state : States]]
    BY DEF TypeOK
  <2>2. \/ poll' = [poll EXCEPT ![c] = NoPoll]
        \/ poll' = [poll EXCEPT ![c].pc = "clear", ![c].history = H]
    BY DEF PollSelect, Selected
  <2>3. CASE poll' = [poll EXCEPT ![c] = NoPoll]
    BY <2>3 DEF TypeOK, NoPoll
  <2>4. CASE poll' = [poll EXCEPT ![c].pc = "clear", ![c].history = H]
    <3> HIDE DEF H
    <3>1. QED
      BY <1>2, <2>1, <2>4 DEF TypeOK
  <2>5. QED
    BY <2>2, <2>3, <2>4
<1>4. missed' \in [Clients -> SUBSET Posts]
  BY DEF TypeOK, PollSelect, Selected
<1>5. QED
  BY <1>3, <1>4 DEF TypeOK, PollSelect, Selected

LEMMA PollsType ==
    ASSUME TypeOK, NEW c \in Clients,
           PollRead(c) \/ PollClear(c) \/ PollAnswer(c) \/ PollFails(c) \/ PollLost(c) \/ Fetch(c)
    PROVE  TypeOK'
<1>1. CASE PollRead(c)
  BY <1>1 DEF TypeOK, PollRead, NoPoll
<1>2. CASE PollClear(c)
  <2>1. missed' \in [Clients -> SUBSET Posts]
    BY <1>2, Entries DEF TypeOK, PollClear
  <2>2. journal' \in Seq(Change)
    BY <1>2 DEF PollClear
  <2>3. QED
    BY <1>2, <2>1, <2>2, ZenonT(60) DEF TypeOK, PollClear
<1>3. CASE PollAnswer(c)
  <2>1. \A p \in Posts : (\E h \in poll[c].history : h.post = p) =>
            (CHOOSE h \in poll[c].history : h.post = p) \in poll[c].history
    OBVIOUS
  <2>2. \A h \in poll[c].history : h.state \in States
    BY DEF TypeOK
  <2>3. seen' \in [Clients -> [Posts -> States]]
    BY <1>3, <2>1, <2>2 DEF TypeOK, PollAnswer
  <2>4. poll' \in [Clients -> [pc : {"idle", "select", "clear", "answer"}, changes : Seq(Change),
                               upto : Nat, history : SUBSET [post : Posts, state : States]]]
    BY <1>3 DEF TypeOK, PollAnswer, NoPoll
  <2>5. QED
    BY <1>3, <2>3, <2>4 DEF TypeOK, PollAnswer
<1>4. CASE PollFails(c)
  <2>1. \A k \in DOMAIN poll[c].changes : poll[c].changes[k].post \in Posts
    BY Entries DEF Range, Change
  <2>2. missed' \in [Clients -> SUBSET Posts]
    BY <1>4, <2>1 DEF TypeOK, PollFails
  <2>3. QED
    BY <1>4, <2>2, JournalAssumption DEF TypeOK, PollFails, Faulty, NoPoll
<1>5. CASE PollLost(c)
  <2>1. missed' \in [Clients -> SUBSET Posts]
    BY <1>5, Entries DEF TypeOK, PollLost
  <2>2. QED
    BY <1>5, <2>1, JournalAssumption DEF TypeOK, PollLost, Faulty, NoPoll
<1>6. CASE Fetch(c)
  BY <1>6, StateTypes DEF TypeOK, Fetch
<1>7. QED
  BY <1>1, <1>2, <1>3, <1>4, <1>5, <1>6

LEMMA RestartType == TypeOK /\ Restart => TypeOK'
<1> SUFFICES ASSUME TypeOK, Restart PROVE TypeOK'
  OBVIOUS
<1>1. missed' \in [Clients -> SUBSET Posts]
  BY Entries DEF TypeOK, Restart
<1>2. poll' \in [Clients -> [pc : {"idle", "select", "clear", "answer"}, changes : Seq(Change),
                             upto : Nat, history : SUBSET [post : Posts, state : States]]]
  BY DEF Restart, NoPoll
<1>3. faults' \in 0..MaxFaults
  BY JournalAssumption DEF TypeOK, Restart, Faulty
<1>4. journal' \in Seq(Change)
  BY DEF Restart
<1>5. QED
  BY <1>1, <1>2, <1>3, <1>4 DEF TypeOK, Restart

\* The requests that write are instances of Write.
LEMMA Writes ==
    ASSUME TypeOK, NEW p \in Posts, add_post(p) \/ edit_post(p) \/ delete_post(p)
    PROVE  \E live, deleted \in BOOLEAN :
              /\ Write(p, live, deleted)
              /\ deleted => ~live
              /\ Deleted(p) => ~live
              /\ deleted \/ live \/ Deleted(p)
<1>1. rows[p].live \in BOOLEAN /\ rows[p].writes \in Nat
  BY JournalAssumption DEF TypeOK
<1>2. CASE add_post(p)
  <2>1. Write(p, TRUE, FALSE) /\ rows[p].writes = 0
    BY <1>2, Zenon DEF add_post
  <2>2. ~Deleted(p)
    BY <2>1 DEF Deleted
  <2>3. QED
    BY <2>1, <2>2, Zenon
<1>3. CASE edit_post(p)
  <2>1. Write(p, rows[p].live, FALSE) /\ rows[p].writes > 0
    BY <1>3, Zenon DEF edit_post
  <2>2. QED
    BY <1>1, <2>1, Zenon DEF Deleted
<1>4. CASE delete_post(p)
  <2>1. Write(p, FALSE, TRUE)
    BY <1>4 DEF delete_post
  <2>2. QED
    BY <2>1
<1>5. QED
  BY <1>2, <1>3, <1>4

LEMMA TypeStep == TypeOK /\ [Next]_vars => TypeOK'
<1> SUFFICES ASSUME TypeOK, [Next]_vars PROVE TypeOK'
  OBVIOUS
<1>1. ASSUME NEW p \in Posts, add_post(p) \/ edit_post(p) \/ delete_post(p) PROVE TypeOK'
  BY <1>1, Writes, WriteType
<1>2. CASE add_change
  BY <1>2, AddChangeType
<1>3. ASSUME NEW c \in Clients, PollSelect(c) PROVE TypeOK'
  BY <1>3, SelectType
<1>4. ASSUME NEW c \in Clients,
             PollRead(c) \/ PollClear(c) \/ PollAnswer(c) \/ PollFails(c) \/ PollLost(c) \/ Fetch(c)
      PROVE  TypeOK'
  BY <1>4, PollsType
<1>5. CASE Restart
  BY <1>5, RestartType
<1>6. CASE UNCHANGED vars
  BY <1>6 DEF vars, TypeOK
<1>7. QED
  BY <1>1, <1>2, <1>3, <1>4, <1>5, <1>6 DEF Next

-----------------------------------------------------------------------------
(***************************************************************************)
(* The polls.                                                              *)
(***************************************************************************)
LEMMA PollOKFrame ==
    ASSUME NEW d \in Clients, PollOK(d), poll'[d] = poll[d], UNCHANGED <<journal, logged>>
    PROVE  PollOK(d)'
  BY DEF PollOK, Cleared

LEMMA PollOKReset ==
    ASSUME NEW d \in Clients, poll'[d] = NoPoll, logged' \in Nat
    PROVE  PollOK(d)'
<1>1. poll'[d].changes = <<>> /\ poll'[d].upto = 0 /\ poll'[d].pc = "idle"
  BY DEF NoPoll
<1>2. QED
  BY <1>1 DEF PollOK

LEMMA AddChangePollInv == TypeOK /\ PollInv /\ add_change => PollInv'
<1> SUFFICES ASSUME TypeOK, PollInv, add_change PROVE PollInv'
  OBVIOUS
<1>1. logging \in Change /\ journal \in Seq(Change)
  BY DEF TypeOK, add_change
<1>2. Range(journal') = Range(journal) \cup {logging} /\ Len(journal') = Len(journal) + 1
  BY <1>1, RangeAppend DEF add_change
<1>3. ASSUME NEW d \in Clients PROVE PollOK(d)'
  <2>1. PollOK(d) /\ UNCHANGED poll /\ logged' = logged + 1
    BY DEF PollInv, add_change
  <2>2. /\ logged \in Nat /\ Len(journal) \in Nat /\ poll[d].upto \in Nat
        /\ Len(poll[d].changes) \in Nat
    BY DEF TypeOK
  <2>3. Cleared(d)' = Cleared(d)
    BY <1>2, <2>1, <2>2 DEF Cleared
  <2>4. QED
    BY <1>2, <2>1, <2>2, <2>3 DEF PollOK
<1>4. QED
  BY <1>1, <1>2, <1>3 DEF PollInv, TypeOK, add_change

LEMMA PollStep ==
    ASSUME TypeOK, PollInv, NEW c \in Clients,
           \/ PollRead(c) \/ PollSelect(c) \/ PollClear(c) \/ PollAnswer(c)
           \/ PollFails(c) \/ PollLost(c) \/ Fetch(c)
    PROVE  PollInv'
<1>1. /\ logged \in Nat /\ logged' = logged
      /\ journal \in Seq(Change) /\ Len(journal) \in Nat
      /\ \A d \in Clients : /\ poll[d].upto \in Nat /\ Len(poll[d].changes) \in Nat
                            /\ DOMAIN poll[d].changes = 1..Len(poll[d].changes)
  BY DEF TypeOK, PollRead, PollSelect, Selected, PollClear, PollAnswer, PollFails, PollLost, Fetch
<1>2. CASE PollClear(c)
  <2>1. journal' = <<>> /\ Len(journal') = 0
    BY <1>2 DEF PollClear
  <2>2. ASSUME NEW d \in Clients PROVE PollOK(d)'
    <3>1. /\ poll'[d].changes = poll[d].changes /\ poll'[d].upto = poll[d].upto
          /\ poll'[d].pc = "idle" => poll'[d] = poll[d] /\ poll[d].pc = "idle"
          /\ poll'[d].pc = "select" => poll'[d] = poll[d]
      BY <1>2 DEF PollClear, TypeOK
    <3>2. Cleared(d)' = (logged - 0) - (poll[d].upto - Len(poll[d].changes))
      BY <1>1, <2>1, <3>1 DEF Cleared
    <3>3. PollOK(d)
      BY DEF PollInv
    <3>4. \A k \in DOMAIN poll[d].changes : ~(k > Cleared(d)')
      BY <1>1, <3>2, <3>3 DEF PollOK
    <3>5. QED
      BY <1>1, <3>1, <3>3, <3>4 DEF PollOK
  <2>3. QED
    BY <1>1, <2>1, <2>2 DEF PollInv
<1>3. CASE ~PollClear(c)
  <2>1. UNCHANGED journal
    BY <1>3 DEF PollRead, PollSelect, Selected, PollAnswer, PollFails, PollLost, Fetch
  <2>2. ASSUME NEW d \in Clients, d # c PROVE PollOK(d)'
    <3>1. poll'[d] = poll[d]
      BY <1>3, <2>2
      DEF TypeOK, PollRead, PollSelect, Selected, PollAnswer, PollFails, PollLost, Fetch
    <3>2. QED
      BY <1>1, <2>1, <3>1, PollOKFrame DEF PollInv
  <2>3. PollOK(c)'
    <3>1. CASE PollRead(c)
      <4>1. poll'[c] = [NoPoll EXCEPT !.pc = "select", !.changes = journal, !.upto = logged]
        BY <3>1 DEF PollRead, TypeOK
      <4>2. /\ poll'[c].changes = journal /\ poll'[c].upto = logged
            /\ poll'[c].pc = "select" /\ poll'[c].history = {}
        BY <4>1 DEF NoPoll
      <4>3. \A k \in DOMAIN journal : journal[k] \in Range(journal)
        BY DEF Range
      <4>4. QED
        BY <1>1, <2>1, <4>2, <4>3 DEF PollOK, PollInv
    <3>2. CASE poll'[c] = NoPoll
      BY <1>1, <3>2, PollOKReset
    <3>3. CASE Fetch(c)
      BY <3>3, PollOKFrame DEF Fetch, PollInv
    <3>4. CASE PollSelect(c) /\ poll'[c] # NoPoll
      <4>1. /\ poll'[c].changes = poll[c].changes /\ poll'[c].upto = poll[c].upto
            /\ poll'[c].pc = "clear"
        BY <3>4 DEF PollSelect, Selected, TypeOK
      <4>2. Cleared(c)' = Cleared(c)
        BY <1>1, <2>1, <4>1 DEF Cleared
      <4>3. QED
        BY <1>1, <2>1, <4>1, <4>2 DEF PollOK, PollInv
    <3>5. QED
      BY <1>3, <3>1, <3>2, <3>3, <3>4 DEF PollAnswer, PollFails, PollLost, TypeOK
  <2>4. QED
    BY <1>1, <2>1, <2>2, <2>3 DEF PollInv
<1>4. QED
  BY <1>2, <1>3

LEMMA NextPollInv == TypeOK /\ PollInv /\ [Next]_vars => PollInv'
<1> SUFFICES ASSUME TypeOK, PollInv, [Next]_vars PROVE PollInv'
  OBVIOUS
<1>1. ASSUME NEW p \in Posts, add_post(p) \/ edit_post(p) \/ delete_post(p) PROVE PollInv'
  BY <1>1, PollOKFrame DEF add_post, edit_post, delete_post, Write, PollInv
<1>2. CASE add_change
  BY <1>2, AddChangePollInv
<1>3. ASSUME NEW c \in Clients,
             \/ PollRead(c) \/ PollSelect(c) \/ PollClear(c) \/ PollAnswer(c)
             \/ PollFails(c) \/ PollLost(c) \/ Fetch(c)
      PROVE  PollInv'
  BY <1>3, PollStep
<1>4. CASE Restart
  BY <1>4, PollOKReset DEF Restart, PollInv, TypeOK
<1>5. CASE UNCHANGED vars
  BY <1>5, PollOKFrame DEF vars, PollInv
<1>6. QED
  BY <1>1, <1>2, <1>3, <1>4, <1>5 DEF Next

-----------------------------------------------------------------------------
(***************************************************************************)
(* The table: states only grow, and a deleted post stays deleted.          *)
(***************************************************************************)
LEMMA WriteGrows ==
    ASSUME TypeOK, NEW p \in Posts, NEW live \in BOOLEAN, NEW deleted \in BOOLEAN,
           Write(p, live, deleted), Deleted(p) => ~live, NEW q \in Posts
    PROVE  Shown(q) <= Shown(q)' /\ (Deleted(q) => Deleted(q)')
<1>1. /\ rows[p].writes \in 0..MaxWrites /\ rows[q].writes \in 0..MaxWrites
      /\ rows[p].live \in BOOLEAN /\ rows[q].live \in BOOLEAN /\ MaxWrites \in Nat
  BY JournalAssumption DEF TypeOK
<1>2. CASE p = q
  <2>1. rows'[p].writes = rows[p].writes + 1 /\ rows'[p].live = live
        /\ rows[p].writes < MaxWrites
    BY DEF Write, TypeOK
  <2>2. QED
    BY <1>1, <1>2, <2>1 DEF Shown, Deleted, Removed
<1>3. CASE p # q
  <2>1. rows'[q] = rows[q]
    BY <1>3 DEF Write, TypeOK
  <2>2. QED
    BY <1>1, <2>1 DEF Shown, Deleted, Removed
<1>4. QED
  BY <1>2, <1>3

\* Every other action leaves the table alone.
Reading ==
    \/ add_change \/ Restart \/ UNCHANGED vars
    \/ \E c \in Clients : \/ PollRead(c) \/ PollSelect(c) \/ PollClear(c) \/ PollAnswer(c)
                          \/ PollFails(c) \/ PollLost(c) \/ Fetch(c)

LEMMA ReadingLeaves == Reading => UNCHANGED rows
  BY DEF Reading, add_change, Restart, vars, PollRead, PollSelect, Selected, PollClear,
         PollAnswer, PollFails, PollLost, Fetch

LEMMA NextCases ==
    ASSUME [Next]_vars
    PROVE  \/ Reading
           \/ \E p \in Posts : add_post(p) \/ edit_post(p) \/ delete_post(p)
  BY DEF Next, Reading

LEMMA Grows ==
    ASSUME TypeOK, [Next]_vars, NEW q \in Posts
    PROVE  Shown(q) <= Shown(q)' /\ (Deleted(q) => Deleted(q)')
<1>1. CASE Reading
  BY <1>1, ReadingLeaves, StateTypes DEF Shown, Deleted, States, Removed, Absent
<1>2. ASSUME NEW p \in Posts, add_post(p) \/ edit_post(p) \/ delete_post(p)
      PROVE  Shown(q) <= Shown(q)' /\ (Deleted(q) => Deleted(q)')
  <2>1. PICK live \in BOOLEAN, deleted \in BOOLEAN :
            Write(p, live, deleted) /\ (Deleted(p) => ~live)
    BY <1>2, Writes
  <2>2. QED
    BY <2>1, WriteGrows
<1>3. QED
  BY <1>1, <1>2, NextCases

\* Reading makes no changes known that were not.
LEMMA ReadingKnown == TypeOK /\ Reading => Known' \subseteq Known \cup {NoChange}
<1> SUFFICES ASSUME TypeOK, Reading PROVE Known' \subseteq Known \cup {NoChange}
  OBVIOUS
<1>1. CASE add_change
  <2>1. logging \in Change /\ journal \in Seq(Change)
    BY <1>1 DEF TypeOK, add_change
  <2>2. Range(journal') = Range(journal) \cup {logging}
    BY <1>1, <2>1, RangeAppend DEF add_change
  <2>3. QED
    BY <1>1, <2>2 DEF Known, add_change
<1>2. CASE Restart
  <2>1. \A d \in Clients : poll'[d].changes = <<>>
    BY <1>2 DEF Restart, NoPoll
  <2>2. journal' = <<>> /\ logging' = NoChange
    BY <1>2 DEF Restart
  <2>3. QED
    BY <2>1, <2>2, RangeEmpty DEF Known
<1>3. CASE UNCHANGED vars
  BY <1>3 DEF vars, Known
<1>4. ASSUME NEW c \in Clients,
             \/ PollRead(c) \/ PollSelect(c) \/ PollClear(c) \/ PollAnswer(c)
             \/ PollFails(c) \/ PollLost(c) \/ Fetch(c)
      PROVE  Known' \subseteq Known \cup {NoChange}
  <2>1. logging' = logging /\ journal' \in {journal, <<>>}
    BY <1>4 DEF PollRead, PollSelect, Selected, PollClear, PollAnswer, PollFails, PollLost, Fetch
  <2>2. Range(journal') \subseteq Range(journal)
    BY <2>1, RangeEmpty
  <2>3. ASSUME NEW d \in Clients PROVE poll'[d].changes \in {poll[d].changes, journal, <<>>}
    <3>1. CASE PollRead(c)
      <4>1. poll'[d] \in {poll[d], [NoPoll EXCEPT !.pc = "select", !.changes = journal,
                                                  !.upto = logged]}
        BY <3>1 DEF TypeOK, PollRead
      <4>2. QED
        BY <4>1 DEF NoPoll
    <3>2. CASE PollSelect(c)
      <4> DEFINE H == Texts(post_ids(c)) \cup {As(p, Removed) : p \in deleted_ids(c)}
      <4>1. \/ poll' = [poll EXCEPT ![c] = NoPoll]
            \/ poll' = [poll EXCEPT ![c].pc = "clear", ![c].history = H]
        BY <3>2 DEF PollSelect, Selected
      <4> HIDE DEF H
      <4>2. poll \in [Clients -> [pc : {"idle", "select", "clear", "answer"}, changes : Seq(Change),
                         upto : Nat, history : SUBSET [post : Posts, state : States]]]
        BY DEF TypeOK
      <4>3. CASE poll' = [poll EXCEPT ![c] = NoPoll]
        <5>1. poll'[d] \in {poll[d], NoPoll}
          BY <4>2, <4>3
        <5>2. QED
          BY <5>1 DEF NoPoll
      <4>4. CASE poll' = [poll EXCEPT ![c].pc = "clear", ![c].history = H]
        <5>1. poll'[d].changes = poll[d].changes
          BY <4>2, <4>4
        <5>2. QED
          BY <5>1
      <4>5. QED
        BY <4>1, <4>3, <4>4
    <3>3. CASE PollClear(c) \/ PollAnswer(c) \/ PollFails(c) \/ PollLost(c) \/ Fetch(c)
      <4>1. \/ poll'[d] \in {poll[d], NoPoll}
            \/ poll'[d] = [poll[d] EXCEPT !.pc = "answer"]
        BY <3>3 DEF TypeOK, PollClear, PollAnswer, PollFails, PollLost, Fetch
      <4>2. poll[d] \in [pc : {"idle", "select", "clear", "answer"}, changes : Seq(Change),
                         upto : Nat, history : SUBSET [post : Posts, state : States]]
        BY DEF TypeOK
      <4>3. QED
        BY <4>1, <4>2 DEF NoPoll
    <3>4. QED
      BY <1>4, <3>1, <3>2, <3>3
  <2>4. \A d \in Clients : Range(poll'[d].changes) \subseteq Range(poll[d].changes) \cup Range(journal)
    BY <2>3, RangeEmpty
  <2>5. QED
    BY <2>1, <2>2, <2>4 DEF Known
<1>5. QED
  BY <1>1, <1>2, <1>3, <1>4 DEF Reading

\* The posts of known changes are posts.
LEMMA KnownType == TypeOK => Known \subseteq Change \cup {NoChange}
  BY Entries DEF Known, TypeOK

LEMMA NextDeletions == TypeOK /\ DeletionsTrue /\ [Next]_vars => DeletionsTrue'
<1> SUFFICES ASSUME TypeOK, DeletionsTrue, [Next]_vars PROVE DeletionsTrue'
  OBVIOUS
<1>1. ~NoChange.deleted /\ \A d \in Known : d.deleted => d.post \in Posts
  BY KnownType DEF NoChange, Change
<1>2. \A d \in Known : d.deleted => Deleted(d.post)'
  BY <1>1, Grows DEF DeletionsTrue
<1>3. CASE Reading
  BY <1>1, <1>2, <1>3, ReadingKnown DEF DeletionsTrue
<1>4. ASSUME NEW p \in Posts, add_post(p) \/ edit_post(p) \/ delete_post(p) PROVE DeletionsTrue'
  <2>1. PICK live \in BOOLEAN, deleted \in BOOLEAN :
            Write(p, live, deleted) /\ (deleted => ~live)
    BY <1>4, Writes
  <2>2. Known' \subseteq Known \cup {logging'}
    BY <2>1 DEF Known, Write
  <2>3. logging'.post = p /\ logging'.deleted = deleted
    BY <2>1 DEF Write
  <2>4. deleted => Deleted(p)'
    <3>1. rows'[p].writes = rows[p].writes + 1 /\ rows'[p].live = live
          /\ rows[p].writes \in Nat
      BY <2>1, JournalAssumption DEF Write, TypeOK
    <3>2. QED
      BY <2>1, <3>1 DEF Deleted
  <2>5. QED
    BY <1>2, <2>2, <2>3, <2>4 DEF DeletionsTrue
<1>5. QED
  BY <1>3, <1>4, NextCases

-----------------------------------------------------------------------------
(***************************************************************************)
(* What a poll tells.                                                      *)
(***************************************************************************)
Selection(c) == Texts(post_ids(c)) \cup {As(p, Removed) : p \in deleted_ids(c)}

LEMMA SelectionShown ==
    ASSUME TypeOK, DeletionsTrue, NEW c \in Clients
    PROVE  /\ \A h \in Selection(c) : /\ h.post \in PostsOf(poll[c].changes)
                                      /\ h.post \in Posts
                                      /\ h.state = Shown(h.post)
           /\ \A g, h \in Selection(c) : g.post = h.post => g = h
           /\ \A p \in Posts, d \in Range(poll[c].changes) :
                 About(d, p) => \E h \in Selection(c) : h.post = p
<1>1. Range(poll[c].changes) \subseteq Change
  BY Entries
<1>2. \A p \in post_ids(c) : p \in PostsOf(poll[c].changes) /\ p \in Posts
  BY <1>1 DEF post_ids, PostsOf, Change
<1>3. \A p \in deleted_ids(c) : p \in PostsOf(poll[c].changes) /\ p \in Posts /\ Deleted(p)
  <2>1. Range(poll[c].changes) \subseteq Known
    BY DEF Known
  <2>2. QED
    BY <1>1, <2>1 DEF deleted_ids, PostsOf, Change, DeletionsTrue
<1>4. \A h \in Selection(c) : \E p \in Posts :
         /\ h = As(p, Shown(p))
         /\ p \in PostsOf(poll[c].changes)
  BY <1>2, <1>3 DEF Selection, Texts, Shown, Deleted
<1>5. \A p, s : As(p, s).post = p /\ As(p, s).state = s
  BY DEF As
<1>6. ASSUME NEW p \in Posts, NEW d \in Range(poll[c].changes), About(d, p)
      PROVE  \E h \in Selection(c) : h.post = p
  <2>1. CASE d.deleted
    <3>1. p \in deleted_ids(c)
      BY <1>6, <2>1 DEF About, deleted_ids
    <3>2. As(p, Removed) \in Selection(c)
      BY <3>1 DEF Selection
    <3>3. QED
      BY <1>5, <3>2
  <2>2. CASE ~d.deleted
    <3>1. p \in post_ids(c) /\ rows[p].live
      BY <1>6, <2>2 DEF About, post_ids
    <3>2. As(p, rows[p].writes) \in Selection(c)
      BY <3>1 DEF Selection, Texts
    <3>3. QED
      BY <1>5, <3>2
  <2>3. QED
    BY <2>1, <2>2
<1>7. QED
  BY <1>4, <1>5, <1>6

\* What becomes of a poll that selects.
LEMMA SelectPoll ==
    ASSUME TypeOK, NEW c \in Clients, PollSelect(c)
    PROVE  /\ \/ Selection(c) = {} /\ poll'[c] = NoPoll
              \/ /\ Selection(c) # {}
                 /\ poll'[c].pc = "clear" /\ poll'[c].history = Selection(c)
                 /\ poll'[c].changes = poll[c].changes /\ poll'[c].upto = poll[c].upto
           /\ \A d \in Clients \ {c} : poll'[d] = poll[d]
           /\ missed' = [missed EXCEPT ![c] = @ \ {h.post : h \in Selection(c)}]
           /\ UNCHANGED <<rows, journal, logged, logging, seen>>
           /\ poll[c].pc = "select"
<1>1. Selected(c, Selection(c))
  BY DEF PollSelect, Selection
<1>2. poll \in [Clients -> [pc : {"idle", "select", "clear", "answer"}, changes : Seq(Change),
                            upto : Nat, history : SUBSET [post : Posts, state : States]]]
  BY DEF TypeOK
<1>3. QED
  BY <1>1, <1>2 DEF Selected

\* The answer of a poll, post by post.
LEMMA AnswerSeen ==
    ASSUME TypeOK, HistoryInv, NEW c \in Clients, PollAnswer(c), NEW p \in Posts
    PROVE  \/ \E h \in poll[c].history : h.post = p /\ seen'[c][p] = h.state
           \/ (\A h \in poll[c].history : h.post # p) /\ seen'[c][p] = seen[c][p]
<1>1. seen'[c][p] = IF \E h \in poll[c].history : h.post = p
                    THEN (CHOOSE h \in poll[c].history : h.post = p).state ELSE seen[c][p]
  BY DEF PollAnswer, TypeOK
<1>2. (\E h \in poll[c].history : h.post = p) =>
          /\ (CHOOSE h \in poll[c].history : h.post = p) \in poll[c].history
          /\ (CHOOSE h \in poll[c].history : h.post = p).post = p
  OBVIOUS
<1>3. QED
  BY <1>1, <1>2

\* Clients whose poll goes on and whose view is left alone.
LEMMA HistoryFrame ==
    ASSUME TypeOK, [Next]_vars, NEW d \in Clients, HistoryOK(d), seen'[d] = seen[d],
           poll'[d].history = poll[d].history, poll'[d].changes = poll[d].changes
    PROVE  HistoryOK(d)'
<1>1. \A p \in Posts : Shown(p) <= Shown(p)' /\ Shown(p) \in Int /\ Shown(p)' \in Int
  BY Grows, TypeStep, StateTypes, JournalAssumption, SMTT(40) DEF States, Absent, Removed, Shown, TypeOK
<1>2. /\ \A p \in Posts : seen[d][p] \in Int
      /\ \A h \in poll[d].history : h.post \in Posts /\ h.state \in Int
  BY JournalAssumption DEF TypeOK, States, Absent, Removed
<1>3. QED
  BY <1>1, <1>2 DEF HistoryOK

LEMMA HistoryReset ==
    ASSUME TypeOK, [Next]_vars, NEW d \in Clients, HistoryOK(d), seen'[d] = seen[d],
           poll'[d].history = {}
    PROVE  HistoryOK(d)'
<1>1. \A p \in Posts : Shown(p) <= Shown(p)' /\ Shown(p) \in Int /\ Shown(p)' \in Int
  BY Grows, TypeStep, StateTypes, JournalAssumption DEF States, Absent, Removed, Shown, TypeOK
<1>2. \A p \in Posts : seen[d][p] \in Int
  BY JournalAssumption DEF TypeOK, States, Absent, Removed
<1>3. QED
  BY <1>1, <1>2 DEF HistoryOK

LEMMA SelectHistory ==
    ASSUME TypeOK, DeletionsTrue, HistoryInv, NEW c \in Clients, PollSelect(c),
           poll'[c].history = Selection(c), poll'[c].changes = poll[c].changes
    PROVE  HistoryOK(c)'
<1>1. UNCHANGED <<rows, seen>>
  BY SelectPoll
<1>2. \A p \in Posts : Shown(p)' = Shown(p) /\ seen'[c][p] <= Shown(p) /\ Shown(p) \in Int
  BY <1>1, StateTypes, JournalAssumption
  DEF Shown, HistoryInv, HistoryOK, States, Absent, Removed
<1>3. \A h \in Selection(c) : /\ h.post \in PostsOf(poll[c].changes)
                              /\ h.post \in Posts
                              /\ h.state = Shown(h.post)
  BY SelectionShown
<1>4. \A g, h \in Selection(c) : g.post = h.post => g = h
  BY SelectionShown
<1> HIDE DEF Selection
<1>5. \A h \in Selection(c) : /\ h.post \in PostsOf(poll'[c].changes)
                              /\ seen'[c][h.post] <= h.state
                              /\ h.state <= Shown(h.post)'
  BY <1>2, <1>3
<1>6. QED
  BY <1>2, <1>4, <1>5 DEF HistoryOK

LEMMA PollHistory ==
    ASSUME TypeOK, PollInv, DeletionsTrue, HistoryInv, [Next]_vars, NEW c \in Clients,
           \/ PollRead(c) \/ PollSelect(c) \/ PollClear(c) \/ PollAnswer(c)
           \/ PollFails(c) \/ PollLost(c) \/ Fetch(c)
    PROVE  HistoryInv'
<1>1. ASSUME NEW d \in Clients, d # c PROVE HistoryOK(d)'
  <2>1. poll'[d] = poll[d] /\ seen'[d] = seen[d]
    BY <1>1
    DEF TypeOK, PollRead, PollSelect, Selected, PollClear, PollAnswer, PollFails, PollLost, Fetch
  <2>2. QED
    BY <2>1, HistoryFrame DEF HistoryInv
<1>2. HistoryOK(c)
  BY DEF HistoryInv
<1>3. CASE PollRead(c)
  <2>1. poll'[c] = [NoPoll EXCEPT !.pc = "select", !.changes = journal, !.upto = logged]
    BY <1>3 DEF PollRead, TypeOK
  <2>2. poll'[c].history = {} /\ UNCHANGED seen
    BY <1>3, <2>1 DEF NoPoll, PollRead
  <2>3. QED
    BY <1>1, <1>2, <2>2, HistoryReset DEF HistoryInv
<1>4. CASE PollSelect(c)
  <2>1. CASE poll'[c] = NoPoll
    <3>1. poll'[c].history = {} /\ UNCHANGED seen
      BY <1>4, <2>1, SelectPoll DEF NoPoll
    <3>2. QED
      BY <1>1, <1>2, <3>1, HistoryReset DEF HistoryInv
  <2>2. CASE poll'[c] # NoPoll
    BY <1>1, <1>4, <2>2, SelectPoll, SelectHistory DEF HistoryInv
  <2>3. QED
    BY <2>1, <2>2
<1>5. CASE PollClear(c)
  <2>1. poll'[c].history = poll[c].history /\ poll'[c].changes = poll[c].changes
    BY <1>5 DEF PollClear, TypeOK
  <2>2. QED
    BY <1>1, <1>2, <1>5, <2>1, HistoryFrame DEF HistoryInv, PollClear
<1>6. CASE PollAnswer(c)
  <2>1. poll'[c].history = {} /\ UNCHANGED rows
    BY <1>6 DEF PollAnswer, TypeOK, NoPoll
  <2>2. \A p \in Posts : Shown(p)' = Shown(p)
    BY <2>1 DEF Shown
  <2>3. \A p \in Posts : seen'[c][p] <= Shown(p)'
    BY <1>2, <1>6, <2>2, AnswerSeen DEF HistoryOK
  <2>4. QED
    BY <1>1, <2>1, <2>3 DEF HistoryInv, HistoryOK
<1>7. CASE PollFails(c) \/ PollLost(c)
  <2>1. poll'[c].history = {} /\ UNCHANGED seen
    BY <1>7 DEF PollFails, PollLost, TypeOK, NoPoll
  <2>2. QED
    BY <1>1, <1>2, <2>1, HistoryReset DEF HistoryInv
<1>8. CASE Fetch(c)
  <2>1. poll'[c].history = {}
    BY <1>8 DEF Fetch, PollInv, PollOK, NoPoll
  <2>2. \A p \in Posts : seen'[c][p] = Shown(p) /\ Shown(p)' = Shown(p) /\ Shown(p) \in Int
    BY <1>8, StateTypes, JournalAssumption DEF Fetch, TypeOK, Shown, States, Absent, Removed
  <2>3. QED
    BY <1>1, <2>1, <2>2 DEF HistoryInv, HistoryOK
<1>9. QED
  BY <1>3, <1>4, <1>5, <1>6, <1>7, <1>8

LEMMA NextHistory ==
    TypeOK /\ PollInv /\ DeletionsTrue /\ HistoryInv /\ [Next]_vars => HistoryInv'
<1> SUFFICES ASSUME TypeOK, PollInv, DeletionsTrue, HistoryInv, [Next]_vars PROVE HistoryInv'
  OBVIOUS
<1>1. ASSUME UNCHANGED <<poll, seen>> PROVE HistoryInv'
  BY <1>1, HistoryFrame DEF HistoryInv
<1>2. ASSUME NEW p \in Posts, add_post(p) \/ edit_post(p) \/ delete_post(p) PROVE HistoryInv'
  BY <1>1, <1>2 DEF add_post, edit_post, delete_post, Write
<1>3. CASE add_change
  BY <1>1, <1>3 DEF add_change
<1>4. ASSUME NEW c \in Clients,
             \/ PollRead(c) \/ PollSelect(c) \/ PollClear(c) \/ PollAnswer(c)
             \/ PollFails(c) \/ PollLost(c) \/ Fetch(c)
      PROVE  HistoryInv'
  BY <1>4, PollHistory
<1>5. CASE Restart
  <2>1. \A d \in Clients : poll'[d].history = {} /\ seen'[d] = seen[d]
    BY <1>5 DEF Restart, NoPoll
  <2>2. QED
    BY <2>1, HistoryReset DEF HistoryInv
<1>6. CASE UNCHANGED vars
  BY <1>1, <1>6 DEF vars
<1>7. QED
  BY <1>2, <1>3, <1>4, <1>5, <1>6 DEF Next

\* Knowledge only grows: the step that NoGoingBack is about.
LEMMA SeenGrows ==
    ASSUME TypeOK, PollInv, HistoryInv, [Next]_vars, NEW c \in Clients, NEW p \in Posts
    PROVE  seen'[c][p] >= seen[c][p]
<1>1. /\ seen[c][p] \in Int /\ Shown(p) \in Int
      /\ \A h \in poll[c].history : h.state \in Int
  BY StateTypes, JournalAssumption DEF TypeOK, States, Absent, Removed
<1>2. HistoryOK(c)
  BY DEF HistoryInv
<1>3. CASE PollAnswer(c)
  BY <1>1, <1>2, <1>3, AnswerSeen DEF HistoryOK
<1>4. CASE Fetch(c)
  BY <1>1, <1>2, <1>4 DEF HistoryOK, Fetch, TypeOK
<1>5. CASE ~PollAnswer(c) /\ ~Fetch(c)
  <2>1. ASSUME NEW d \in Clients, PollAnswer(d) \/ Fetch(d) PROVE seen'[c] = seen[c]
    BY <1>5, <2>1 DEF PollAnswer, Fetch, TypeOK
  <2>2. ASSUME NEW d \in Clients,
               PollRead(d) \/ PollSelect(d) \/ PollClear(d) \/ PollFails(d) \/ PollLost(d)
        PROVE  seen'[c] = seen[c]
    BY <2>2 DEF PollRead, PollSelect, Selected, PollClear, PollFails, PollLost
  <2>3. ASSUME NEW q \in Posts, add_post(q) \/ edit_post(q) \/ delete_post(q)
        PROVE  seen'[c] = seen[c]
    BY <2>3 DEF add_post, edit_post, delete_post, Write
  <2>4. ASSUME add_change \/ Restart \/ UNCHANGED vars PROVE seen'[c] = seen[c]
    BY <2>4 DEF add_change, Restart, vars
  <2>5. seen'[c] = seen[c]
    BY <2>1, <2>2, <2>3, <2>4 DEF Next
  <2>6. QED
    BY <1>1, <2>5
<1>6. QED
  BY <1>3, <1>4, <1>5

-----------------------------------------------------------------------------
(***************************************************************************)
(* What a client does not know is on its way, or missed.                   *)
(***************************************************************************)
LEMMA OwedFrame ==
    ASSUME NEW d \in Clients, NEW p \in Posts, OwedTo(d, p), missed[d] \subseteq missed'[d],
           poll'[d] = poll[d], seen'[d] = seen[d], UNCHANGED <<rows, journal, logged, logging>>
    PROVE  OwedTo(d, p)'
  BY DEF OwedTo, Told, Shown, About, UnreadAt

LEMMA WriteOwed ==
    ASSUME TypeOK, Owed, NEW p \in Posts, NEW live \in BOOLEAN, NEW deleted \in BOOLEAN,
           Write(p, live, deleted), Deleted(p) => ~live, deleted \/ live \/ Deleted(p)
    PROVE  Owed'
<1> SUFFICES ASSUME NEW d \in Clients, NEW q \in Posts PROVE OwedTo(d, q)'
  BY DEF Owed
<1>1. /\ UNCHANGED <<journal, logged, poll, seen, missed>>
      /\ logging = NoChange /\ logging'.post = p /\ logging'.deleted = deleted
      /\ rows'[p].live = live /\ rows'[p].writes = rows[p].writes + 1
      /\ \A r \in Posts \ {p} : rows'[r] = rows[r]
      /\ rows[p].writes \in Nat
  BY JournalAssumption DEF Write, TypeOK
<1>2. ~About(logging, q)
  BY <1>1, JournalAssumption DEF About, NoChange
<1>3. UnreadAt(d)' = UnreadAt(d)
  BY <1>1 DEF UnreadAt
<1>4. OwedTo(d, q)
  BY DEF Owed
<1>5. CASE q # p
  <2>1. Shown(q)' = Shown(q) /\ rows'[q] = rows[q]
    BY <1>1, <1>5 DEF Shown
  <2>2. QED
    BY <1>1, <1>2, <1>3, <1>4, <2>1 DEF OwedTo, Told, About
<1>6. CASE q = p /\ (deleted \/ live)
  BY <1>1, <1>6 DEF OwedTo, About
<1>7. CASE q = p /\ ~deleted /\ ~live
  <2>1. Shown(q)' = Shown(q) /\ ~rows'[q].live /\ ~rows[q].live
    BY <1>1, <1>7 DEF Shown, Deleted
  <2>2. QED
    BY <1>1, <1>2, <1>3, <1>4, <2>1 DEF OwedTo, Told, About
<1>8. QED
  BY <1>5, <1>6, <1>7

LEMMA AddChangeOwed == TypeOK /\ PollInv /\ Owed /\ add_change => Owed'
<1> SUFFICES ASSUME TypeOK, PollInv, Owed, add_change, NEW d \in Clients, NEW p \in Posts
             PROVE  OwedTo(d, p)'
  BY DEF Owed
<1>1. /\ UNCHANGED <<rows, poll, seen, missed>> /\ logged' = logged + 1
      /\ logging \in Change /\ journal \in Seq(Change) /\ journal' = Append(journal, logging)
      /\ logged \in Nat /\ poll[d].upto \in Nat /\ Len(journal) \in Nat
  BY DEF TypeOK, add_change
<1>2. /\ Len(journal') = Len(journal) + 1
      /\ \A k \in DOMAIN journal : k \in DOMAIN journal' /\ journal'[k] = journal[k]
      /\ Len(journal) + 1 \in DOMAIN journal' /\ journal'[Len(journal) + 1] = logging
      /\ DOMAIN journal \subseteq Nat
  BY <1>1, RangeAppend
<1>3. poll[d].upto <= logged
  BY DEF PollInv, PollOK
<1>4. UnreadAt(d) \subseteq UnreadAt(d)' /\ Len(journal) + 1 \in UnreadAt(d)'
  <2> DEFINE read == Len(journal) - (logged - poll[d].upto)
  <2>1. poll'[d] = poll[d]
    BY <1>1
  <2>2. CASE poll[d].pc = "idle"
    BY <1>2, <2>1, <2>2 DEF UnreadAt
  <2>3. CASE poll[d].pc # "idle"
    <3>1. UnreadAt(d) = {k \in DOMAIN journal : k > read}
      BY <2>3 DEF UnreadAt
    <3>2. Len(journal') - (logged' - poll'[d].upto) = read
      <4>1. \A a, b, c \in Nat : (a + 1) - ((b + 1) - c) = a - (b - c)
        OBVIOUS
      <4>2. (Len(journal) + 1) - ((logged + 1) - poll[d].upto) = read
        BY <1>1, <4>1
      <4>3. QED
        BY <4>2, <1>1, <1>2, <2>1, Zenon
    <3>3. UnreadAt(d)' = {k \in DOMAIN journal' : k > read}
      BY <2>1, <2>3, <3>2 DEF UnreadAt
    <3>4. Len(journal) + 1 > read
      BY <1>1, <1>3
    <3>5. QED
      BY <1>2, <3>1, <3>3, <3>4
  <2>4. QED
    BY <2>2, <2>3
<1>5. /\ Shown(p)' = Shown(p) /\ (Told(d, p) => Told(d, p)')
      /\ \A k \in UnreadAt(d) : k \in DOMAIN journal
  BY <1>1 DEF Shown, Told, UnreadAt
<1>6. OwedTo(d, p)
  BY DEF Owed
<1>7. CASE About(logging, p)
  <2> DEFINE n == Len(journal) + 1
  <2>1. journal'[n].post = p /\ (journal'[n].deleted \/ rows'[p].live)
    BY <1>1, <1>2, <1>7 DEF About
  <2>2. n \in UnreadAt(d)'
    BY <1>4
  <2> HIDE DEF n
  <2>3. QED
    BY <2>1, <2>2 DEF About, OwedTo
<1>8. CASE ~About(logging, p)
  BY <1>1, <1>2, <1>4, <1>5, <1>6, <1>8 DEF OwedTo, About
<1>9. QED
  BY <1>7, <1>8

LEMMA SelectOwed ==
    ASSUME TypeOK, PollInv, DeletionsTrue, Owed, NEW c \in Clients, PollSelect(c),
           NEW p \in Posts
    PROVE  OwedTo(c, p)'
<1>1. /\ poll[c].pc = "select" /\ poll[c].history = {}
      /\ UNCHANGED <<rows, journal, logged, logging, seen>>
      /\ missed'[c] = missed[c] \ {h.post : h \in Selection(c)}
      /\ Shown(p)' = Shown(p)
  BY SelectPoll DEF PollInv, PollOK, TypeOK, Shown
<1>2. CASE \E h \in Selection(c) : h.post = p
  <2>1. PICK h \in Selection(c) : h.post = p
    BY <1>2
  <2>2. h.state = Shown(p)
    BY <2>1, SelectionShown
  <2>3. poll'[c].history = Selection(c)
    BY <2>1, SelectPoll
  <2>4. QED
    BY <1>1, <2>1, <2>2, <2>3 DEF OwedTo, Told
<1>3. CASE \A h \in Selection(c) : h.post # p
  <2>1. ~\E d \in Range(poll[c].changes) : About(d, p)
    BY <1>3, SelectionShown
  <2>2. \/ seen[c][p] = Shown(p) \/ p \in missed[c] \/ About(logging, p)
        \/ \E k \in UnreadAt(c) : About(journal[k], p)
    BY <1>1, <2>1 DEF Owed, OwedTo, Told
  <2>3. p \in missed[c] => p \in missed'[c]
    BY <1>1, <1>3
  <2>4. seen[c][p] = Shown(p) => Told(c, p)'
    BY <1>1, <1>3, SelectPoll DEF Told, NoPoll
  <2>5. UnreadAt(c) \subseteq UnreadAt(c)'
    BY <1>1, SelectPoll DEF UnreadAt, NoPoll
  <2>6. QED
    BY <1>1, <2>2, <2>3, <2>4, <2>5 DEF OwedTo, About
<1>4. QED
  BY <1>2, <1>3

LEMMA PollOwed ==
    ASSUME TypeOK, PollInv, DeletionsTrue, HistoryInv, Owed, NEW c \in Clients,
           NEW p \in Posts, PollRead(c) \/ PollAnswer(c) \/ PollFails(c) \/ PollLost(c) \/ Fetch(c)
    PROVE  OwedTo(c, p)'
<1>1. /\ UNCHANGED <<rows, journal, logged, logging>> /\ Shown(p)' = Shown(p)
      /\ OwedTo(c, p) /\ PollOK(c) /\ HistoryOK(c)
  BY DEF PollRead, PollAnswer, PollFails, PollLost, Fetch, Shown, Owed, PollInv, HistoryInv
<1>2. /\ NoPoll.history = {} /\ NoPoll.pc = "idle"
      /\ UnreadAt(c) \subseteq DOMAIN journal
  BY DEF NoPoll, UnreadAt
<1>3. poll'[c] = NoPoll => UnreadAt(c)' = DOMAIN journal
  BY <1>1, <1>2 DEF UnreadAt
<1>4. CASE PollRead(c)
  <2>1. poll'[c] = [NoPoll EXCEPT !.pc = "select", !.changes = journal, !.upto = logged]
    BY <1>4 DEF PollRead, TypeOK
  <2>2. poll'[c].pc = "select" /\ poll'[c].changes = journal /\ poll'[c].history = {}
    BY <2>1 DEF NoPoll
  <2>3. poll[c].pc = "idle" /\ poll[c].history = {} /\ UNCHANGED <<seen, missed>>
    BY <1>1, <1>2, <1>4 DEF PollRead, PollOK
  <2>4. \A k \in UnreadAt(c) : journal[k] \in Range(poll'[c].changes)
    BY <1>2, <2>2 DEF Range
  <2>5. QED
    BY <1>1, <2>2, <2>3, <2>4 DEF OwedTo, Told, About
<1>5. CASE PollAnswer(c)
  <2>1. poll'[c] = NoPoll /\ poll[c].pc # "select" /\ UNCHANGED missed
    BY <1>5 DEF PollAnswer, TypeOK
  <2>2. Told(c, p) => Told(c, p)'
    <3>1. ASSUME Told(c, p) PROVE seen'[c][p] = Shown(p)
      BY <1>1, <1>5, <3>1, AnswerSeen DEF Told, HistoryOK
    <3>2. QED
      BY <1>1, <1>2, <2>1, <3>1 DEF Told
  <2>3. QED
    BY <1>1, <1>2, <1>3, <2>1, <2>2 DEF OwedTo, About
<1>6. CASE PollFails(c)
  <2>1. /\ poll'[c] = NoPoll /\ poll[c].pc = "select" /\ UNCHANGED seen
        /\ missed'[c] = missed[c] \cup {poll[c].changes[i].post :
                                        i \in {k \in DOMAIN poll[c].changes : k <= Cleared(c)}}
    BY <1>6 DEF PollFails, TypeOK
  <2>2. Told(c, p) => Told(c, p)'
    BY <1>1, <1>2, <2>1 DEF Told, PollOK
  <2>3. ASSUME NEW d \in Range(poll[c].changes), About(d, p)
        PROVE  p \in missed'[c] \/ \E k \in DOMAIN journal : journal[k] = d
    <3>1. PICK k \in DOMAIN poll[c].changes : poll[c].changes[k] = d
      BY DEF Range
    <3>2. /\ logged \in Int /\ Len(journal) \in Int /\ poll[c].upto \in Int
          /\ Len(poll[c].changes) \in Int /\ k \in Int
      BY DEF TypeOK
    <3>3. CASE k <= Cleared(c)
      BY <2>1, <2>3, <3>1, <3>3 DEF About
    <3>4. CASE k > Cleared(c)
      BY <1>1, <3>1, <3>4 DEF PollOK, Range
    <3>5. QED
      BY <3>2, <3>3, <3>4 DEF Cleared
  <2>4. (\E d \in Range(poll[c].changes) : About(d, p)) =>
            p \in missed'[c] \/ \E k \in DOMAIN journal : About(journal[k], p)
    BY <2>3
  <2>5. QED
    BY <1>1, <1>2, <1>3, <2>1, <2>2, <2>4 DEF OwedTo, About
<1>7. CASE PollLost(c)
  <2>1. /\ poll'[c] = NoPoll /\ poll[c].pc = "answer" /\ UNCHANGED seen
        /\ missed'[c] = missed[c] \cup PostsOf(poll[c].changes)
    BY <1>7 DEF PollLost, TypeOK
  <2>2. Told(c, p) => Told(c, p)' \/ p \in missed'[c]
    BY <1>1, <1>2, <2>1 DEF Told, HistoryOK
  <2>3. QED
    BY <1>1, <1>2, <1>3, <2>1, <2>2 DEF OwedTo, About
<1>8. CASE Fetch(c)
  <2>1. poll'[c] = NoPoll /\ seen'[c][p] = Shown(p)
    BY <1>1, <1>8 DEF Fetch, TypeOK, PollOK
  <2>2. QED
    BY <1>1, <1>2, <2>1 DEF OwedTo, Told
<1>9. QED
  BY <1>4, <1>5, <1>6, <1>7, <1>8

LEMMA ClearOwed ==
    ASSUME TypeOK, Owed, NEW c \in Clients, PollClear(c), NEW d \in Clients, NEW p \in Posts
    PROVE  OwedTo(d, p)'
<1>1. /\ UNCHANGED <<rows, logging, seen>> /\ Shown(p)' = Shown(p)
      /\ missed'[d] = missed[d] \cup Unread(d)
      /\ poll'[d].history = poll[d].history /\ poll'[d].changes = poll[d].changes
      /\ poll[d].pc = "select" => poll'[d].pc = "select"
  BY DEF PollClear, TypeOK, Shown
<1>2. Told(d, p) => Told(d, p)'
  BY <1>1 DEF Told
<1>3. (\E k \in UnreadAt(d) : About(journal[k], p)) => p \in missed'[d]
  BY <1>1 DEF Unread, About
<1>4. OwedTo(d, p)
  BY DEF Owed
<1>5. QED
  BY <1>1, <1>2, <1>3, <1>4 DEF OwedTo, About

LEMMA RestartOwed ==
    ASSUME TypeOK, PollInv, HistoryInv, Owed, Restart, NEW d \in Clients, NEW p \in Posts
    PROVE  OwedTo(d, p)'
<1>1. /\ UNCHANGED <<rows, seen>> /\ Shown(p)' = Shown(p) /\ poll'[d].history = {}
      /\ missed'[d] = missed[d] \cup PostsOf(journal) \cup PostsOf(poll[d].changes)
                          \cup ({logging.post} \cap Posts)
  BY DEF Restart, Shown, NoPoll
<1>2. (\E k \in UnreadAt(d) : About(journal[k], p)) => p \in PostsOf(journal)
  BY DEF UnreadAt, About, PostsOf, Range
<1>3. (\E e \in Range(poll[d].changes) : About(e, p)) => p \in PostsOf(poll[d].changes)
  BY DEF About, PostsOf
<1>4. Told(d, p) => Told(d, p)' \/ p \in PostsOf(poll[d].changes)
  BY <1>1 DEF Told, HistoryInv, HistoryOK
<1>5. OwedTo(d, p)
  BY DEF Owed
<1>6. QED
  BY <1>1, <1>2, <1>3, <1>4, <1>5 DEF OwedTo, About

LEMMA NextOwed ==
    TypeOK /\ PollInv /\ DeletionsTrue /\ HistoryInv /\ Owed /\ [Next]_vars => Owed'
<1> SUFFICES ASSUME TypeOK, PollInv, DeletionsTrue, HistoryInv, Owed, [Next]_vars PROVE Owed'
  OBVIOUS
<1>1. ASSUME NEW p \in Posts, add_post(p) \/ edit_post(p) \/ delete_post(p) PROVE Owed'
  <2>1. PICK live \in BOOLEAN, deleted \in BOOLEAN :
            Write(p, live, deleted) /\ (Deleted(p) => ~live) /\ (deleted \/ live \/ Deleted(p))
    BY <1>1, Writes
  <2>2. QED
    BY <2>1, WriteOwed
<1>2. CASE add_change
  BY <1>2, AddChangeOwed
<1>3. ASSUME NEW c \in Clients, PollClear(c) PROVE Owed'
  BY <1>3, ClearOwed DEF Owed
<1>4. ASSUME NEW c \in Clients,
             \/ PollRead(c) \/ PollSelect(c) \/ PollAnswer(c)
             \/ PollFails(c) \/ PollLost(c) \/ Fetch(c)
      PROVE  Owed'
  <2>1. ASSUME NEW p \in Posts PROVE OwedTo(c, p)'
    BY <1>4, SelectOwed, PollOwed
  <2>2. ASSUME NEW d \in Clients, d # c, NEW p \in Posts PROVE OwedTo(d, p)'
    <3>1. /\ poll'[d] = poll[d] /\ seen'[d] = seen[d] /\ missed'[d] = missed[d]
          /\ UNCHANGED <<rows, journal, logged, logging>>
      BY <1>4, <2>2
      DEF TypeOK, PollRead, PollSelect, Selected, PollAnswer, PollFails, PollLost, Fetch
    <3>2. QED
      BY <3>1, OwedFrame DEF Owed
  <2>3. QED
    BY <2>1, <2>2 DEF Owed
<1>5. CASE Restart
  BY <1>5, RestartOwed DEF Owed
<1>6. CASE UNCHANGED vars
  BY <1>6, OwedFrame DEF vars, Owed
<1>7. QED
  BY <1>1, <1>2, <1>3, <1>4, <1>5, <1>6 DEF Next

-----------------------------------------------------------------------------
LEMMA Inductive == Spec => []IInv
<1>1. IInv /\ [Next]_vars => IInv'
  BY TypeStep, NextPollInv, NextDeletions, NextHistory, NextOwed DEF IInv
<1>2. QED
  BY <1>1, InitIInv, PTL DEF Spec

\* The table, the journal and the polls keep their types.
THEOREM TypeCorrect == Spec => []TypeOK
  BY Inductive, PTL DEF IInv

\* A client is behind the table only for a reason it can be told: the change is
\* on its way, or was cleared unread, or went down with a response or the core
\* (get_history and clear_changes, posts.py:405-456).
THEOREM BehindForAReason == Spec => []StaleExplained
<1>1. IInv => StaleExplained
  <2> SUFFICES ASSUME IInv, NEW c \in Clients, NEW p \in Posts, seen[c][p] # Shown(p)
               PROVE  p \in PostsOf(journal) \cup {logging.post} \cup PostsOf(poll[c].changes)
                            \cup missed[c]
    BY DEF StaleExplained
  <2>1. OwedTo(c, p) /\ HistoryOK(c)
    BY DEF IInv, Owed, HistoryInv
  <2>2. Told(c, p) => p \in PostsOf(poll[c].changes)
    BY <2>1 DEF Told, HistoryOK
  <2>3. \A k \in UnreadAt(c) : journal[k] \in Range(journal)
    BY DEF UnreadAt, Range
  <2>4. QED
    BY <2>1, <2>2, <2>3 DEF OwedTo, About, PostsOf
<1>2. QED
  BY <1>1, Inductive, PTL

\* What a client is told never goes back, however polls, writes, faults and
\* restarts interleave (posts.py:431-456).
THEOREM NeverBack == Spec => NoGoingBack
<1>1. IInv /\ [Next]_vars => [\A c \in Clients, p \in Posts : seen'[c][p] >= seen[c][p]]_vars
  BY SeenGrows DEF IInv
<1>2. QED
  BY <1>1, Inductive, PTL DEF Spec, NoGoingBack
=============================================================================
