---------------------------- MODULE ClientsProofs ----------------------------
(***************************************************************************)
(* Proofs about the tools on the user's side, each by itself, for any      *)
(* callers, trees, files, chats, settings and numbers of steps.  v1, v2,   *)
(* ... are the variables of a part in the order of its module.             *)
(***************************************************************************)
EXTENDS MCClients, Integers, Sequences, FiniteSets, FiniteSetTheorems, SequenceTheorems,
        WellFoundedInduction, TLAPS

-----------------------------------------------------------------------------
(***************************************************************************)
(* Index queue of an MCP process (index_queue v1, index_jobs v2, worker    *)
(* v3, calls v4, made v5)                                                  *)
(***************************************************************************)
\* What was in the queue stays in it when another project is appended.
LEMMA QueueAppended ==
  ASSUME NEW s \in Seq(Files), NEW p \in Files
  PROVE  /\ Append(s, p) \in Seq(Files)
         /\ p \in Queue!ToSet(Append(s, p))
         /\ Queue!ToSet(s) \subseteq Queue!ToSet(Append(s, p))
  <1>1. /\ Append(s, p) \in Seq(Files) /\ Len(Append(s, p)) = Len(s) + 1 /\ Len(s) \in Nat
        /\ Append(s, p)[Len(s) + 1] = p
        /\ \A i \in 1..Len(s) : Append(s, p)[i] = s[i]
    OBVIOUS
  <1>2. DOMAIN s = 1..Len(s) /\ DOMAIN Append(s, p) = 1..(Len(s) + 1)
    BY <1>1
  <1>3. QED
    BY <1>1, <1>2 DEF Queue!ToSet

\* What is not the head of the queue is in its tail.
LEMMA QueueTaken ==
  ASSUME NEW s \in Seq(Files), s # <<>>
  PROVE  /\ Head(s) \in Files /\ Tail(s) \in Seq(Files)
         /\ \A p \in Queue!ToSet(s) : p = Head(s) \/ p \in Queue!ToSet(Tail(s))
  <1>1. /\ Head(s) \in Files /\ Tail(s) \in Seq(Files) /\ Len(s) \in Nat \ {0}
        /\ Head(s) = s[1] /\ Len(Tail(s)) = Len(s) - 1
        /\ \A i \in 1..(Len(s) - 1) : Tail(s)[i] = s[i + 1]
    OBVIOUS
  <1>2. DOMAIN s = 1..Len(s) /\ DOMAIN Tail(s) = 1..(Len(s) - 1)
    BY <1>1
  <1>3. ASSUME NEW i \in 1..Len(s), i # 1 PROVE s[i] = Tail(s)[i - 1] /\ i - 1 \in DOMAIN Tail(s)
    <2>1. i \in Int /\ i - 1 \in 1..(Len(s) - 1) /\ (i - 1) + 1 = i
      BY <1>1, <1>3
    <2>2. Tail(s)[i - 1] = s[(i - 1) + 1]
      BY <1>1, <2>1
    <2>3. QED
      BY <1>2, <2>1, <2>2
  <1>4. ASSUME NEW p \in Queue!ToSet(s) PROVE p = Head(s) \/ p \in Queue!ToSet(Tail(s))
    <2>1. PICK i \in 1..Len(s) : p = s[i]
      BY <1>2, <1>4 DEF Queue!ToSet
    <2>2. CASE i = 1
      BY <1>1, <2>1, <2>2
    <2>3. CASE i # 1
      BY <1>3, <2>1, <2>3 DEF Queue!ToSet
    <2>4. QED
      BY <2>2, <2>3
  <1>5. QED
    BY <1>1, <1>4

\* At first no record waits.
LEMMA QueueInit == Queue!Init => Queue!IInv
  BY DEF Queue!Init, Queue!IInv, Queue!TypeOK, Queue!Statuses, Queue!RecordIsTrue, Queue!NoRecord, Queue!Free, Queue!NoCall

\* Every step of a call and of the worker keeps the invariant.
LEMMA QueueStep == Queue!IInv /\ [Queue!Next]_(Queue!vars) => Queue!IInv'
  <1> SUFFICES ASSUME Queue!IInv, [Queue!Next]_(Queue!vars) PROVE Queue!IInv'
    OBVIOUS
  <1> DEFINE Records == [id : Nat, status : Queue!Statuses]
  <1>0. /\ v1 \in Seq(Files) /\ v2 \in [Files -> Records]
        /\ v3 = Queue!Free \/ v3 \in [project : Files, id : Nat]
        /\ v4 \in [Callers -> {Queue!NoCall} \cup [pc : {"get_index", "get_code_index"}, project : Files]]
        /\ v5 \in Nat /\ Queue!RecordIsTrue
    BY DEF Queue!IInv, Queue!TypeOK
  <1>a. None \notin Files
    BY NamesAssumption
  <1>1. ASSUME NEW c \in Callers, NEW p \in Files, Queue!Background(c, p) \/ Queue!Direct(c, p) PROVE Queue!IInv'
    <2>1. /\ UNCHANGED <<v1, v2, v3, v5>>
          /\ \E pc \in {"get_index", "get_code_index"} : v4' = [v4 EXCEPT ![c] = [pc |-> pc, project |-> p]]
      BY <1>1 DEF Queue!Background, Queue!Direct
    <2>2. QED
      BY <1>0, <2>1 DEF Queue!IInv, Queue!TypeOK, Queue!RecordIsTrue
  <1>2. ASSUME NEW c \in Callers, v4[c] # Queue!NoCall
        PROVE  v4[c].project \in Files /\ [v4 EXCEPT ![c] = Queue!NoCall] \in
                 [Callers -> {Queue!NoCall} \cup [pc : {"get_index", "get_code_index"}, project : Files]]
    BY <1>0, <1>2
  <1>3. ASSUME NEW c \in Callers, Queue!Answered(c) PROVE Queue!IInv'
    <2> DEFINE p == v4[c].project
    <2>1. /\ p \in Files /\ v5' = v5 + 1 /\ v2' = [v2 EXCEPT ![p] = [id |-> v5', status |-> "ready"]]
          /\ v4' = [v4 EXCEPT ![c] = Queue!NoCall] /\ UNCHANGED <<v1, v3>>
      BY <1>2, <1>3 DEF Queue!Answered, Queue!NewRecord, Queue!Ends
    <2>2. v2' \in [Files -> Records]
      BY <1>0, <2>1 DEF Queue!Statuses
    <2>3. Queue!RecordIsTrue'
      BY <1>0, <2>1 DEF Queue!RecordIsTrue
    <2>4. QED
      BY <1>0, <1>2, <1>3, <2>1, <2>2, <2>3 DEF Queue!IInv, Queue!TypeOK, Queue!Answered
  <1>4. ASSUME NEW c \in Callers, Queue!Missing(c) PROVE Queue!IInv'
    <2> DEFINE p == v4[c].project
    <2>1. v4[c] # Queue!NoCall
      BY <1>4 DEF Queue!Missing, Queue!NoCall
    <2>2. /\ p \in Files /\ v5' = v5 + 1 /\ v2' = [v2 EXCEPT ![p] = [id |-> v5', status |-> "queued"]]
          /\ v1' = Append(v1, p) /\ v4' = [v4 EXCEPT ![c] = Queue!NoCall] /\ v3' = v3
      BY <1>2, <1>4, <2>1 DEF Queue!Missing, Queue!NewRecord, Queue!Ends
    <2> HIDE DEF p
    <2>3. v2' \in [Files -> Records]
      BY <1>0, <2>2 DEF Queue!Statuses
    <2>4. v1' \in Seq(Files) /\ p \in Queue!ToSet(v1') /\ Queue!ToSet(v1) \subseteq Queue!ToSet(v1')
      BY <1>0, <2>2, QueueAppended
    <2>5. Queue!RecordIsTrue'
      BY <1>0, <2>2, <2>4 DEF Queue!RecordIsTrue
    <2>6. QED
      BY <1>0, <1>2, <2>1, <2>2, <2>3, <2>4, <2>5 DEF Queue!IInv, Queue!TypeOK
  <1>5. ASSUME NEW c \in Callers, Queue!CallFails(c) PROVE Queue!IInv'
    BY <1>0, <1>2, <1>5 DEF Queue!CallFails, Queue!Ends, Queue!IInv, Queue!TypeOK, Queue!RecordIsTrue
  <1>6. CASE Queue!Take
    <2> DEFINE p == Head(v1)
               taken == [v2[p] EXCEPT !.status = "running"]
    <2>1. /\ v3 = Queue!Free /\ v1 # <<>> /\ v2' = [v2 EXCEPT ![p] = taken]
          /\ v3' = [project |-> p, id |-> v2[p].id] /\ v1' = Tail(v1) /\ UNCHANGED <<v4, v5>>
      BY <1>6 DEF Queue!Take
    <2>2. p \in Files /\ v1' \in Seq(Files) /\ \A q \in Queue!ToSet(v1) : q = p \/ q \in Queue!ToSet(v1')
      BY <1>0, <2>1, QueueTaken
    <2>3. taken \in Records /\ taken.id = v2[p].id /\ taken.status = "running" /\ v2[p].id \in Nat
      BY <1>0, <2>2 DEF Queue!Statuses
    <2> HIDE DEF p, taken
    <2>4. v2' \in [Files -> Records] /\ v2'[p] = taken /\ \A q \in Files : q # p => v2'[q] = v2[q]
      BY <1>0, <2>1, <2>2, <2>3
    <2>5. \A q \in Files : v2[q].status # "running"
      BY <1>0, <1>a, <2>1 DEF Queue!RecordIsTrue, Queue!Free
    <2>6. Queue!RecordIsTrue'
      BY <1>0, <2>1, <2>2, <2>3, <2>4, <2>5 DEF Queue!RecordIsTrue
    <2>7. QED
      BY <1>0, <2>1, <2>2, <2>3, <2>4, <2>6 DEF Queue!IInv, Queue!TypeOK
  <1>7. CASE Queue!Done
    <2> DEFINE p == v3.project
    <2>1. /\ v3 # Queue!Free /\ v3' = Queue!Free /\ UNCHANGED <<v1, v4, v5>>
          /\ \E status \in {"ready", "error"} :
                v2' = IF v2[p].id = v3.id THEN [v2 EXCEPT ![p] = [v2[p] EXCEPT !.status = status]] ELSE v2
      BY <1>7 DEF Queue!Done, Queue!Update, Queue!Outcomes
    <2>2. v3 \in [project : Files, id : Nat] /\ p \in Files /\ v3 = [project |-> p, id |-> v3.id]
      BY <1>0, <2>1
    <2> HIDE DEF p
    <2>3. ASSUME NEW q \in Files, q # p PROVE v2[q].status # "running"
      BY <1>0, <2>2, <2>3 DEF Queue!RecordIsTrue
    <2>4. CASE v2[p].id = v3.id
      <3>1. PICK status \in {"ready", "error"} : v2' = [v2 EXCEPT ![p] = [v2[p] EXCEPT !.status = status]]
        BY <2>1, <2>4
      <3>2. [v2[p] EXCEPT !.status = status] \in Records /\ [v2[p] EXCEPT !.status = status].status = status
        BY <1>0, <2>2 DEF Queue!Statuses
      <3>3. v2' \in [Files -> Records] /\ v2'[p].status = status /\ \A q \in Files : q # p => v2'[q] = v2[q]
        BY <1>0, <2>2, <3>1, <3>2
      <3>4. QED
        BY <1>0, <2>1, <2>3, <3>3 DEF Queue!IInv, Queue!TypeOK, Queue!RecordIsTrue
    <2>5. CASE v2[p].id # v3.id
      <3>1. v2' = v2
        BY <2>1, <2>5
      <3>2. v2[p].status # "running"
        BY <1>0, <2>2, <2>5 DEF Queue!RecordIsTrue
      <3>3. QED
        BY <1>0, <2>1, <2>3, <3>1, <3>2 DEF Queue!IInv, Queue!TypeOK, Queue!RecordIsTrue
    <2>6. QED
      BY <2>4, <2>5
  <1>8. CASE UNCHANGED Queue!vars
    BY <1>8 DEF Queue!vars, Queue!IInv, Queue!TypeOK, Queue!RecordIsTrue
  <1>9. QED
    BY <1>1, <1>3, <1>4, <1>5, <1>6, <1>7, <1>8 DEF Queue!Next

-----------------------------------------------------------------------------
(***************************************************************************)
(* Chat client (live v1, gone v2, journal v3, active v4, elsewhere v5, sel *)
(* v6, shown v7, full v8, awaited v9, poll v10, clicks v11, list v12,      *)
(* asking v13, mixed v14, cutShort v15, missed v16, used v17)              *)
(***************************************************************************)
\* A post is of one chat.
LEMMA ChatPosts ==
  /\ \A p \in Chat!Posts : Chat!ChatOf(p) \in Clients /\ p \in Chat!Of(Chat!ChatOf(p))
  /\ \A c : Chat!Of(c) \subseteq Chat!Posts /\ \A p \in Chat!Of(c) : Chat!ChatOf(p) = c
  BY DEF Chat!Posts, Chat!ChatOf, Chat!Of

\* A request without an answer is a poll, and the answer to one is.
LEMMA ChatNoPoll == Chat!NoPoll \in Chat!Polls /\ Chat!NoPoll.adds = {} /\ Chat!NoPoll.dels = {} /\ Chat!NoPoll.pc = "idle"
  BY DEF Chat!NoPoll, Chat!Polls

\* An answer to a poll carries what was read for it, for the chat it was asked about.
LEMMA ChatAnswered ==
  ASSUME v10 \in Chat!Polls, NEW kind \in {"posts", "switch", "nothing", "error"}, NEW about \in Clients \cup {None},
         NEW adds \in SUBSET Chat!Posts, NEW dels \in SUBSET Chat!Posts, Chat!Answered(kind, about, adds, dels)
  PROVE  /\ v10' \in Chat!Polls /\ v10'.pc = "answered" /\ v10'.kind = kind /\ v10'.chat = about
         /\ v10'.adds = adds /\ v10'.dels = dels /\ v10'.full = v10.full
  BY DEF Chat!Polls, Chat!Answered

\* At first the tab has selected nothing.
LEMMA ChatInit == Chat!Init => Chat!IInv
  <1> SUFFICES ASSUME Chat!Init PROVE Chat!IInv
    OBVIOUS
  <1>1. Chat!TypeOK
    BY ChatNoPoll DEF Chat!Init, Chat!TypeOK
  <1>2. QED
    BY <1>1, ChatNoPoll DEF Chat!Init, Chat!IInv, Chat!RowsAreApart, Chat!AnswersOfTheirChat, Chat!FullIsComplete,
       Chat!OnlyOfSelected, Chat!CompleteOrExplained

\* Steps that leave rows, store and request alone keep the invariant.
LEMMA ChatQuiet ==
  ASSUME Chat!IInv, Chat!TypeOK', UNCHANGED <<v1, v2, v3, v6, v7, v8, v10, v14, v15, v16>>
  PROVE  Chat!IInv'
  BY DEF Chat!IInv, Chat!RowsAreApart, Chat!AnswersOfTheirChat, Chat!FullIsComplete, Chat!OnlyOfSelected,
     Chat!CompleteOrExplained

\* Every step of the tab, its server and other tabs keeps the invariant.
LEMMA ChatStep == Chat!IInv /\ [Chat!Next]_(Chat!vars) => Chat!IInv'
  <1> SUFFICES ASSUME Chat!IInv, [Chat!Next]_(Chat!vars) PROVE Chat!IInv'
    OBVIOUS
  <1>0. /\ v3 \in [Clients -> SUBSET Chat!Posts] /\ v10 \in Chat!Polls
        /\ v4 \in Clients \cup {None} /\ v5 \in Clients \cup {None}
        /\ v6 \in Clients \cup {None} /\ v12 \in Clients \cup {None}
        /\ v11 \subseteq Clients \X {"sent", "noted"}
        /\ v8 \in BOOLEAN /\ v14 \in BOOLEAN /\ v15 \in BOOLEAN
    BY DEF Chat!IInv, Chat!TypeOK
  <1>a. /\ v1 \subseteq Chat!Posts /\ v2 \subseteq Chat!Posts /\ v1 \cap v2 = {}
        /\ \A c \in Clients : v3[c] \subseteq Chat!Of(c)
    BY DEF Chat!IInv, Chat!RowsAreApart
  <1>b. /\ v10.pc # "answered" \/ v10.kind # "posts" => v10.adds = {} /\ v10.dels = {}
        /\ v10.adds \subseteq Chat!Of(v10.chat) /\ v10.dels \subseteq v2
        /\ v10.pc # "idle" => v10.chat \in Clients
        /\ v10.pc = "looked" => ~ v10.full /\ v10.active \in Clients
    BY DEF Chat!IInv, Chat!AnswersOfTheirChat
  <1>c. /\ v10.pc \in {"idle", "asked", "looked", "answered"} /\ v10.chat \in Clients \cup {None} /\ v10.full \in BOOLEAN
        /\ v10.active \in Clients \cup {None} /\ v10.adds \subseteq Chat!Posts /\ v10.dels \subseteq Chat!Posts
    BY <1>0 DEF Chat!Polls
  <1>1. ASSUME NEW p \in Chat!Posts, Chat!AddPost(p) PROVE Chat!IInv'
    <2>1. /\ p \notin v1 \cup v2 /\ v1' = v1 \cup {p} /\ v3' = [v3 EXCEPT ![Chat!ChatOf(p)] = @ \cup {p}]
          /\ UNCHANGED <<v2, v4, v5, v6, v7, v8, v9, v10, v11, v12, v13, v14, v15, v16>>
      BY <1>1 DEF Chat!AddPost, Chat!store, Chat!flights, Chat!history
    <2>2. Chat!ChatOf(p) \in Clients /\ p \in Chat!Of(Chat!ChatOf(p))
      BY ChatPosts
    <2>3. v3' \in [Clients -> SUBSET Chat!Posts] /\ \A c \in Clients : v3'[c] = IF c = Chat!ChatOf(p) THEN v3[c] \cup {p} ELSE v3[c]
      BY <1>0, <2>1, <2>2
    <2>4. Chat!TypeOK'
      BY <1>0, <2>1, <2>3 DEF Chat!TypeOK
    <2>5. Chat!RowsAreApart'
      BY <1>a, <2>1, <2>2, <2>3 DEF Chat!RowsAreApart
    <2>6. Chat!AnswersOfTheirChat'
      BY <1>b, <2>1 DEF Chat!AnswersOfTheirChat
    <2>7. Chat!FullIsComplete'
      BY <1>b, <2>1, <2>2, <2>3, ChatPosts DEF Chat!IInv, Chat!FullIsComplete
    <2>8. Chat!CompleteOrExplained'
      BY <1>0, <2>1, <2>2, <2>3, ChatPosts DEF Chat!IInv, Chat!CompleteOrExplained
    <2>9. QED
      BY <2>1, <2>4, <2>5, <2>6, <2>7, <2>8 DEF Chat!IInv, Chat!OnlyOfSelected
  <1>2. ASSUME NEW p \in Chat!Posts, Chat!DeletePost(p),
               UNCHANGED <<v4, v5, v6, v7, v8, v10, v11, v12, v14, v15, v16>>
        PROVE  Chat!IInv'
    <2>1. /\ v1' = v1 \ {p} /\ v2' = v2 \cup {p} /\ v3' = [v3 EXCEPT ![Chat!ChatOf(p)] = @ \cup {p}]
      BY <1>2 DEF Chat!DeletePost
    <2>2. Chat!ChatOf(p) \in Clients /\ p \in Chat!Of(Chat!ChatOf(p))
      BY ChatPosts
    <2>3. v3' \in [Clients -> SUBSET Chat!Posts] /\ \A c \in Clients : v3'[c] = IF c = Chat!ChatOf(p) THEN v3[c] \cup {p} ELSE v3[c]
      BY <1>0, <2>1, <2>2
    <2>4. Chat!TypeOK'
      BY <1>0, <1>2, <2>1, <2>3 DEF Chat!TypeOK
    <2>5. Chat!RowsAreApart'
      BY <1>a, <2>1, <2>2, <2>3 DEF Chat!RowsAreApart
    <2>6. Chat!AnswersOfTheirChat'
      BY <1>b, <1>2, <2>1 DEF Chat!AnswersOfTheirChat
    <2>7. Chat!FullIsComplete'
      BY <1>b, <1>2, <2>1, <2>3 DEF Chat!IInv, Chat!FullIsComplete
    <2>8. Chat!CompleteOrExplained'
      BY <1>0, <1>2, <2>1, <2>3 DEF Chat!IInv, Chat!CompleteOrExplained
    <2>9. QED
      BY <1>2, <2>1, <2>4, <2>5, <2>6, <2>7, <2>8 DEF Chat!IInv, Chat!OnlyOfSelected
  <1>3. ASSUME NEW p \in Chat!Posts, Chat!DeleteElsewhere(p) \/ Chat!DeleteDone(p) PROVE Chat!IInv'
    BY <1>2, <1>3 DEF Chat!DeleteElsewhere, Chat!DeleteDone, Chat!store, Chat!flights, Chat!history
  <1>4. ASSUME NEW p \in Chat!Posts, Chat!DeleteAsk(p) \/ Chat!DeleteFails(p) PROVE Chat!IInv'
    <2>1. UNCHANGED <<v1, v2, v3, v4, v5, v6, v7, v8, v10, v11, v12, v14, v15, v16>>
      BY <1>4 DEF Chat!DeleteAsk, Chat!DeleteFails, Chat!server, Chat!history
    <2>2. QED
      BY <1>0, <2>1, ChatQuiet DEF Chat!TypeOK
  <1>5. ASSUME NEW c \in Clients, Chat!OtherPoll(c) PROVE Chat!IInv'
    <2>1. /\ v16' = v16 \cup v3[c] /\ v3' = [v3 EXCEPT ![c] = {}]
          /\ UNCHANGED <<v1, v2, v4, v5, v6, v7, v8, v9, v10, v11, v12, v13, v14, v15>>
      BY <1>5 DEF Chat!OtherPoll, Chat!store, Chat!flights
    <2>2. v3' \in [Clients -> SUBSET Chat!Posts] /\ v3'[c] = {} /\ \A d \in Clients : d # c => v3'[d] = v3[d]
      BY <1>0, <2>1
    <2>3. Chat!TypeOK'
      BY <1>0, <2>1, <2>2 DEF Chat!TypeOK
    <2>4. Chat!FullIsComplete'
      BY <1>b, <2>1, <2>2 DEF Chat!IInv, Chat!FullIsComplete
    <2>5. Chat!CompleteOrExplained'
      BY <1>0, <2>1, <2>2 DEF Chat!IInv, Chat!CompleteOrExplained
    <2>6. QED
      BY <1>a, <2>1, <2>2, <2>3, <2>4, <2>5
         DEF Chat!IInv, Chat!RowsAreApart, Chat!AnswersOfTheirChat, Chat!OnlyOfSelected
  <1>6. ASSUME NEW c \in Clients, Chat!Click(c) \/ Chat!notify_switch(c) \/ Chat!NotifyFails(c) PROVE Chat!IInv'
    <2>1. /\ UNCHANGED <<v1, v2, v3, v5, v6, v7, v8, v10, v12, v14, v15, v16>>
          /\ v4' \in Clients \cup {None} /\ v11' \subseteq Clients \X {"sent", "noted"}
      BY <1>0, <1>6 DEF Chat!Click, Chat!notify_switch, Chat!NotifyFails, Chat!Noted, Chat!server, Chat!store, Chat!history
    <2>2. QED
      BY <1>0, <2>1, ChatQuiet DEF Chat!TypeOK
  <1>7. ASSUME NEW c \in Clients, Chat!setChatId(c) PROVE Chat!IInv'
    <2>1. /\ v6' = c /\ v7' = {} /\ v8' = TRUE /\ v14' = FALSE /\ v15' = FALSE /\ v11' \subseteq v11
          /\ UNCHANGED <<v1, v2, v3, v4, v5, v10, v12, v16>>
      BY <1>7 DEF Chat!setChatId, Chat!NeedsFull, Chat!server
    <2>2. Chat!TypeOK'
      BY <1>0, <2>1 DEF Chat!TypeOK
    <2>3. QED
      BY <2>1, <2>2 DEF Chat!IInv, Chat!RowsAreApart, Chat!AnswersOfTheirChat, Chat!FullIsComplete,
         Chat!OnlyOfSelected, Chat!CompleteOrExplained
  <1>8. CASE Chat!ListAsk
    <2>1. v12' \in Clients \cup {None} /\ UNCHANGED <<v1, v2, v3, v4, v5, v6, v7, v8, v10, v11, v14, v15, v16>>
      BY <1>0, <1>8 DEF Chat!ListAsk, Chat!server, Chat!store, Chat!history
    <2>2. QED
      BY <1>0, <2>1, ChatQuiet DEF Chat!TypeOK
  <1>9. CASE Chat!fetchChats
    <2>1. /\ v12' = None /\ UNCHANGED <<v1, v2, v3, v4, v5, v7, v10, v11, v16>>
          /\ \/ UNCHANGED <<v6, v8, v14, v15>>
             \/ v6' = v12 /\ v8' = TRUE /\ v14' = (v14 \/ v7 # {}) /\ v15' = FALSE
      BY <1>9 DEF Chat!fetchChats, Chat!server
    <2>2. v14' \in BOOLEAN
      BY <1>0, <2>1
    <2>3. Chat!TypeOK'
      BY <1>0, <2>1, <2>2 DEF Chat!TypeOK
    <2>4. QED
      BY <2>1, <2>3 DEF Chat!IInv, Chat!RowsAreApart, Chat!AnswersOfTheirChat, Chat!FullIsComplete,
         Chat!OnlyOfSelected, Chat!CompleteOrExplained
  <1>10. ASSUME v10' \in Chat!Polls, v10'.pc # "answered" \/ v10'.kind # "posts", v10'.adds = {}, v10'.dels = {},
                v10'.pc # "idle" => v10'.chat \in Clients,
                v10'.pc = "looked" => ~ v10'.full /\ v10'.active \in Clients, v4' \in Clients \cup {None},
                v10.adds = {}, UNCHANGED <<v1, v2, v3, v5, v6, v7, v8, v11, v12, v14, v15, v16>>
         PROVE  Chat!IInv'
    <2>1. Chat!TypeOK'
      BY <1>0, <1>10 DEF Chat!TypeOK
    <2>2. QED
      BY <1>10, <2>1 DEF Chat!IInv, Chat!RowsAreApart, Chat!AnswersOfTheirChat, Chat!FullIsComplete,
         Chat!OnlyOfSelected, Chat!CompleteOrExplained
  <1>11. CASE Chat!Ask
    <2>1. /\ v6 # None /\ v10.pc = "idle" /\ v10' = [Chat!NoPoll EXCEPT !.pc = "asked", !.chat = v6, !.full = v8]
          /\ UNCHANGED <<v1, v2, v3, v4, v5, v6, v7, v8, v11, v12, v14, v15, v16>>
      BY <1>11 DEF Chat!Ask, Chat!server, Chat!store, Chat!history
    <2>2. v10' \in Chat!Polls /\ v10'.pc = "asked" /\ v10'.chat \in Clients /\ v10'.adds = {} /\ v10'.dels = {}
      BY <1>0, <2>1 DEF Chat!NoPoll, Chat!Polls
    <2>3. v10.adds = {}
      BY <1>b, <2>1
    <2>4. QED
      BY <1>0, <1>10, <2>1, <2>2, <2>3
  <1>12. CASE Chat!AnswerFull
    <2> DEFINE all == v1 \cap Chat!Of(v10.chat)
    <2>1. /\ v10.pc = "asked" /\ v10.full /\ UNCHANGED <<v1, v2, v3, v4, v5, v6, v7, v8, v11, v12, v14, v15, v16>>
          /\ Chat!Answered("posts", v10.chat, all, {})
      BY <1>12 DEF Chat!AnswerFull, Chat!server, Chat!store, Chat!history
    <2>2. v10.chat \in Clients /\ v10.adds = {} /\ all \in SUBSET Chat!Posts
      BY <1>a, <1>b, <2>1
    <2>3. /\ v10' \in Chat!Polls /\ v10'.pc = "answered" /\ v10'.kind = "posts" /\ v10'.chat = v10.chat
          /\ v10'.adds = all /\ v10'.dels = {}
      <3> HIDE DEF all
      <3>1. {} \in SUBSET Chat!Posts
        OBVIOUS
      <3>2. QED
        BY <1>0, <2>1, <2>2, <3>1, ChatAnswered
    <2>4. Chat!TypeOK'
      BY <1>0, <2>1, <2>3 DEF Chat!TypeOK
    <2>5. QED
      BY <2>1, <2>2, <2>3, <2>4 DEF Chat!IInv, Chat!RowsAreApart, Chat!AnswersOfTheirChat, Chat!FullIsComplete,
         Chat!OnlyOfSelected, Chat!CompleteOrExplained
  <1>13. CASE Chat!PollActive
    <2>1. /\ v10.pc = "asked" /\ ~ v10.full /\ v4' = IF v4 = None THEN v10.chat ELSE v4
          /\ v10' = [v10 EXCEPT !.pc = "looked", !.active = v4']
          /\ UNCHANGED <<v1, v2, v3, v5, v6, v7, v8, v11, v12, v14, v15, v16>>
      BY <1>13 DEF Chat!PollActive, Chat!store, Chat!history
    <2>2. v10.chat \in Clients /\ v4' \in Clients \cup {None} /\ v10.adds = {} /\ v10.dels = {}
      BY <1>0, <1>b, <2>1
    <2>3. v10' \in Chat!Polls /\ v10'.pc = "looked" /\ v10'.chat \in Clients /\ v10'.adds = {} /\ v10'.dels = {}
          /\ ~ v10'.full /\ v10'.active \in Clients
      BY <1>0, <2>1, <2>2 DEF Chat!Polls
    <2>4. QED
      BY <1>10, <2>1, <2>2, <2>3
  <1>14. CASE Chat!PollPosts
    <2> DEFINE j == v3[v10.chat]
    <2>1. /\ v10.pc = "looked" /\ Chat!Answered("posts", v10.chat, j \cap v1, j \cap v2)
          /\ v3' = [v3 EXCEPT ![v10.chat] = {}]
          /\ UNCHANGED <<v1, v2, v4, v5, v6, v7, v8, v11, v12, v14, v15, v16>>
      BY <1>14 DEF Chat!PollPosts, Chat!store, Chat!history
    <2>2. v10.chat \in Clients /\ v10.adds = {} /\ j \subseteq Chat!Of(v10.chat) /\ j \subseteq Chat!Posts
      BY <1>0, <1>a, <1>b, <2>1
    <2>3. /\ v3' \in [Clients -> SUBSET Chat!Posts] /\ v3'[v10.chat] = {}
          /\ \A c \in Clients : c # v10.chat => v3'[c] = v3[c]
      BY <1>0, <2>1, <2>2
    <2>4. /\ v10' \in Chat!Polls /\ v10'.pc = "answered" /\ v10'.kind = "posts" /\ v10'.chat = v10.chat
          /\ v10'.adds = j \cap v1 /\ v10'.dels = j \cap v2 /\ v10'.full = v10.full
      BY <1>0, <2>1, <2>2, ChatAnswered
    <2>5. ~ v10.full
      BY <1>b, <2>1
    <2> HIDE DEF j
    <2>6. Chat!TypeOK'
      BY <1>0, <2>1, <2>3, <2>4 DEF Chat!TypeOK
    <2>7. Chat!RowsAreApart' /\ Chat!AnswersOfTheirChat' /\ Chat!FullIsComplete'
      BY <1>a, <2>1, <2>2, <2>3, <2>4, <2>5 DEF Chat!RowsAreApart, Chat!AnswersOfTheirChat, Chat!FullIsComplete
    <2>8. Chat!CompleteOrExplained'
      BY <1>0, <2>1, <2>2, <2>3, <2>4 DEF j, Chat!IInv, Chat!CompleteOrExplained
    <2>9. QED
      BY <2>1, <2>6, <2>7, <2>8 DEF Chat!IInv, Chat!OnlyOfSelected
  <1>15. CASE Chat!PollSwitch \/ Chat!PollError \/ Chat!PollWaits
    <2>1. /\ v10.pc \in {"asked", "looked"} /\ UNCHANGED <<v1, v2, v3, v4, v5, v6, v7, v8, v11, v12, v14, v15, v16>>
          /\ \/ v10' = [v10 EXCEPT !.pc = "asked"]
             \/ v10.pc = "looked" /\ Chat!Answered("switch", v10.active, {}, {})
             \/ \E kind \in {"nothing", "error"} : Chat!Answered(kind, v10.chat, {}, {})
      BY <1>15 DEF Chat!PollSwitch, Chat!PollError, Chat!PollWaits, Chat!server, Chat!store, Chat!history
    <2>2. v10.chat \in Clients /\ v10.adds = {} /\ v10.dels = {}
      BY <1>b, <2>1
    <2>3. CASE v10' = [v10 EXCEPT !.pc = "asked"]
      <3>1. v10' \in Chat!Polls /\ v10'.pc = "asked" /\ v10'.chat \in Clients /\ v10'.adds = {} /\ v10'.dels = {}
        BY <1>0, <2>2, <2>3 DEF Chat!Polls
      <3>2. QED
        BY <1>0, <1>10, <2>1, <2>2, <3>1
    <2>4. CASE \E kind \in {"nothing", "error"} : Chat!Answered(kind, v10.chat, {}, {})
      <3>1. PICK kind \in {"nothing", "error"} : Chat!Answered(kind, v10.chat, {}, {})
        BY <2>4
      <3>2. v10' \in Chat!Polls /\ v10'.pc = "answered" /\ v10'.kind = kind /\ v10'.chat = v10.chat /\ v10'.adds = {} /\ v10'.dels = {}
        BY <1>0, <2>2, <3>1, ChatAnswered
      <3>3. QED
        BY <1>0, <1>10, <2>1, <2>2, <3>2
    <2>5. CASE v10.pc = "looked" /\ Chat!Answered("switch", v10.active, {}, {})
      <3>1. /\ v10' \in Chat!Polls /\ v10'.pc = "answered" /\ v10'.kind = "switch" /\ v10'.chat = v10.active /\ v10'.adds = {} /\ v10'.dels = {}
        BY <1>0, <1>c, <2>2, <2>5, ChatAnswered
      <3>2. v10.active \in Clients
        BY <1>b, <2>5
      <3>3. QED
        BY <1>0, <1>10, <2>1, <2>2, <3>1, <3>2
    <2>6. QED
      BY <2>1, <2>3, <2>4, <2>5
  <1>16. CASE Chat!PollLost \/ Chat!TakeOther
    <2>1. /\ v16' = v16 \cup v10.adds \cup v10.dels /\ v10' = Chat!NoPoll
          /\ UNCHANGED <<v1, v2, v3, v4, v5, v6, v7, v8, v11, v12, v14, v15>>
      BY <1>16 DEF Chat!PollLost, Chat!TakeOther, Chat!server, Chat!store
    <2>2. Chat!TypeOK'
      BY <1>0, <2>1, ChatNoPoll DEF Chat!TypeOK
    <2>3. QED
      BY <2>1, <2>2, ChatNoPoll DEF Chat!IInv, Chat!RowsAreApart, Chat!AnswersOfTheirChat, Chat!FullIsComplete,
         Chat!OnlyOfSelected, Chat!CompleteOrExplained
  <1>17. CASE Chat!TakePosts
    <2>1. /\ v10.pc = "answered" /\ v10.kind = "posts" /\ v10.chat = v6
          /\ v7' = v7 \cup v10.adds /\ v8' = FALSE /\ v16' = v16 \ (v10.adds \cup v10.dels)
          /\ v15' = (~v10.full /\ (v15 \/ v8)) /\ v10' = Chat!NoPoll
          /\ UNCHANGED <<v1, v2, v3, v4, v5, v6, v11, v12, v14>>
      BY <1>17 DEF Chat!TakePosts, Chat!Current, Chat!server
    <2>2. v15' \in BOOLEAN
      BY <1>0, <1>c, <2>1
    <2>3. Chat!TypeOK'
      BY <1>0, <2>1, <2>2, ChatNoPoll DEF Chat!TypeOK
    <2>4. Chat!OnlyOfSelected'
      BY <1>b, <2>1, ChatPosts DEF Chat!IInv, Chat!OnlyOfSelected
    <2>5. \A p \in v1 : p \notin v10.dels
      BY <1>a, <1>b
    <2>6. ASSUME ~ v15', NEW p \in v1 \cap Chat!Of(v6) PROVE p \in v7 \cup v10.adds \cup v3[v6] \cup v16
      <3>1. CASE v10.full
        BY <2>1, <2>6, <3>1 DEF Chat!IInv, Chat!FullIsComplete
      <3>2. CASE ~ v10.full
        <4>1. ~ v15 /\ ~ v8
          BY <1>0, <2>1, <2>6, <3>2
        <4>2. v6 # None
          BY <1>b, <2>1, NamesAssumption
        <4>3. QED
          BY <2>6, <4>1, <4>2 DEF Chat!IInv, Chat!CompleteOrExplained
      <3>3. QED
        BY <3>1, <3>2
    <2>7. Chat!CompleteOrExplained'
      BY <2>1, <2>5, <2>6 DEF Chat!CompleteOrExplained
    <2>8. QED
      BY <2>1, <2>3, <2>4, <2>7, ChatNoPoll DEF Chat!IInv, Chat!RowsAreApart, Chat!AnswersOfTheirChat, Chat!FullIsComplete
  <1>18. CASE Chat!TakeSwitch \/ Chat!TakeError \/ Chat!TakeNothing
    <2>1. /\ v10.pc = "answered" /\ v10.kind # "posts" /\ v10' = Chat!NoPoll
          /\ UNCHANGED <<v1, v2, v3, v4, v5, v6, v7, v11, v12, v14, v16>>
          /\ \/ v8' = TRUE /\ v15' = v15
             \/ v8' = FALSE /\ v15' = (v15 \/ v8)
             \/ v8' = (v8 /\ v9 # {}) /\ v15' = (v15 \/ (v8 /\ v9 = {}))
      BY <1>18 DEF Chat!TakeSwitch, Chat!TakeError, Chat!TakeNothing, Chat!server, Chat!history
    <2>2. v8' \in BOOLEAN /\ v15' \in BOOLEAN
      BY <1>0, <2>1
    <2>3. ~ v8' /\ ~ v15' => ~ v8 /\ ~ v15
      BY <1>0, <2>1
    <2>4. Chat!TypeOK'
      BY <1>0, <2>1, <2>2, ChatNoPoll DEF Chat!TypeOK
    <2>5. v10.adds = {}
      BY <1>b, <2>1
    <2>6. Chat!CompleteOrExplained'
      BY <2>1, <2>3, <2>5 DEF Chat!IInv, Chat!CompleteOrExplained
    <2>7. QED
      BY <2>1, <2>4, <2>6, ChatNoPoll
         DEF Chat!IInv, Chat!RowsAreApart, Chat!AnswersOfTheirChat, Chat!FullIsComplete, Chat!OnlyOfSelected
  <1>19. CASE UNCHANGED Chat!vars
    <2>1. UNCHANGED <<v1, v2, v3, v4, v5, v6, v7, v8, v9, v10, v11, v12, v13, v14, v15, v16>>
      BY <1>19 DEF Chat!vars
    <2>2. QED
      BY <1>0, <2>1, ChatQuiet DEF Chat!TypeOK
  <1>20. QED
    BY <1>1, <1>3, <1>4, <1>5, <1>6, <1>7, <1>8, <1>9, <1>11, <1>12, <1>13, <1>14, <1>15, <1>16, <1>17, <1>18, <1>19
       DEF Chat!Next

-----------------------------------------------------------------------------
(***************************************************************************)
(* Repair of an editor's chat storage (jsonl v1, path v2, tmp v3, pc v4,   *)
(* read v5, backups v6, second v7, written v8, slipped v9, overwrote v10,  *)
(* runs v11, crashes v12)                                                  *)
(***************************************************************************)
\* A sequence with one more entry has what it had, and the entry at its end.
LEMMA CopilotAppended ==
  ASSUME NEW S, NEW s \in Seq(S), NEW e \in S
  PROVE  /\ Append(s, e) \in Seq(S) /\ Copilot!Last(Append(s, e)) = e
         /\ Copilot!ToSet(Append(s, e)) = Copilot!ToSet(s) \cup {e}
  <1>1. /\ Append(s, e) \in Seq(S) /\ Len(Append(s, e)) = Len(s) + 1 /\ Len(s) \in Nat
        /\ Append(s, e)[Len(s) + 1] = e
        /\ \A i \in 1..Len(s) : Append(s, e)[i] = s[i]
    OBVIOUS
  <1>2. DOMAIN s = 1..Len(s) /\ DOMAIN Append(s, e) = 1..(Len(s) + 1)
    BY <1>1
  <1>3. Copilot!Last(Append(s, e)) = e
    BY <1>1 DEF Copilot!Last
  <1>4. Copilot!ToSet(Append(s, e)) \subseteq Copilot!ToSet(s) \cup {e}
    BY <1>1, <1>2 DEF Copilot!ToSet
  <1>5. Copilot!ToSet(s) \cup {e} \subseteq Copilot!ToSet(Append(s, e))
    BY <1>1, <1>2 DEF Copilot!ToSet
  <1>6. QED
    BY <1>1, <1>3, <1>4, <1>5

\* At first there is nothing to lose.
LEMMA CopilotInit == Copilot!Init => Copilot!IInv
  <1> SUFFICES ASSUME Copilot!Init PROVE Copilot!IInv
    OBVIOUS
  <1>0. <<>> \in Seq(Copilot!Entries) /\ <<>> \in Seq(Copilot!Texts)
    OBVIOUS
  <1>1. Copilot!TypeOK
    <2>1. v6 \in [1..MaxSecond -> Seq(Copilot!Entries)]
      BY <1>0 DEF Copilot!Init
    <2>2. v7 \in 1..MaxSecond
      BY SettingsAssumption DEF Copilot!Init
    <2>3. v2 = <<>> /\ v3 = <<>> /\ v8 = <<>> /\ v5 = 0 /\ v9 = FALSE /\ v10 = FALSE
      BY DEF Copilot!Init
    <2>4. QED
      BY <1>0, <2>1, <2>2, <2>3 DEF Copilot!TypeOK
  <1>2. Copilot!ToSet(v8) = {}
    BY DEF Copilot!Init, Copilot!ToSet
  <1>3. QED
    BY <1>1, <1>2 DEF Copilot!Init, Copilot!IInv, Copilot!OriginalKept, Copilot!BackupHasIt

\* Every step of the tool and of the editor keeps the invariant.
LEMMA CopilotStep == Copilot!IInv /\ [Copilot!Next]_(Copilot!vars) => Copilot!IInv'
  <1> SUFFICES ASSUME Copilot!IInv, [Copilot!Next]_(Copilot!vars) PROVE Copilot!IInv'
    OBVIOUS
  <1> DEFINE Kept == \A e \in Copilot!ToSet(v8) : e \in Copilot!ToSet(v2) \cup Copilot!Saved
  <1>0. /\ v2 \in Seq(Copilot!Entries) /\ v3 \in Seq(Copilot!Entries) /\ v8 \in Seq(Copilot!Texts)
        /\ v5 \in Nat /\ v6 \in [1..MaxSecond -> Seq(Copilot!Entries)] /\ v7 \in 1..MaxSecond
        /\ v9 \in BOOLEAN /\ v10 \in BOOLEAN
    BY DEF Copilot!IInv, Copilot!TypeOK
  <1>e. <<>> \in Seq(Copilot!Entries)
    OBVIOUS
  <1>a. v9 \/ v10 \/ Kept
    BY DEF Copilot!IInv, Copilot!OriginalKept, Copilot!Saved
  <1>b. \/ v9 \/ v10
        \/ /\ v4 \in {"replace", "write"} => Copilot!ToSet(v2) \subseteq Copilot!Saved
           /\ v4 = "rewrite" => Copilot!ToSet(v8) \subseteq Copilot!Saved
    BY DEF Copilot!IInv, Copilot!BackupHasIt
  \* What a step has to show, and steps that leave what was written and saved alone.
  <1>c. ASSUME Copilot!TypeOK', v9' \/ v10' \/ Kept',
               \/ v9' \/ v10'
               \/ /\ v4' \in {"replace", "write"} => Copilot!ToSet(v2') \subseteq Copilot!Saved'
                  /\ v4' = "rewrite" => Copilot!ToSet(v8') \subseteq Copilot!Saved'
        PROVE  Copilot!IInv'
    BY <1>c DEF Copilot!IInv, Copilot!OriginalKept, Copilot!BackupHasIt, Copilot!Saved
  <1>d. ASSUME Copilot!TypeOK', UNCHANGED <<v2, v6, v8, v9, v10>>, v4' \notin {"replace", "write", "rewrite"} \/ v4' = v4
        PROVE  Copilot!IInv'
    <2>1. Copilot!Saved' = Copilot!Saved
      BY <1>d DEF Copilot!Saved
    <2>2. QED
      BY <1>a, <1>b, <1>c, <1>d, <2>1
  <1>1. ASSUME NEW kind \in Copilot!Kinds, Copilot!EditorWrites(kind) PROVE Copilot!IInv'
    <2> DEFINE e == Copilot!Entry(Len(v8) + 1, kind)
    <2>1. /\ v8' = Append(v8, e) /\ v2' = Append(v2, Copilot!Last(v8'))
          /\ v9' = (v9 \/ v4 \in {"replace", "write", "rewrite"})
          /\ UNCHANGED <<v3, v4, v5, v6, v7, v10>>
      BY <1>1 DEF Copilot!EditorWrites
    <2>2. e \in Copilot!Texts /\ e \in Copilot!Entries
      BY <1>0 DEF Copilot!Entry, Copilot!Entries, Copilot!Texts
    <2> HIDE DEF e
    <2>3. /\ v8' \in Seq(Copilot!Texts) /\ Copilot!Last(v8') = e
          /\ Copilot!ToSet(v8') = Copilot!ToSet(v8) \cup {e}
      BY <1>0, <2>1, <2>2, CopilotAppended
    <2>4. v2' \in Seq(Copilot!Entries) /\ Copilot!ToSet(v2') = Copilot!ToSet(v2) \cup {e}
      BY <1>0, <2>1, <2>2, <2>3, CopilotAppended
    <2>5. v9' \in BOOLEAN
      BY <1>0, <2>1
    <2>6. Copilot!TypeOK'
      BY <1>0, <2>1, <2>3, <2>4, <2>5 DEF Copilot!TypeOK
    <2>7. Copilot!Saved' = Copilot!Saved
      BY <2>1 DEF Copilot!Saved
    <2>8. QED
      BY <1>a, <1>c, <2>1, <2>3, <2>4, <2>6, <2>7
  <1>2. CASE Copilot!Start
    <2>1. /\ v3' = <<>> /\ v5' = 0 /\ v4' = "scan" /\ UNCHANGED <<v2, v6, v7, v8, v9, v10>>
      BY <1>2 DEF Copilot!Start, Copilot!history
    <2>2. Copilot!TypeOK'
      BY <1>0, <1>e, <2>1 DEF Copilot!TypeOK
    <2>3. QED
      BY <1>d, <2>1, <2>2
  <1>3. ASSUME NEW e \in Copilot!Entries PROVE Copilot!Fixed(e) \in Copilot!Entries
    BY <1>3 DEF Copilot!Fixed, Copilot!Entries
  <1>4. CASE Copilot!CopyLine
    <2>1. /\ v5 < Len(v2) /\ v3' = Append(v3, Copilot!Fixed(v2[v5 + 1])) /\ v5' = v5 + 1
          /\ UNCHANGED <<v2, v4, v6, v7, v8, v9, v10>>
      BY <1>4 DEF Copilot!CopyLine, Copilot!history
    <2>2. v2[v5 + 1] \in Copilot!Entries
      BY <1>0, <2>1
    <2>3. v3' \in Seq(Copilot!Entries)
      BY <1>0, <1>3, <2>1, <2>2, CopilotAppended
    <2>4. Copilot!TypeOK'
      BY <1>0, <2>1, <2>3 DEF Copilot!TypeOK
    <2>5. QED
      BY <1>d, <2>1, <2>4
  <1>5. CASE Copilot!EndOfFile
    <2>1. v4' \in {"backup", "idle"} /\ (v3' = v3 \/ v3' = <<>>) /\ UNCHANGED <<v2, v5, v6, v7, v8, v9, v10>>
      BY <1>5 DEF Copilot!EndOfFile, Copilot!history
    <2>2. Copilot!TypeOK'
      BY <1>0, <1>e, <2>1 DEF Copilot!TypeOK
    <2>3. QED
      BY <1>d, <2>1, <2>2
  <1>6. CASE Copilot!ReadState
    <2>1. /\ v3' = [i \in DOMAIN v2 |-> Copilot!Fixed(v2[i])] /\ v4' \in {"backup", "idle"}
          /\ UNCHANGED <<v2, v5, v6, v7, v8, v9, v10>>
      BY <1>6 DEF Copilot!ReadState, Copilot!history
    <2>2. \A i \in DOMAIN v2 : Copilot!Fixed(v2[i]) \in Copilot!Entries
      BY <1>0, <1>3
    <2>3. DOMAIN v2 = 1..Len(v2) /\ Len(v2) \in Nat
      BY <1>0
    <2>4. v3' \in Seq(Copilot!Entries)
      BY <2>1, <2>2, <2>3
    <2>5. Copilot!TypeOK'
      BY <1>0, <2>1, <2>4 DEF Copilot!TypeOK
    <2>6. QED
      BY <1>d, <2>1, <2>5
  <1>7. CASE Copilot!Backup
    <2>1. /\ v6' = [v6 EXCEPT ![v7] = v2] /\ v10' = (v10 \/ v6[v7] # <<>>)
          /\ v4' \in {"replace", "write"} /\ UNCHANGED <<v2, v3, v5, v7, v8, v9>>
      BY <1>7 DEF Copilot!Backup, Copilot!Kept
    <2>2. v6' \in [1..MaxSecond -> Seq(Copilot!Entries)] /\ v6'[v7] = v2 /\ \A s \in 1..MaxSecond : s # v7 => v6'[s] = v6[s]
      BY <1>0, <2>1
    <2>3. v10' \in BOOLEAN
      BY <1>0, <2>1
    <2>4. Copilot!TypeOK'
      BY <1>0, <2>1, <2>2, <2>3 DEF Copilot!TypeOK
    <2>5. Copilot!ToSet(v2) \subseteq Copilot!Saved'
      BY <1>0, <2>1, <2>2 DEF Copilot!Saved
    <2>6. ASSUME v6[v7] = <<>>, NEW e \in Copilot!Saved PROVE e \in Copilot!Saved'
      <3>1. PICK s \in 1..MaxSecond : e \in Copilot!ToSet(v6[s])
        BY <1>0, <2>6 DEF Copilot!Saved
      <3>2. Copilot!ToSet(v6[v7]) = {}
        BY <2>6 DEF Copilot!ToSet
      <3>3. v6'[s] = v6[s]
        BY <2>2, <3>1, <3>2
      <3>4. QED
        BY <2>2, <3>1, <3>3 DEF Copilot!Saved
    <2>7. QED
      BY <1>a, <1>c, <2>1, <2>4, <2>5, <2>6
  <1>8. CASE Copilot!Replace
    <2>1. /\ v4 = "replace" /\ v2' = v3 /\ v3' = <<>> /\ v4' = "idle"
          /\ UNCHANGED <<v5, v6, v7, v8, v9, v10>>
      BY <1>8 DEF Copilot!Replace, Copilot!history
    <2>2. Copilot!TypeOK'
      BY <1>0, <1>e, <2>1 DEF Copilot!TypeOK
    <2>3. Copilot!Saved' = Copilot!Saved
      BY <2>1 DEF Copilot!Saved
    <2>4. QED
      BY <1>a, <1>b, <1>c, <2>1, <2>2, <2>3
  <1>9. CASE Copilot!Truncate
    <2>1. /\ v4 = "write" /\ v2' = <<>> /\ v4' = "rewrite"
          /\ UNCHANGED <<v3, v5, v6, v7, v8, v9, v10>>
      BY <1>9 DEF Copilot!Truncate, Copilot!history
    <2>2. Copilot!TypeOK'
      BY <1>0, <1>e, <2>1 DEF Copilot!TypeOK
    <2>3. Copilot!Saved' = Copilot!Saved
      BY <2>1 DEF Copilot!Saved
    <2>4. QED
      BY <1>a, <1>b, <1>c, <2>1, <2>2, <2>3
  <1>10. CASE Copilot!Rewrite
    <2>1. /\ v4 = "rewrite" /\ v2' = v3 /\ v4' = "idle"
          /\ UNCHANGED <<v3, v5, v6, v7, v8, v9, v10>>
      BY <1>10 DEF Copilot!Rewrite, Copilot!history
    <2>2. Copilot!TypeOK'
      BY <1>0, <1>e, <2>1 DEF Copilot!TypeOK
    <2>3. Copilot!Saved' = Copilot!Saved
      BY <2>1 DEF Copilot!Saved
    <2>4. QED
      BY <1>b, <1>c, <2>1, <2>2, <2>3
  <1>11. CASE Copilot!Crash
    <2>1. v4' = "idle" /\ UNCHANGED <<v2, v3, v5, v6, v7, v8, v9, v10>>
      BY <1>11 DEF Copilot!Crash, Copilot!history
    <2>2. Copilot!TypeOK'
      BY <1>0, <1>e, <2>1 DEF Copilot!TypeOK
    <2>3. QED
      BY <1>d, <2>1, <2>2
  <1>12. CASE Copilot!Tick
    <2>1. v7 < MaxSecond /\ v7' = v7 + 1 /\ UNCHANGED <<v2, v3, v4, v5, v6, v8, v9, v10>>
      BY <1>12 DEF Copilot!Tick, Copilot!history
    <2>2. v7' \in 1..MaxSecond
      BY <1>0, <2>1, SettingsAssumption, SMTT(30)
    <2>3. Copilot!TypeOK'
      BY <1>0, <2>1, <2>2 DEF Copilot!TypeOK
    <2>4. QED
      BY <1>d, <2>1, <2>3
  <1>13. CASE UNCHANGED Copilot!vars
    <2>1. UNCHANGED <<v2, v3, v4, v5, v6, v7, v8, v9, v10>>
      BY <1>13 DEF Copilot!vars
    <2>2. Copilot!TypeOK'
      BY <1>0, <1>e, <2>1 DEF Copilot!TypeOK
    <2>3. QED
      BY <1>d, <2>1, <2>2
  <1>14. QED
    BY <1>1, <1>2, <1>4, <1>5, <1>6, <1>7, <1>8, <1>9, <1>10, <1>11, <1>12, <1>13 DEF Copilot!Next

-----------------------------------------------------------------------------
(***************************************************************************)
(* Safe commits of the git bridge (git v1, dryTs v2, dryToken v3, repoMap  *)
(* v4, pubRepos v5, call v6, now v7, issued v8, staged v9, calls v10,      *)
(* edits v11)                                                              *)
(***************************************************************************)
\* A slot without a call is as any call must be.
LEMMA CommitIdle ==
  ASSUME NEW n \in Nat, NEW tokens
  PROVE  /\ Commit!CallOK(Commit!Idle, n) /\ Commit!HasToken(Commit!Idle, tokens)
         /\ Commit!Idle.id = 0 /\ Commit!Idle.pc = "idle"
  <1>1. Commit!Idle \in Commit!Calls
    BY DEF Commit!Idle, Commit!Calls, Commit!Pcs
  <1>2. QED
    BY <1>1, NamesAssumption DEF Commit!Idle, Commit!CallOK, Commit!HasToken

\* A call that begins has the next number, and starts now.
LEMMA CommitBegins ==
  ASSUME v10 \in Nat, v7 \in Nat, NEW mode \in Commit!Modes, NEW pc \in Commit!Pcs, NEW t \in Commit!Trees
  PROVE  /\ Commit!Begin(mode, pc, t) \in Commit!Calls
         /\ Commit!Begin(mode, pc, t) =
                [id |-> v10 + 1, mode |-> mode, pc |-> pc, tree |-> t, files |-> {}, ts |-> v7,
                 token |-> 0, pub |-> None]
  <1>1. Commit!Begin(mode, pc, t) =
            [id |-> v10 + 1, mode |-> mode, pc |-> pc, tree |-> t, files |-> {}, ts |-> v7,
             token |-> 0, pub |-> None]
    BY DEF Commit!Begin
  <1>2. QED
    BY <1>1 DEF Commit!Calls

\* A call that ends, begins, or goes on without a commit of its own leaves the
\* others, and what is staged, with whom they belonged.
LEMMA CommitCalls ==
  ASSUME Commit!CallsOK, NEW c \in Clients,
         v10' \in {v10, v10 + 1}, DOMAIN v6' = Clients,
         \A d \in Clients : d # c => v6'[d] = v6[d],
         Commit!CallOK(v6'[c], v10'), Commit!HasToken(v6'[c], v8'),
         \A d \in Clients : Commit!HasToken(v6[d], v8'),
         \/ v6'[c].id = 0
         \/ v6'[c].id = v10 + 1
         \/ v6'[c].id = v6[c].id /\ v6[c].pc # "commit",
         v9' \subseteq v9
  PROVE  Commit!CallsOK'
  <1>1. /\ v10 \in Nat /\ DOMAIN v6 = Clients
        /\ \A d \in Clients : Commit!CallOK(v6[d], v10) /\ Commit!HasToken(v6[d], v8)
        /\ \A d, e \in Clients : v6[d].id = v6[e].id /\ v6[d].id # 0 => d = e
        /\ \A e \in v9 : e[1] \in 1..v10
        /\ Commit!StagedIsOwn
    BY DEF Commit!CallsOK
  <1>2. v10' \in Nat /\ v10 <= v10'
    BY <1>1
  <1>3. DOMAIN v6' = Clients /\ \A d \in Clients \ {c} : v6'[d] = v6[d]
    BY <1>1
  <1>4. \A d \in Clients : v6[d].id \in 0..v10
    BY <1>1 DEF Commit!CallOK, Commit!Calls
  <1>5. ASSUME NEW d \in Clients PROVE Commit!CallOK(v6[d], v10')
    <2>1. v6[d].id <= v10'
      BY <1>1, <1>2, <1>4
    <2>2. QED
      BY <1>1, <2>1 DEF Commit!CallOK
  <1>6. \A d \in Clients : Commit!CallOK(v6'[d], v10') /\ Commit!HasToken(v6'[d], v8')
    BY <1>3, <1>5
  <1>7. ASSUME NEW d \in Clients \ {c} PROVE v6[d].id = v6'[c].id => v6'[c].id = 0
    BY <1>1, <1>4
  <1>8. \A d, e \in Clients : v6'[d].id = v6'[e].id /\ v6'[d].id # 0 => d = e
    BY <1>1, <1>3, <1>7
  <1>9. \A e \in v9' : e[1] \in 1..v10'
    BY <1>1, <1>2
  <1>10. ASSUME NEW e \in v9', NEW d \in Clients, v6'[d].id = e[1]
         PROVE  v6'[d].pc = "commit" /\ (v6'[d].files # {} => e[3] \in v6'[d].files)
    <2>1. e \in v9 /\ e[1] \in 1..v10
      BY <1>1, <1>10
    <2>2. d # c
      <3>1. ASSUME d = c PROVE FALSE
        <4>1. e[1] = v6'[c].id
          BY <1>3, <1>10, <3>1
        <4>2. v6'[c].id = v6[c].id /\ v6[c].pc # "commit"
          BY <1>1, <2>1, <4>1
        <4>3. QED
          BY <1>1, <2>1, <4>1, <4>2 DEF Commit!StagedIsOwn
      <3>2. QED
        BY <3>1
    <2>3. QED
      BY <1>1, <1>3, <1>10, <2>1, <2>2 DEF Commit!StagedIsOwn
  <1>11. Commit!StagedIsOwn'
    BY <1>10 DEF Commit!StagedIsOwn
  <1>12. QED
    BY <1>2, <1>3, <1>6, <1>8, <1>9, <1>11 DEF Commit!CallsOK

\* A step that changes texts in trees only keeps what index and HEAD say.
LEMMA CommitTexts ==
  ASSUME Commit!GitOK, v11' \in Nat, v9' = v9,
         v1' \in [Commit!Trees -> [Commit!Entries -> [tree : Nat, index : Nat, head : Nat]]],
         \A t \in Commit!Trees : \A f \in Commit!Entries :
             v1'[t][f].index = v1[t][f].index /\ v1'[t][f].head = v1[t][f].head
  PROVE  Commit!GitOK'
  BY DEF Commit!GitOK

\* git with another text of a file is git, with the same index and HEAD.
LEMMA CommitWritten ==
  ASSUME NEW g \in [Commit!Trees -> [Commit!Entries -> [tree : Nat, index : Nat, head : Nat]]],
         NEW t \in Commit!Trees, NEW f \in Commit!Entries, NEW text \in Nat
  PROVE  /\ Commit!Written(g, t, f, text) \in
                [Commit!Trees -> [Commit!Entries -> [tree : Nat, index : Nat, head : Nat]]]
         /\ \A u \in Commit!Trees : \A e \in Commit!Entries :
                /\ Commit!Written(g, t, f, text)[u][e].index = g[u][e].index
                /\ Commit!Written(g, t, f, text)[u][e].head = g[u][e].head
  <1> DEFINE row == [g[t][f] EXCEPT !.tree = text]
             tree == [g[t] EXCEPT ![f] = row]
             States == [tree : Nat, index : Nat, head : Nat]
  <1>1. row \in States /\ row.index = g[t][f].index /\ row.head = g[t][f].head
    OBVIOUS
  <1> HIDE DEF row, States
  <1>2. tree \in [Commit!Entries -> States] /\ tree[f] = row /\ \A e \in Commit!Entries \ {f} : tree[e] = g[t][e]
    BY <1>1 DEF States
  <1> HIDE DEF tree
  <1>3. /\ Commit!Written(g, t, f, text) = [g EXCEPT ![t] = tree]
    BY DEF Commit!Written, tree, row
  <1>4. Commit!Written(g, t, f, text) \in [Commit!Trees -> [Commit!Entries -> States]]
    BY <1>2, <1>3 DEF States
  <1>5. /\ Commit!Written(g, t, f, text)[t] = tree
        /\ \A u \in Commit!Trees \ {t} : Commit!Written(g, t, f, text)[u] = g[u]
    BY <1>3
  <1>6. QED
    BY <1>1, <1>2, <1>4, <1>5 DEF States

\* A copy of a runtime tree changes the texts of the mirror.
LEMMA CommitCopied ==
  ASSUME v1 \in [Commit!Trees -> [Commit!Entries -> [tree : Nat, index : Nat, head : Nat]]],
         NEW r \in Commit!Trees, NEW m \in Commit!Trees, NEW S
  PROVE  /\ Commit!Copied(r, m, S) \in
                [Commit!Trees -> [Commit!Entries -> [tree : Nat, index : Nat, head : Nat]]]
         /\ \A u \in Commit!Trees : \A e \in Commit!Entries :
                /\ Commit!Copied(r, m, S)[u][e].index = v1[u][e].index
                /\ Commit!Copied(r, m, S)[u][e].head = v1[u][e].head
  <1> DEFINE States == [tree : Nat, index : Nat, head : Nat]
             Row(f) == IF f \in S THEN [v1[m][f] EXCEPT !.tree = v1[r][f].tree] ELSE v1[m][f]
             tree == [f \in Commit!Entries |-> Row(f)]
  <1>1. ASSUME NEW f \in Commit!Entries
        PROVE  Row(f) \in States /\ Row(f).index = v1[m][f].index /\ Row(f).head = v1[m][f].head
    OBVIOUS
  <1>2. Commit!Copied(r, m, S) = [v1 EXCEPT ![m] = tree]
    BY DEF Commit!Copied
  <1> HIDE DEF Row, States
  <1>3. tree \in [Commit!Entries -> States] /\ \A f \in Commit!Entries : tree[f] = Row(f)
    BY <1>1
  <1> HIDE DEF tree
  <1>4. Commit!Copied(r, m, S) \in [Commit!Trees -> [Commit!Entries -> States]]
    BY <1>2, <1>3 DEF States
  <1>5. /\ Commit!Copied(r, m, S)[m] = tree
        /\ \A u \in Commit!Trees \ {m} : Commit!Copied(r, m, S)[u] = v1[u]
    BY <1>2
  <1>6. QED
    BY <1>1, <1>3, <1>4, <1>5 DEF States

\* A new binding is to a mirror that becomes allowed.
LEMMA CommitBinds ==
  ASSUME Commit!BindingsOK, NEW r \in Repos, NEW m \in Mirrors, Commit!Bind(r, m),
         UNCHANGED <<v2, v3, v8>>
  PROVE  Commit!BindingsOK'
  BY DEF Commit!BindingsOK, Commit!BoundIsAllowed, Commit!Bind

\* A mirror that is no longer allowed is bound to no runtime tree.
LEMMA CommitDrops ==
  ASSUME Commit!BindingsOK, NEW m, Commit!drop_binding(m), UNCHANGED v8
  PROVE  Commit!BindingsOK'
  <1>1. /\ v2' = [r \in Repos |-> IF v4[r] = m THEN None ELSE v2[r]]
        /\ v3' = [r \in Repos |-> IF v4[r] = m THEN None ELSE v3[r]]
        /\ v4' = [r \in Repos |-> IF v4[r] = m THEN None ELSE v4[r]]
        /\ v5' = v5 \ {m}
    BY DEF Commit!drop_binding
  <1>2. /\ v2 \in [Repos -> Nat \cup {None}] /\ v3 \in [Repos -> Nat \cup {None}]
        /\ v4 \in [Repos -> Mirrors \cup {None}] /\ v5 \subseteq Mirrors
        /\ v8 \in Seq([repo : Repos, ts : Nat])
    BY DEF Commit!BindingsOK
  <1>3. /\ v2' \in [Repos -> Nat \cup {None}] /\ v3' \in [Repos -> Nat \cup {None}]
        /\ v4' \in [Repos -> Mirrors \cup {None}] /\ v5' \subseteq Mirrors
    BY <1>1, <1>2
  <1>4. \A r \in Repos : v3'[r] # None => v3'[r] = v3[r] /\ v2'[r] = v2[r]
    BY <1>1
  <1>5. \A r \in Repos : v4'[r] # None => v4'[r] \in v5'
    BY <1>1 DEF Commit!BindingsOK, Commit!BoundIsAllowed
  <1>6. QED
    BY <1>2, <1>3, <1>4, <1>5 DEF Commit!BindingsOK, Commit!BoundIsAllowed

\* The start of the bridge: nothing is bound, nothing runs.
LEMMA CommitInit == Commit!Init => Commit!IInv
  <1> SUFFICES ASSUME Commit!Init PROVE Commit!IInv
    OBVIOUS
  <1>1. /\ v1 = [t \in Commit!Trees |-> [f \in Commit!Entries |-> Commit!Clean]]
        /\ v2 = [r \in Repos |-> None] /\ v3 = [r \in Repos |-> None]
        /\ v4 = [r \in Repos |-> None] /\ v5 = {}
        /\ v6 = [c \in Clients |-> Commit!Idle]
        /\ v7 = 0 /\ v8 = <<>> /\ v9 = {} /\ v10 = 0 /\ v11 = 0
    BY DEF Commit!Init
  <1>2. Commit!Clean \in [tree : Nat, index : Nat, head : Nat] /\ Commit!Clean.index = Commit!Clean.head
    BY DEF Commit!Clean
  <1>3. Commit!GitOK
    BY <1>1, <1>2 DEF Commit!GitOK
  <1>4. Commit!BindingsOK
    <2>1. v8 \in Seq([repo : Repos, ts : Nat])
      BY <1>1
    <2>2. QED
      BY <1>1, <2>1 DEF Commit!BindingsOK, Commit!BoundIsAllowed
  <1>5. Commit!CallsOK
    <2>1. \A c \in Clients : v6[c] = Commit!Idle
      BY <1>1
    <2>2. \A c \in Clients : Commit!CallOK(v6[c], v10) /\ Commit!HasToken(v6[c], v8) /\ v6[c].id = 0
      BY <1>1, <2>1, CommitIdle
    <2>3. QED
      BY <1>1, <2>2 DEF Commit!CallsOK, Commit!StagedIsOwn
  <1>6. QED
    BY <1>1, <1>3, <1>4, <1>5 DEF Commit!IInv

\* Every step keeps the invariant, and no step commits a file that it was not
\* given and that no other call has staged.
LEMMA CommitStep ==
  Commit!IInv /\ [Commit!Next]_(Commit!vars) => Commit!IInv' /\ Commit!PartialStep
  <1> SUFFICES ASSUME Commit!IInv, [Commit!Next]_(Commit!vars)
               PROVE  Commit!IInv' /\ Commit!PartialStep
    OBVIOUS
  <1> DEFINE Goal == Commit!IInv' /\ Commit!PartialStep
             Gits == [Commit!Trees -> [Commit!Entries -> [tree : Nat, index : Nat, head : Nat]]]
             SameHeads == \A t \in Commit!Trees : \A f \in Commit!Entries :
                             v1'[t][f].index = v1[t][f].index /\ v1'[t][f].head = v1[t][f].head
  <1>0. /\ Commit!GitOK /\ Commit!BindingsOK /\ Commit!CallsOK
        /\ v1 \in Gits /\ v7 \in Nat /\ v10 \in Nat /\ v11 \in Nat /\ DOMAIN v6 = Clients
        /\ v8 \in Seq([repo : Repos, ts : Nat]) /\ v5 \subseteq Mirrors
        /\ v4 \in [Repos -> Mirrors \cup {None}]
        /\ \A c \in Clients : Commit!CallOK(v6[c], v10) /\ Commit!HasToken(v6[c], v8)
    BY DEF Commit!IInv, Commit!GitOK, Commit!BindingsOK, Commit!CallsOK
  <1>a. Repos \subseteq Commit!Trees /\ Mirrors \subseteq Commit!Trees
        /\ Files \subseteq Commit!Entries /\ Temp \in Commit!Entries
    BY DEF Commit!Trees, Commit!Entries
  <1>p. ASSUME \A t \in Commit!Trees : \A f \in Commit!Entries : v1'[t][f].head = v1[t][f].head
        PROVE  Commit!PartialStep
    <2> SUFFICES ASSUME NEW c \in Clients, v6[c].pc = "commit", v6[c].files # {},
                        NEW f \in Commit!Entries \ v6[c].files
                 PROVE  v1'[v6[c].tree][f].head = v1[v6[c].tree][f].head
      BY DEF Commit!PartialStep
    <2>1. v6[c].tree \in Commit!Trees
      BY <1>0 DEF Commit!CallOK
    <2>2. QED
      BY <1>p, <2>1
  \* The three parts of the invariant, where a step leaves one alone.
  <1>b. ASSUME UNCHANGED <<v2, v3, v4, v5, v8>> PROVE Commit!BindingsOK'
    BY <1>0, <1>b DEF Commit!BindingsOK, Commit!BoundIsAllowed
  <1>g. ASSUME UNCHANGED <<v1, v9, v11>> PROVE Commit!GitOK' /\ SameHeads
    BY <1>0, <1>g DEF Commit!GitOK
  <1>c. ASSUME UNCHANGED <<v6, v8, v9, v10>> PROVE Commit!CallsOK'
    BY <1>0, <1>c DEF Commit!CallsOK, Commit!StagedIsOwn
  <1>q. ASSUME Commit!GitOK', SameHeads, Commit!BindingsOK', Commit!CallsOK', v7' \in Nat
        PROVE  Goal
    BY <1>p, <1>q DEF Commit!IInv, SameHeads
  <1> HIDE DEF Goal
  \* A step of a call that ends or goes on.
  <1>e. ASSUME NEW c \in Clients, Commit!End(c), UNCHANGED <<v8, v10>>, v9' = v9 PROVE Commit!CallsOK'
    <2>1. /\ Commit!CallOK(Commit!Idle, v10') /\ Commit!HasToken(Commit!Idle, v8')
          /\ Commit!Idle.id = 0 /\ v10' \in {v10, v10 + 1} /\ v9' \subseteq v9
      BY <1>0, <1>e, CommitIdle
    <2>2. \A d \in Clients : Commit!HasToken(v6[d], v8')
      BY <1>0, <1>e
    <2>3. DOMAIN v6' = Clients /\ v6'[c] = Commit!Idle /\ \A d \in Clients : d # c => v6'[d] = v6[d]
      BY <1>0, <1>e DEF Commit!End, Commit!Goes
    <2>4. Commit!CallsOK
      BY <1>0
    <2>5. QED
      BY <2>1, <2>2, <2>3, <2>4, CommitCalls
  <1>n. ASSUME NEW c \in Clients, NEW r, v6' = [v6 EXCEPT ![c] = r], v10' = v10, v8' = v8, v9' = v9,
               r.id = v6[c].id, v6[c].pc # "commit", Commit!CallOK(r, v10), Commit!HasToken(r, v8)
        PROVE  Commit!CallsOK'
    <2>1. /\ Commit!CallOK(r, v10') /\ Commit!HasToken(r, v8')
          /\ v10' \in {v10, v10 + 1} /\ v9' \subseteq v9
      BY <1>0, <1>n
    <2>2. \A d \in Clients : Commit!HasToken(v6[d], v8')
      BY <1>0, <1>n
    <2>3. /\ DOMAIN v6' = Clients /\ v6'[c] = r /\ \A d \in Clients : d # c => v6'[d] = v6[d]
          /\ r.id = v6[c].id /\ v6[c].pc # "commit" /\ Commit!CallsOK
      BY <1>0, <1>n
    <2>4. QED
      BY <2>1, <2>2, <2>3, CommitCalls
  <1>s. ASSUME NEW c \in Clients, NEW r, v6' = [v6 EXCEPT ![c] = r], v10' = v10 + 1, v8' = v8, v9' = v9,
               r.id = v10 + 1, Commit!CallOK(r, v10 + 1), Commit!HasToken(r, v8)
        PROVE  Commit!CallsOK'
    <2>1. /\ Commit!CallOK(r, v10') /\ Commit!HasToken(r, v8')
          /\ v10' \in {v10, v10 + 1} /\ v9' \subseteq v9
      BY <1>0, <1>s
    <2>2. \A d \in Clients : Commit!HasToken(v6[d], v8')
      BY <1>0, <1>s
    <2>3. /\ DOMAIN v6' = Clients /\ v6'[c] = r /\ \A d \in Clients : d # c => v6'[d] = v6[d]
          /\ r.id = v10 + 1 /\ Commit!CallsOK
      BY <1>0, <1>s
    <2>4. QED
      BY <2>1, <2>2, <2>3, CommitCalls
  \* A call that goes on.
  <1>r. ASSUME NEW c \in Clients, v6[c].pc \notin {"idle", "commit"}, NEW pc \in Commit!Pcs, NEW m \in Mirrors \cup {None},
               pc # "idle", pc \in {"status", "drop"} => m \in Mirrors,
               pc \in {"ask", "add", "commit"} => v6[c].mode = "commit"
        PROVE  LET r == [v6[c] EXCEPT !.pc = pc, !.pub = m] IN
               r.id = v6[c].id /\ Commit!CallOK(r, v10) /\ Commit!HasToken(r, v8)
    BY <1>0, <1>r, ZenonT(40) DEF Commit!CallOK, Commit!HasToken, Commit!Calls
  <1>u. ASSUME NEW c \in Clients, v6[c].pc \notin {"idle", "commit"}, NEW pc \in Commit!Pcs,
               pc # "idle", pc \in {"status", "drop"} => v6[c].pub \in Mirrors,
               pc \in {"ask", "add", "commit"} => v6[c].mode = "commit",
               v6' = [v6 EXCEPT ![c] = [v6[c] EXCEPT !.pc = pc]], UNCHANGED <<v8, v9, v10>>
        PROVE  Commit!CallsOK'
    <2> DEFINE r == [v6[c] EXCEPT !.pc = pc]
    <2>1. r.id = v6[c].id /\ Commit!CallOK(r, v10) /\ Commit!HasToken(r, v8)
      BY <1>0, <1>u DEF Commit!CallOK, Commit!HasToken, Commit!Calls
    <2> HIDE DEF r
    <2>2. v6' = [v6 EXCEPT ![c] = r]
      BY <1>u DEF r
    <2>3. QED
      BY <1>n, <1>u, <2>1, <2>2
  <1> HIDE DEF SameHeads, Gits
  <1>1. ASSUME NEW c \in Clients, NEW r \in Repos, Commit!StartDryRun(c, r) PROVE Goal
    <2> DEFINE rec == Commit!Begin("dry_run", "prepare", r)
    <2>1. v6' = [v6 EXCEPT ![c] = rec] /\ v10' = v10 + 1
          /\ UNCHANGED <<v1, v2, v3, v4, v5, v7, v8, v9, v11>>
      BY <1>1 DEF Commit!StartDryRun, Commit!Goes, Commit!bindings
    <2>2. /\ rec \in Commit!Calls
          /\ rec.id = v10 + 1 /\ rec.mode = "dry_run" /\ rec.pc = "prepare" /\ rec.tree = r
      BY <1>0, <1>a, CommitBegins DEF Commit!Modes, Commit!Pcs
    <2> HIDE DEF rec
    <2>3. Commit!CallOK(rec, v10 + 1) /\ Commit!HasToken(rec, v8)
      BY <1>0, <1>a, <2>2 DEF Commit!CallOK, Commit!HasToken
    <2>4. QED
      BY <1>0, <1>b, <1>g, <1>s, <1>q, <2>1, <2>2, <2>3
  <1>2. ASSUME NEW c \in Clients, NEW r \in Repos, NEW token \in DOMAIN v8, Commit!StartApply(c, r, token)
        PROVE  Goal
    <2> DEFINE rec0 == Commit!Begin("apply", "prepare", r)
               rec == [rec0 EXCEPT !.token = token]
    <2>1. /\ v6' = [v6 EXCEPT ![c] = rec] /\ v10' = v10 + 1
          /\ v2[r] # None /\ v7 - v2[r] <= ApplyTtl /\ v3[r] = token
          /\ UNCHANGED <<v1, v2, v3, v4, v5, v7, v8, v9, v11>>
      <3>1. v2[r] \in Nat
        BY <1>0, <1>2 DEF Commit!StartApply, Commit!BindingsOK
      <3>2. ApplyTtl \in Nat
        BY SettingsAssumption
      <3>3. QED
        BY <1>0, <1>2, <3>1, <3>2 DEF Commit!StartApply, Commit!Goes, Commit!Expired, Commit!bindings
    <2>2. /\ rec \in Commit!Calls
          /\ rec.id = v10 + 1 /\ rec.mode = "apply" /\ rec.pc = "prepare" /\ rec.tree = r
          /\ rec.ts = v7 /\ rec.token = token
      <3>1. token \in Nat
        BY <1>0
      <3>2. rec0 \in Commit!Calls
            /\ rec0 = [id |-> v10 + 1, mode |-> "apply", pc |-> "prepare", tree |-> r, files |-> {},
                       ts |-> v7, token |-> 0, pub |-> None]
        BY <1>0, <1>a, CommitBegins DEF Commit!Modes, Commit!Pcs
      <3> HIDE DEF rec0
      <3>3. QED
        BY <3>1, <3>2 DEF Commit!Calls
    <2> HIDE DEF rec
    <2>3. v3[r] # None
      <3>1. DOMAIN v8 \subseteq Nat
        BY <1>0
      <3>2. QED
        BY <2>1, <3>1, NamesAssumption
    <2>4. v8[token] = [repo |-> r, ts |-> v2[r]]
      BY <1>0, <2>1, <2>3 DEF Commit!BindingsOK
    <2>5. Commit!CallOK(rec, v10 + 1)
      BY <1>0, <1>a, <2>2 DEF Commit!CallOK
    <2>6. Commit!HasToken(rec, v8)
      BY <2>1, <2>2, <2>4 DEF Commit!HasToken
    <2>7. QED
      BY <1>0, <1>b, <1>g, <1>s, <1>q, <2>1, <2>2, <2>5, <2>6
  <1>3. ASSUME NEW c \in Clients, NEW m \in Mirrors, Commit!DryRunEnds(c, m) PROVE Goal
    <2> DEFINE r == v6[c].tree
               entry == [repo |-> r, ts |-> v6[c].ts]
    <2>1. /\ v2' = [v2 EXCEPT ![r] = v6[c].ts] /\ v3' = [v3 EXCEPT ![r] = Len(v8) + 1]
          /\ v8' = Append(v8, entry) /\ v4' = [v4 EXCEPT ![r] = m] /\ v5' = v5 \cup {m}
          /\ v6' = [v6 EXCEPT ![c] = Commit!Idle] /\ v6[c].mode = "dry_run"
          /\ UNCHANGED <<v1, v7, v9, v10, v11>>
      BY <1>3 DEF Commit!DryRunEnds, Commit!Bind, Commit!End, Commit!Goes
    <2>2. r \in Repos /\ v6[c].ts \in Nat
      BY <1>0, <2>1 DEF Commit!CallOK, Commit!Calls
    <2>3. /\ v8' \in Seq([repo : Repos, ts : Nat]) /\ Len(v8) \in Nat /\ DOMAIN v8 = 1..Len(v8)
          /\ DOMAIN v8' = 1..(Len(v8) + 1) /\ v8'[Len(v8) + 1] = entry
          /\ \A i \in DOMAIN v8 : v8'[i] = v8[i]
      BY <1>0, <2>1, <2>2
    <2>4. \A d \in Clients : Commit!HasToken(v6[d], v8')
      BY <1>0, <2>3 DEF Commit!HasToken
    <2>5. Commit!CallsOK'
      <3>1. /\ Commit!CallOK(Commit!Idle, v10') /\ Commit!HasToken(Commit!Idle, v8')
            /\ Commit!Idle.id = 0 /\ v10' \in {v10, v10 + 1} /\ v9' \subseteq v9
        BY <1>0, <2>1, CommitIdle
      <3>2. /\ DOMAIN v6' = Clients /\ v6'[c] = Commit!Idle /\ \A d \in Clients : d # c => v6'[d] = v6[d]
            /\ Commit!CallsOK
        BY <1>0, <2>1
      <3>3. QED
        BY <2>4, <3>1, <3>2, CommitCalls
    <2>6. /\ v2' \in [Repos -> Nat \cup {None}] /\ v3' \in [Repos -> Nat \cup {None}]
          /\ v4' \in [Repos -> Mirrors \cup {None}] /\ v5' \subseteq Mirrors
      BY <1>0, <2>1, <2>2, <2>3 DEF Commit!BindingsOK
    <2>7. ASSUME NEW q \in Repos, v3'[q] # None
          PROVE  v3'[q] \in DOMAIN v8' /\ v8'[v3'[q]] = [repo |-> q, ts |-> v2'[q]]
      <3>1. CASE q = r
        BY <1>0, <2>1, <2>2, <2>3, <3>1 DEF Commit!BindingsOK
      <3>2. CASE q # r
        BY <1>0, <2>1, <2>3, <2>7, <3>2 DEF Commit!BindingsOK
      <3>3. QED
        BY <3>1, <3>2
    <2>8. \A q \in Repos : v4'[q] # None => v4'[q] \in v5'
      BY <1>0, <2>1 DEF Commit!BindingsOK, Commit!BoundIsAllowed
    <2>9. Commit!BindingsOK'
      BY <2>3, <2>6, <2>7, <2>8 DEF Commit!BindingsOK, Commit!BoundIsAllowed
    <2>10. QED
      BY <1>0, <1>g, <1>q, <2>1, <2>5, <2>9
  \* What a copy to a mirror, or another text, leaves alone.
  <1>t. ASSUME v1' \in Gits, SameHeads, UNCHANGED v9, v11' \in Nat PROVE Commit!GitOK'
    BY <1>0, <1>t, CommitTexts DEF SameHeads, Gits
  <1>k. ASSUME NEW r \in Repos, NEW m \in Mirrors, NEW S, v1' = Commit!Copied(r, m, S)
        PROVE  v1' \in Gits /\ SameHeads
    <2>1. r \in Commit!Trees /\ m \in Commit!Trees
      BY <1>a
    <2>2. v1 \in [Commit!Trees -> [Commit!Entries -> [tree : Nat, index : Nat, head : Nat]]]
      BY <1>0 DEF Gits
    <2> DEFINE g == Commit!Copied(r, m, S)
    <2>3. /\ g \in [Commit!Trees -> [Commit!Entries -> [tree : Nat, index : Nat, head : Nat]]]
          /\ \A u \in Commit!Trees : \A e \in Commit!Entries :
                g[u][e].index = v1[u][e].index /\ g[u][e].head = v1[u][e].head
      BY <2>1, <2>2, CommitCopied
    <2> HIDE DEF g
    <2>4. v1' = g
      BY <1>k DEF g
    <2>5. QED
      BY <2>3, <2>4 DEF SameHeads, Gits
  <1>w. ASSUME NEW t \in Commit!Trees, NEW f \in Commit!Entries, NEW text \in Nat,
               v1' = Commit!Written(v1, t, f, text)
        PROVE  v1' \in Gits /\ SameHeads
    <2>1. v1 \in [Commit!Trees -> [Commit!Entries -> [tree : Nat, index : Nat, head : Nat]]]
      BY <1>0 DEF Gits
    <2> DEFINE g == Commit!Written(v1, t, f, text)
    <2>2. /\ g \in [Commit!Trees -> [Commit!Entries -> [tree : Nat, index : Nat, head : Nat]]]
          /\ \A u \in Commit!Trees : \A e \in Commit!Entries :
                g[u][e].index = v1[u][e].index /\ g[u][e].head = v1[u][e].head
      BY <2>1, CommitWritten, SMTT(30)
    <2> HIDE DEF g
    <2>3. v1' = g
      BY <1>w DEF g
    <2>4. QED
      BY <2>2, <2>3 DEF SameHeads, Gits
  <1>4. ASSUME NEW c \in Clients, NEW m \in Mirrors, Commit!ApplyEnds(c, m) PROVE Goal
    <2> DEFINE rec == [v6[c] EXCEPT !.pc = "status", !.pub = m]
    <2>1. /\ v6[c].mode = "apply" /\ v6[c].pc = "prepare"
          /\ v1' = Commit!Copied(v6[c].tree, m, Files)
          /\ Commit!Bind(v6[c].tree, m) /\ v6' = [v6 EXCEPT ![c] = rec]
          /\ UNCHANGED <<v2, v3, v7, v8, v9, v10, v11>>
      BY <1>4 DEF Commit!ApplyEnds, Commit!Goes
    <2>2. v6[c].tree \in Repos
      BY <1>0, <2>1 DEF Commit!CallOK
    <2>4. Commit!BindingsOK'
      BY <1>0, <2>1, <2>2, CommitBinds
    <2>5. v1' \in Gits /\ SameHeads
      BY <1>k, <2>1, <2>2
    <2>3. rec.id = v6[c].id /\ Commit!CallOK(rec, v10) /\ Commit!HasToken(rec, v8)
      BY <1>r, <2>1 DEF Commit!Pcs
    <2> HIDE DEF rec
    <2>6. Commit!CallsOK'
      BY <1>n, <2>1, <2>3
    <2>7. QED
      BY <1>0, <1>q, <1>t, <2>1, <2>4, <2>5, <2>6
  <1>5. ASSUME NEW c \in Clients, NEW m \in Mirrors, Commit!PrepareFails(c, m) PROVE Goal
    <2>1. Commit!End(c) /\ UNCHANGED <<v2, v3, v7, v8, v9, v10, v11>>
      BY <1>5 DEF Commit!PrepareFails
    <2>2. Commit!CallsOK'
      BY <1>e, <2>1
    <2>3. CASE v6[c].mode = "apply"
      <3>1. PICK S \in SUBSET Files : v1' = Commit!Copied(v6[c].tree, m, S)
        BY <1>5, <2>3 DEF Commit!PrepareFails
      <3>2. Commit!Bind(v6[c].tree, m) /\ v6[c].tree \in Repos
        BY <1>0, <1>5, <2>3 DEF Commit!PrepareFails, Commit!CallOK
      <3>3. Commit!BindingsOK'
        BY <1>0, <2>1, <3>2, CommitBinds
      <3>4. v1' \in Gits /\ SameHeads
        BY <1>k, <3>1, <3>2
      <3>5. QED
        BY <1>0, <1>q, <1>t, <2>1, <2>2, <3>3, <3>4
    <2>4. CASE v6[c].mode # "apply"
      <3>1. UNCHANGED <<v1, v4, v5>>
        BY <1>5, <2>4 DEF Commit!PrepareFails
      <3>2. QED
        BY <1>0, <1>b, <1>g, <1>q, <2>1, <2>2, <3>1
    <2>5. QED
      BY <2>3, <2>4
  \* A step that only ends a call, or moves it.
  <1>m. ASSUME Commit!CallsOK', UNCHANGED <<v1, v2, v3, v4, v5, v7, v8, v9, v11>> PROVE Goal
    BY <1>0, <1>b, <1>g, <1>q, <1>m
  <1>6. ASSUME NEW c \in Clients, Commit!ApplyStatus(c) PROVE Goal
    <2>1. /\ v6[c].pc = "status" /\ UNCHANGED <<v1, v2, v3, v4, v5, v7, v8, v9, v10, v11>>
          /\ v6' = [v6 EXCEPT ![c] = [v6[c] EXCEPT !.pc = "drop"]] \/ Commit!End(c)
      BY <1>6 DEF Commit!ApplyStatus, Commit!Goes, Commit!bindings
    <2>2. v6[c].pub \in Mirrors
      BY <1>0, <2>1 DEF Commit!CallOK
    <2>3. Commit!CallsOK'
      BY <1>e, <1>u, <2>1, <2>2 DEF Commit!Pcs
    <2>4. QED
      BY <1>m, <2>1, <2>3
  <1>7. ASSUME NEW c \in Clients, Commit!DropBinding(c) PROVE Goal
    <2>1. Commit!drop_binding(v6[c].pub) /\ Commit!End(c) /\ UNCHANGED <<v1, v7, v8, v9, v10, v11>>
      BY <1>7 DEF Commit!DropBinding
    <2>2. Commit!BindingsOK'
      BY <1>0, <2>1, CommitDrops
    <2>3. QED
      BY <1>0, <1>e, <1>g, <1>q, <2>1, <2>2
  <1>8. ASSUME NEW c \in Clients, NEW t \in Commit!Trees, Commit!git_repo_status(c, t) PROVE Goal
    <2> DEFINE rec == Commit!Begin("status", "porcelain", t)
    <2>1. v6' = [v6 EXCEPT ![c] = rec] /\ v10' = v10 + 1
          /\ UNCHANGED <<v1, v2, v3, v4, v5, v7, v8, v9, v11>>
      BY <1>8 DEF Commit!git_repo_status, Commit!Goes, Commit!bindings
    <2>2. /\ rec \in Commit!Calls
          /\ rec.id = v10 + 1 /\ rec.mode = "status" /\ rec.pc = "porcelain" /\ rec.tree = t
      BY <1>0, CommitBegins DEF Commit!Modes, Commit!Pcs
    <2> HIDE DEF rec
    <2>3. Commit!CallOK(rec, v10 + 1) /\ Commit!HasToken(rec, v8)
      BY <1>0, <2>2 DEF Commit!CallOK, Commit!HasToken
    <2>4. QED
      BY <1>m, <1>s, <2>1, <2>2, <2>3
  <1>9. ASSUME NEW c \in Clients, Commit!StatusAsked(c) PROVE Goal
    <2>1. /\ v6[c].pc = "porcelain" /\ UNCHANGED <<v1, v2, v3, v4, v5, v7, v8, v9, v10, v11>>
          /\ v6' = [v6 EXCEPT ![c] = [v6[c] EXCEPT !.pc = "known"]] \/ Commit!End(c)
      BY <1>9 DEF Commit!StatusAsked, Commit!Goes, Commit!bindings
    <2>2. Commit!CallsOK'
      BY <1>e, <1>u, <2>1 DEF Commit!Pcs
    <2>3. QED
      BY <1>m, <2>1, <2>2
  <1>10. ASSUME NEW c \in Clients, Commit!StatusKnown(c) PROVE Goal
    <2> DEFINE t == v6[c].tree
               rec == [v6[c] EXCEPT !.pc = "status", !.pub = v4[t]]
    <2>1. v6[c].pc = "known" /\ UNCHANGED <<v1, v7, v8, v9, v10, v11>>
      BY <1>10 DEF Commit!StatusKnown
    <2>2. CASE t \in v5
      <3>1. Commit!drop_binding(t) /\ Commit!End(c)
        BY <1>10, <2>2 DEF Commit!StatusKnown
      <3>2. Commit!BindingsOK'
        BY <1>0, <2>1, <3>1, CommitDrops
      <3>3. QED
        BY <1>0, <1>e, <1>g, <1>q, <2>1, <3>1, <3>2
    <2>3. CASE t \notin v5
      <3>1. /\ UNCHANGED <<v2, v3, v4, v5>>
            /\ \/ t \in Repos /\ v4[t] # None /\ v6' = [v6 EXCEPT ![c] = rec]
               \/ Commit!End(c)
        BY <1>10, <2>3 DEF Commit!StatusKnown, Commit!Goes, Commit!bindings
      <3>2. ASSUME t \in Repos, v4[t] # None, v6' = [v6 EXCEPT ![c] = rec] PROVE Commit!CallsOK'
        <4>1. v4[t] \in Mirrors
          BY <1>0, <3>2
        <4>2. rec.id = v6[c].id /\ Commit!CallOK(rec, v10) /\ Commit!HasToken(rec, v8)
          BY <1>r, <2>1, <4>1 DEF Commit!Pcs
        <4> HIDE DEF rec
        <4>3. QED
          BY <1>n, <2>1, <3>2, <4>2
      <3>3. Commit!CallsOK'
        BY <1>e, <2>1, <3>1, <3>2
      <3>4. QED
        BY <1>m, <2>1, <3>1, <3>3
    <2>4. QED
      BY <2>2, <2>3
  <1>11. ASSUME NEW c \in Clients, NEW t \in Commit!Trees, NEW S \in SUBSET Files, Commit!StartCommit(c, t, S)
         PROVE  Goal
    <2> DEFINE pc == IF t \in Mirrors /\ v5 = {} THEN "ask" ELSE "add"
               rec0 == Commit!Begin("commit", pc, t)
               rec == [rec0 EXCEPT !.files = S]
    <2>1. v6' = [v6 EXCEPT ![c] = rec] /\ v10' = v10 + 1
          /\ UNCHANGED <<v1, v2, v3, v4, v5, v7, v8, v9, v11>>
      BY <1>11 DEF Commit!StartCommit, Commit!Goes, Commit!bindings
    <2>2. /\ rec \in Commit!Calls
          /\ rec.id = v10 + 1 /\ rec.mode = "commit" /\ rec.pc \in {"ask", "add"} /\ rec.tree = t
      <3>1. pc \in {"ask", "add"} /\ pc \in Commit!Pcs
        BY DEF Commit!Pcs
      <3> HIDE DEF pc
      <3>2. rec0 \in Commit!Calls
            /\ rec0 = [id |-> v10 + 1, mode |-> "commit", pc |-> pc, tree |-> t, files |-> {},
                       ts |-> v7, token |-> 0, pub |-> None]
        BY <1>0, <3>1, CommitBegins DEF Commit!Modes
      <3> HIDE DEF rec0
      <3>3. QED
        BY <3>1, <3>2 DEF Commit!Calls
    <2> HIDE DEF rec
    <2>3. Commit!CallOK(rec, v10 + 1) /\ Commit!HasToken(rec, v8)
      BY <1>0, <2>2 DEF Commit!CallOK, Commit!HasToken
    <2>4. QED
      BY <1>m, <1>s, <2>1, <2>2, <2>3
  <1>12. ASSUME NEW c \in Clients, Commit!AskClean(c) PROVE Goal
    <2>1. /\ v6[c].pc = "ask" /\ UNCHANGED <<v1, v2, v3, v4, v5, v7, v8, v9, v10, v11>>
          /\ v6' = [v6 EXCEPT ![c] = [v6[c] EXCEPT !.pc = "add"]] \/ Commit!End(c)
      BY <1>12 DEF Commit!AskClean, Commit!Goes, Commit!bindings
    <2>2. v6[c].mode = "commit"
      BY <1>0, <2>1 DEF Commit!CallOK
    <2>3. Commit!CallsOK'
      BY <1>e, <1>u, <2>1, <2>2 DEF Commit!Pcs
    <2>4. QED
      BY <1>m, <2>1, <2>3
  <1>13. ASSUME NEW c \in Clients, Commit!GitAdd(c) PROVE Goal
    <2> DEFINE t == v6[c].tree
               S == Commit!ToAdd(v6[c].files)
               Row(f) == IF f \in S THEN [v1[t][f] EXCEPT !.index = v1[t][f].tree] ELSE v1[t][f]
               tree == [f \in Commit!Entries |-> Row(f)]
               new == {<<v6[c].id, t, f>> : f \in {g \in S : v1[t][g].tree # v1[t][g].index}}
               rec == [v6[c] EXCEPT !.pc = "commit"]
               States == [tree : Nat, index : Nat, head : Nat]
    <2>1. /\ v6[c].pc = "add" /\ v1' = [v1 EXCEPT ![t] = tree] /\ v9' = v9 \cup new
          /\ v6' = [v6 EXCEPT ![c] = rec] /\ UNCHANGED <<v2, v3, v4, v5, v7, v8, v10, v11>>
      BY <1>13 DEF Commit!GitAdd, Commit!Add, Commit!Goes, Commit!bindings
    <2>2. t \in Commit!Trees /\ v6[c].id \in 1..v10 /\ v6[c].mode = "commit" /\ v6[c].files \subseteq Files
      BY <1>0, <2>1 DEF Commit!CallOK, Commit!Calls
    <2>3. S \subseteq Commit!Entries /\ (v6[c].files # {} => S = v6[c].files)
      BY <1>a, <2>2 DEF Commit!ToAdd
    <2>4. rec.id = v6[c].id /\ rec.pc = "commit" /\ rec.files = v6[c].files
          /\ Commit!CallOK(rec, v10) /\ Commit!HasToken(rec, v8)
      BY <1>0, <2>1, <2>2 DEF Commit!CallOK, Commit!HasToken, Commit!Calls, Commit!Pcs
    <2> HIDE DEF rec, S
    <2>5. \A f \in Commit!Entries : v1[t][f] \in States
      BY <1>0, <2>2 DEF Gits
    <2>6. ASSUME NEW f \in Commit!Entries
          PROVE  /\ Row(f) \in States /\ Row(f).head = v1[t][f].head
                 /\ \/ Row(f).index = v1[t][f].index
                    \/ f \in S /\ v1[t][f].tree # v1[t][f].index
      BY <2>5
    <2> HIDE DEF Row, t, States
    <2>7. tree \in [Commit!Entries -> States] /\ \A f \in Commit!Entries : tree[f] = Row(f)
      BY <2>6
    <2> HIDE DEF tree
    <2>8. v1' \in Gits /\ v1'[t] = tree /\ \A u \in Commit!Trees \ {t} : v1'[u] = v1[u]
      BY <1>0, <2>1, <2>2, <2>7 DEF Gits, States
    <2>9. \A u \in Commit!Trees : \A f \in Commit!Entries : v1'[u][f].head = v1[u][f].head
      BY <2>6, <2>7, <2>8
    <2>10. ASSUME NEW u \in Commit!Trees, NEW f \in Commit!Entries, v1'[u][f].index # v1'[u][f].head
           PROVE  \E e \in v9' : e[2] = u /\ e[3] = f
      <3>1. CASE v1'[u][f].index = v1[u][f].index
        <4>1. v1[u][f].index # v1[u][f].head
          BY <2>9, <2>10, <3>1
        <4>2. PICK e \in v9 : e[2] = u /\ e[3] = f
          BY <1>0, <4>1 DEF Commit!GitOK
        <4>3. QED
          BY <2>1, <4>2
      <3>2. CASE v1'[u][f].index # v1[u][f].index
        <4>1. u = t /\ f \in S /\ v1[t][f].tree # v1[t][f].index
          BY <2>6, <2>7, <2>8, <3>2
        <4>2. <<v6[c].id, t, f>> \in new
          BY <4>1
        <4> DEFINE e == <<v6[c].id, t, f>>
        <4>3. e[2] = t /\ e[3] = f
          OBVIOUS
        <4>4. e \in v9'
          BY <2>1, <4>2
        <4> HIDE DEF e
        <4>5. QED
          BY <4>1, <4>3, <4>4
      <3>3. QED
        BY <3>1, <3>2
    <2>11. Commit!GitOK'
      BY <1>0, <2>1, <2>8, <2>10 DEF Commit!GitOK, Gits
    <2>12. DOMAIN v6' = Clients /\ v6'[c] = rec /\ \A d \in Clients \ {c} : v6'[d] = v6[d]
      BY <1>0, <2>1
    <2>13. \A d \in Clients : Commit!CallOK(v6'[d], v10) /\ Commit!HasToken(v6'[d], v8)
      BY <1>0, <2>4, <2>12
    <2>14. \A d, e \in Clients : v6'[d].id = v6'[e].id /\ v6'[d].id # 0 => d = e
      <3>1. \A d \in Clients : v6'[d].id = v6[d].id
        BY <2>4, <2>12
      <3>2. QED
        BY <1>0, <3>1 DEF Commit!CallsOK
    <2>15. \A e \in v9' : e[1] \in 1..v10
      <3>1. \A e \in v9 : e[1] \in 1..v10
        BY <1>0 DEF Commit!CallsOK
      <3>2. \A e \in new : e[1] = v6[c].id
        OBVIOUS
      <3>3. QED
        BY <2>1, <2>2, <3>1, <3>2
    <2>16. ASSUME NEW e \in v9', NEW d \in Clients, v6'[d].id = e[1]
           PROVE  v6'[d].pc = "commit" /\ (v6'[d].files # {} => e[3] \in v6'[d].files)
      <3>1. v6[d].id = e[1]
        BY <2>4, <2>12, <2>16
      <3>2. CASE e \in v9
        <4>1. v6[d].pc = "commit" /\ (v6[d].files # {} => e[3] \in v6[d].files)
          BY <1>0, <3>1, <3>2 DEF Commit!CallsOK, Commit!StagedIsOwn
        <4>2. d # c
          BY <2>1, <4>1
        <4>3. v6'[d] = v6[d]
          BY <2>12, <4>2
        <4>4. QED
          BY <4>1, <4>3
      <3>3. CASE e \in new
        <4>1. e[1] = v6[c].id /\ e[3] \in S
          BY <3>3
        <4>2. d = c
          BY <1>0, <2>2, <3>1, <4>1 DEF Commit!CallsOK
        <4>3. QED
          BY <2>3, <2>4, <2>12, <4>1, <4>2
      <3>4. QED
        BY <2>1, <3>2, <3>3
    <2>17. Commit!CallsOK'
      BY <1>0, <2>1, <2>12, <2>13, <2>14, <2>15, <2>16 DEF Commit!CallsOK, Commit!StagedIsOwn
    <2>18. Commit!PartialStep
      BY <1>p, <2>9
    <2>19. QED
      BY <1>0, <1>b, <2>1, <2>11, <2>17, <2>18 DEF Goal, Commit!IInv
  <1>14. ASSUME NEW c \in Clients, Commit!GitCommit(c) PROVE Goal
    <2> DEFINE t == v6[c].tree
               tree == [f \in Commit!Entries |-> [v1[t][f] EXCEPT !.head = v1[t][f].index]]
               States == [tree : Nat, index : Nat, head : Nat]
    <2>1. /\ v6[c].pc = "commit" /\ v1' = [v1 EXCEPT ![t] = tree]
          /\ v9' = {e \in v9 : e[2] # t} /\ v6' = [v6 EXCEPT ![c] = Commit!Idle]
          /\ UNCHANGED <<v2, v3, v4, v5, v7, v8, v10, v11>>
      BY <1>14 DEF Commit!GitCommit, Commit!End, Commit!Goes, Commit!bindings
    <2>2. t \in Commit!Trees
      BY <1>0, <2>1 DEF Commit!CallOK
    <2>3. \A f \in Commit!Entries : v1[t][f] \in States
      BY <1>0, <2>2 DEF Gits
    <2> HIDE DEF t
    <2>4. tree \in [Commit!Entries -> States]
          /\ \A f \in Commit!Entries : tree[f].index = v1[t][f].index /\ tree[f].head = v1[t][f].index
      BY <2>3
    <2> HIDE DEF tree, States
    <2>5. v1' \in Gits /\ v1'[t] = tree /\ \A u \in Commit!Trees \ {t} : v1'[u] = v1[u]
      BY <1>0, <2>1, <2>2, <2>4 DEF Gits, States
    <2>6. ASSUME NEW u \in Commit!Trees, NEW f \in Commit!Entries, v1'[u][f].index # v1'[u][f].head
          PROVE  \E e \in v9' : e[2] = u /\ e[3] = f
      <3>1. u # t
        BY <2>4, <2>5, <2>6
      <3>2. v1[u][f].index # v1[u][f].head
        BY <2>5, <2>6, <3>1
      <3>3. PICK e \in v9 : e[2] = u /\ e[3] = f
        BY <1>0, <3>2 DEF Commit!GitOK
      <3>4. QED
        BY <2>1, <3>1, <3>3
    <2>7. Commit!GitOK'
      BY <1>0, <2>1, <2>5, <2>6 DEF Commit!GitOK, Gits
    <2>8. Commit!CallsOK'
      <3>1. /\ Commit!CallOK(Commit!Idle, v10') /\ Commit!HasToken(Commit!Idle, v8')
            /\ Commit!Idle.id = 0 /\ v10' \in {v10, v10 + 1} /\ v9' \subseteq v9
        BY <1>0, <2>1, CommitIdle
      <3>2. /\ DOMAIN v6' = Clients /\ v6'[c] = Commit!Idle /\ \A d \in Clients : d # c => v6'[d] = v6[d]
            /\ Commit!CallsOK
        BY <1>0, <2>1
      <3>3. \A d \in Clients : Commit!HasToken(v6[d], v8')
        BY <1>0, <2>1
      <3>4. QED
        BY <3>1, <3>2, <3>3, CommitCalls
    <2>9. ASSUME NEW d \in Clients, v6[d].pc = "commit", v6[d].files # {}, v6'[d] = Commit!Idle,
                 NEW f \in Commit!Entries \ v6[d].files,
                 v1'[v6[d].tree][f].head # v1[v6[d].tree][f].head
          PROVE  \E e \in v9 : e[1] # v6[d].id /\ e[2] = v6[d].tree /\ e[3] = f
      <3>1. d = c
        <4>1. ASSUME d # c PROVE v6'[d] = v6[d]
          BY <1>0, <2>1, <4>1
        <4>2. Commit!Idle.pc = "idle"
          BY DEF Commit!Idle
        <4>3. QED
          BY <2>9, <4>1, <4>2
      <3>2. v1[t][f].index # v1[t][f].head
        BY <2>4, <2>5, <2>9, <3>1 DEF t
      <3>3. PICK e \in v9 : e[2] = t /\ e[3] = f
        BY <1>0, <2>2, <3>2 DEF Commit!GitOK
      <3>4. e[1] # v6[c].id
        BY <1>0, <2>9, <3>1, <3>3 DEF Commit!CallsOK, Commit!StagedIsOwn
      <3>5. QED
        BY <3>1, <3>3, <3>4 DEF t
    <2>10. Commit!PartialStep
      BY <2>9 DEF Commit!PartialStep
    <2>11. QED
      BY <1>0, <1>b, <2>1, <2>7, <2>8, <2>10 DEF Goal, Commit!IInv
  <1>15. ASSUME NEW c \in Clients, Commit!CommitFails(c) PROVE Goal
    <2>1. Commit!End(c) /\ UNCHANGED <<v1, v2, v3, v4, v5, v7, v8, v9, v10, v11>>
      BY <1>15 DEF Commit!CommitFails, Commit!bindings
    <2>2. QED
      BY <1>e, <1>m, <2>1
  <1>16. ASSUME NEW c \in Clients, NEW t \in Commit!Trees, NEW f \in Files, Commit!git_write_file(c, t, f)
         PROVE  Goal
    <2> DEFINE rec == Commit!Begin("write", "diff", t)
               g == Commit!Written(v1, t, f, v11 + 1)
    <2>1. /\ v6' = [v6 EXCEPT ![c] = rec] /\ v10' = v10 + 1 /\ v11' = v11 + 1
          /\ v1' = Commit!Written(g, t, Temp, 1)
          /\ UNCHANGED <<v2, v3, v4, v5, v7, v8, v9>>
      BY <1>16 DEF Commit!git_write_file, Commit!Goes, Commit!bindings
    <2>2. /\ rec \in Commit!Calls
          /\ rec.id = v10 + 1 /\ rec.mode = "write" /\ rec.pc = "diff" /\ rec.tree = t
      BY <1>0, CommitBegins DEF Commit!Modes, Commit!Pcs
    <2> HIDE DEF rec
    <2>3. Commit!CallOK(rec, v10 + 1) /\ Commit!HasToken(rec, v8)
      BY <1>0, <2>2 DEF Commit!CallOK, Commit!HasToken
    <2>4. /\ g \in Gits
          /\ \A u \in Commit!Trees : \A e \in Commit!Entries :
                g[u][e].index = v1[u][e].index /\ g[u][e].head = v1[u][e].head
      <3>1. /\ v1 \in [Commit!Trees -> [Commit!Entries -> [tree : Nat, index : Nat, head : Nat]]]
            /\ f \in Commit!Entries /\ v11 + 1 \in Nat
        BY <1>0, <1>a DEF Gits
      <3>2. QED
        BY <3>1, CommitWritten, ZenonT(40) DEF Gits
    <2> HIDE DEF g
    <2> DEFINE h == Commit!Written(g, t, Temp, 1)
    <2>8. /\ h \in Gits
          /\ \A u \in Commit!Trees : \A e \in Commit!Entries :
                h[u][e].index = g[u][e].index /\ h[u][e].head = g[u][e].head
      <3>1. g \in [Commit!Trees -> [Commit!Entries -> [tree : Nat, index : Nat, head : Nat]]]
        BY <2>4 DEF Gits
      <3>2. Temp \in Commit!Entries /\ 1 \in Nat
        BY <1>a
      <3>3. QED
        BY <3>1, <3>2, CommitWritten, ZenonT(40) DEF Gits
    <2>9. v1' = h
      BY <2>1
    <2> HIDE DEF h
    <2>5. v1' \in Gits /\ SameHeads
      BY <2>4, <2>8, <2>9 DEF SameHeads
    <2>10. v11' \in Nat
      BY <1>0, <2>1
    <2>11. Commit!CallsOK'
      BY <1>s, <2>1, <2>2, <2>3
    <2>6. Commit!GitOK' /\ Commit!CallsOK'
      BY <1>t, <2>1, <2>5, <2>10, <2>11
    <2>7. QED
      BY <1>0, <1>b, <1>q, <2>1, <2>5, <2>6
  <1>17. ASSUME NEW c \in Clients, Commit!run_git_diff_ends(c) PROVE Goal
    <2>1. /\ v6[c].pc = "diff" /\ v1' = Commit!Written(v1, v6[c].tree, Temp, 0) /\ Commit!End(c)
          /\ UNCHANGED <<v2, v3, v4, v5, v7, v8, v9, v10, v11>>
      BY <1>17 DEF Commit!run_git_diff_ends, Commit!bindings
    <2>2. v6[c].tree \in Commit!Trees
      BY <1>0, <2>1 DEF Commit!CallOK
    <2>3. v1' \in Gits /\ SameHeads
      BY <1>a, <1>w, <2>1, <2>2
    <2>4. QED
      BY <1>0, <1>b, <1>e, <1>q, <1>t, <2>1, <2>3
  <1>18. ASSUME NEW r \in Repos, Commit!RefuseExpired(r) PROVE Goal
    <2>1. v3' = [v3 EXCEPT ![r] = None] /\ UNCHANGED <<v1, v2, v4, v5, v6, v7, v8, v9, v10, v11>>
      BY <1>18 DEF Commit!RefuseExpired
    <2>2. v3' \in [Repos -> Nat \cup {None}] /\ \A q \in Repos : v3'[q] # None => v3'[q] = v3[q]
      BY <1>0, <2>1 DEF Commit!BindingsOK
    <2>3. Commit!BindingsOK'
      BY <1>0, <2>1, <2>2 DEF Commit!BindingsOK, Commit!BoundIsAllowed
    <2>4. QED
      BY <1>0, <1>c, <1>g, <1>q, <2>1, <2>3
  <1>19. ASSUME NEW t \in Commit!Trees, NEW f \in Files, Commit!git_bash_exec(t, f) PROVE Goal
    <2>1. /\ v1' = Commit!Written(v1, t, f, v11 + 1) /\ v11' = v11 + 1
          /\ UNCHANGED <<v2, v3, v4, v5, v6, v7, v8, v9, v10>>
      BY <1>19 DEF Commit!git_bash_exec, Commit!bindings
    <2>2. v1' \in Gits /\ SameHeads
      BY <1>0, <1>a, <1>w, <2>1
    <2>3. QED
      BY <1>0, <1>b, <1>c, <1>q, <1>t, <2>1, <2>2
  <1>20. CASE Commit!Tick
    <2>1. v7' = v7 + 1 /\ UNCHANGED <<v1, v2, v3, v4, v5, v6, v8, v9, v10, v11>>
      BY <1>20 DEF Commit!Tick, Commit!bindings
    <2>2. v7' \in Nat
      BY <1>0, <2>1
    <2>3. Commit!CallsOK' /\ Commit!BindingsOK' /\ Commit!GitOK' /\ SameHeads
      BY <1>b, <1>c, <1>g, <2>1
    <2>4. QED
      BY <1>q, <2>2, <2>3 DEF Goal
  <1>21. CASE UNCHANGED Commit!vars
    <2>1. UNCHANGED <<v1, v2, v3, v4, v5, v6, v7, v8, v9, v10, v11>>
      BY <1>21 DEF Commit!vars
    <2>2. Commit!CallsOK'
      BY <1>c, <2>1
    <2>3. QED
      BY <1>m, <2>1, <2>2 DEF Goal
  <1>22. QED
    BY <1>1, <1>2, <1>3, <1>4, <1>5, <1>6, <1>7, <1>8, <1>9, <1>10, <1>11, <1>12, <1>13, <1>14, <1>15,
       <1>16, <1>17, <1>18, <1>19, <1>20, <1>21 DEF Commit!Next, Goal

-----------------------------------------------------------------------------
(***************************************************************************)
(* Code search in chunks (rows v1, linked v2, epoch v3, scanning v4, scope *)
(* v5, chain v6, found v7, scans v8, changes v9, faults v10)               *)
(***************************************************************************)
\* The number of elements is what it is everywhere.
LEMMA SearchSize == ASSUME NEW S PROVE Search!Cardinality(S) = Cardinality(S)
  BY DEF Search!Cardinality, Cardinality

\* A list of ids is finite; the place of an id in it is between one and its length,
\* and grows with the list.
LEMMA SearchPlaces ==
  ASSUME NEW n \in Nat, NEW ids \in SUBSET (1..n)
  PROVE  /\ Search!Cardinality(ids) \in Nat
         /\ \A i \in ids : Search!Place(ids, i) \in 1..Search!Cardinality(ids)
         /\ \A less \in SUBSET ids : \A i \in less :
               Search!Place(less, i) \in Nat /\ Search!Place(less, i) <= Search!Place(ids, i)
  <1>1. IsFiniteSet(1..n)
    BY FS_Interval
  <1>2. \A S \in SUBSET (1..n) : IsFiniteSet(S) /\ Cardinality(S) \in Nat
    BY <1>1, FS_Subset, FS_CardinalityType
  <1>3. ASSUME NEW S \in SUBSET (1..n), NEW T \in SUBSET S PROVE Cardinality(T) <= Cardinality(S)
    BY <1>2, <1>3, FS_Subset
  <1>4. ASSUME NEW i \in ids PROVE Search!Place(ids, i) \in 1..Cardinality(ids)
    <2> DEFINE upto == {j \in ids : j <= i}
    <2>0. i \in Nat
      OBVIOUS
    <2>1. upto \in SUBSET ids /\ upto \in SUBSET (1..n)
      OBVIOUS
    <2>6. i \in upto
      BY <2>0
    <2>2. Cardinality(upto) \in Nat /\ Cardinality(upto) <= Cardinality(ids) /\ Cardinality(ids) \in Nat
      BY <1>2, <1>3, <2>1
    <2>3. Cardinality(upto) # 0
      BY <1>2, <2>1, <2>6, FS_EmptySet
    <2>4. Search!Place(ids, i) = Cardinality(upto)
      BY SearchSize DEF Search!Place
    <2> HIDE DEF upto
    <2>5. QED
      BY <2>2, <2>3, <2>4
  <1>5. ASSUME NEW less \in SUBSET ids, NEW i \in less
        PROVE  Search!Place(less, i) \in Nat /\ Search!Place(less, i) <= Search!Place(ids, i)
    <2> DEFINE S == {j \in less : j <= i}
               T == {j \in ids : j <= i}
    <2>1. S \in SUBSET T /\ S \in SUBSET (1..n) /\ T \in SUBSET (1..n)
      OBVIOUS
    <2>2. Cardinality(S) \in Nat /\ Cardinality(S) <= Cardinality(T)
      BY <1>2, <1>3, <2>1
    <2>3. Search!Place(less, i) = Cardinality(S) /\ Search!Place(ids, i) = Cardinality(T)
      BY SearchSize DEF Search!Place
    <2> HIDE DEF S, T
    <2>4. QED
      BY <2>2, <2>3
  <1>6. QED
    BY <1>2, <1>4, <1>5, SearchSize

\* A chain is as it has to be, whatever is linked and scanned meanwhile.
LEMMA SearchGrows ==
  ASSUME NEW c, NEW n \in Nat, NEW m \in Nat, NEW e \in Nat, NEW f \in Nat,
         Search!ChainOK(c, n, e), n <= m, e <= f \/ c.pc \notin {"checked", "serve"}
  PROVE  Search!ChainOK(c, m, f)
  <1>1. c.epoch \in Nat
    BY DEF Search!ChainOK, Search!Chains
  <1>2. 1..n \subseteq 1..m
    OBVIOUS
  <1>3. QED
    BY <1>1, <1>2 DEF Search!ChainOK

\* A chain that has not begun.
LEMMA SearchNoChain ==
  ASSUME NEW n \in Nat, NEW e \in Nat
  PROVE  Search!ChainOK(Search!NoChain, n, e)
  <1>1. Search!NoChain \in Search!Chains
    BY DEF Search!NoChain, Search!Chains
  <1>2. QED
    BY <1>1 DEF Search!NoChain, Search!ChainOK

\* At first there are two files, and no search.
LEMMA SearchInit == Search!Init => Search!IInv
  <1> SUFFICES ASSUME Search!Init PROVE Search!IInv
    OBVIOUS
  <1>1. v1 = 2 /\ v2 = {1, 2} /\ v3 = 0 /\ v5 = None /\ v7 = {} /\ v6 = Search!NoChain
    BY DEF Search!Init
  <1>2. Search!ScopeOK
    BY <1>1, SettingsAssumption DEF Search!ScopeOK, Search!ScopeFresh
  <1>3. Search!ChainOK(v6, v1, v3)
    BY <1>1, SearchNoChain
  <1>4. QED
    BY <1>2, <1>3 DEF Search!IInv

\* Every step of the scans, the server and the chain keeps the invariant.
LEMMA SearchStep == Search!IInv /\ [Search!Next]_(Search!vars) => Search!IInv'
  <1> SUFFICES ASSUME Search!IInv, [Search!Next]_(Search!vars) PROVE Search!IInv'
    OBVIOUS
  <1>0. /\ v1 \in 2..MaxFiles /\ v1 \in Nat /\ v2 \subseteq 1..v1 /\ v7 \subseteq v2 /\ v3 \in Nat
        /\ v5 # None => v5.epoch \in Nat /\ v5.epoch <= v3 /\ v5.ids \subseteq 1..v1
        /\ v5 # None /\ v5.epoch = v3 => v7 \subseteq v5.ids
        /\ Search!ChainOK(v6, v1, v3) /\ v6 \in Search!Chains
    BY SettingsAssumption DEF Search!IInv, Search!ScopeOK, Search!ScopeFresh, Search!ChainOK
  <1>q. ASSUME Search!ScopeOK', Search!ChainOK(v6', v1', v3') PROVE Search!IInv'
    BY <1>q DEF Search!IInv
  \* Steps of the chain that leave the server alone, and the reverse.
  <1>s. ASSUME UNCHANGED <<v1, v2, v3, v5, v7>> PROVE Search!ScopeOK'
    BY <1>0, <1>s DEF Search!ScopeOK, Search!ScopeFresh
  <1>c. ASSUME v6' = v6, v1' \in Nat, v3' \in Nat, v1 <= v1', v3 <= v3' PROVE Search!ChainOK(v6', v1', v3')
    BY <1>0, <1>c, SearchGrows
  <1>1. CASE Search!AddFile
    <2>1. v1 < MaxFiles /\ v1' = v1 + 1 /\ v2' = v2 \cup {v1 + 1} /\ UNCHANGED <<v3, v5, v6, v7>>
      BY <1>1 DEF Search!AddFile, Search!server
    <2>2. v1' \in 2..MaxFiles /\ v1' \in Nat /\ v1 <= v1'
      BY <1>0, <2>1, SettingsAssumption
    <2>3. Search!ScopeOK'
      BY <1>0, <2>1, <2>2 DEF Search!ScopeOK, Search!ScopeFresh
    <2>4. QED
      BY <1>0, <1>c, <1>q, <2>1, <2>2, <2>3
  <1>2. ASSUME NEW i \in v2, Search!LinkLost(i) PROVE Search!IInv'
    <2>1. v2' = v2 \ {i} /\ v7' = v7 \ {i} /\ UNCHANGED <<v1, v3, v5, v6>>
      BY <1>2 DEF Search!LinkLost
    <2>2. Search!ScopeOK'
      BY <1>0, <2>1 DEF Search!ScopeOK, Search!ScopeFresh
    <2>3. QED
      BY <1>0, <1>c, <1>q, <2>1, <2>2
  <1>3. ASSUME NEW i \in (1..v1) \ v2, Search!LinkBack(i) PROVE Search!IInv'
    <2>1. v2' = v2 \cup {i} /\ UNCHANGED <<v1, v3, v5, v6, v7>>
      BY <1>3 DEF Search!LinkBack, Search!server
    <2>2. Search!ScopeOK'
      BY <1>0, <2>1 DEF Search!ScopeOK, Search!ScopeFresh
    <2>3. QED
      BY <1>0, <1>c, <1>q, <2>1, <2>2
  <1>4. CASE Search!ScanStarts
    <2>1. v3' = v3 /\ UNCHANGED <<v1, v2, v5, v6, v7>>
      BY <1>4 DEF Search!ScanStarts, Search!EpochAfter, Search!links
    <2>2. QED
      BY <1>0, <1>c, <1>q, <1>s, <2>1
  <1>5. CASE Search!ScanEnds
    <2>1. v3' = v3 + 1 /\ v7' = v2 /\ UNCHANGED <<v1, v2, v5, v6>>
      BY <1>5 DEF Search!ScanEnds, Search!EpochAfter, Search!links
    <2>2. Search!ScopeOK'
      BY <1>0, <2>1 DEF Search!ScopeOK, Search!ScopeFresh
    <2>3. QED
      BY <1>0, <1>c, <1>q, <2>1, <2>2
  <1>6. CASE Search!ScanFails
    <2>1. UNCHANGED <<v1, v2, v3, v5, v6, v7>>
      BY <1>6 DEF Search!ScanFails, Search!links
    <2>2. QED
      BY <1>0, <1>c, <1>q, <1>s, <2>1
  <1>7. CASE Search!Evict
    <2>1. v5' = None /\ UNCHANGED <<v1, v2, v3, v6, v7>>
      BY <1>7 DEF Search!Evict, Search!links
    <2>2. Search!ScopeOK'
      BY <1>0, <2>1 DEF Search!ScopeOK, Search!ScopeFresh
    <2>3. QED
      BY <1>0, <1>c, <1>q, <2>1, <2>2
  <1>8. CASE Search!Restart
    <2>1. v3' = 0 /\ v5' = None /\ v7' = {} /\ UNCHANGED <<v1, v2>>
      BY <1>8 DEF Search!Restart, Search!links
    <2>2. Search!ScopeOK'
      BY <1>0, <2>1 DEF Search!ScopeOK, Search!ScopeFresh
    <2>3. CASE v6.pc \notin {"checked", "serve"}
      <3>1. v6' = v6
        BY <1>8, <2>3 DEF Search!Restart
      <3>2. Search!ChainOK(v6', v1', v3')
        BY <1>0, <2>1, <2>3, <3>1, SearchGrows
      <3>3. QED
        BY <1>q, <2>2, <3>2
    <2>4. CASE v6.pc \in {"checked", "serve"}
      <3> DEFINE again == [v6 EXCEPT !.pc = "ready"]
      <3>1. v6' = Search!NoChain \/ v6' = again
        BY <1>8, <2>4 DEF Search!Restart
      <3>2. Search!ChainOK(again, v1, 0)
        BY <1>0 DEF Search!ChainOK, Search!Chains, Search!Ahead
      <3> HIDE DEF again
      <3>3. Search!ChainOK(v6', v1', v3')
        BY <1>0, <2>1, <3>1, <3>2, SearchNoChain
      <3>4. QED
        BY <1>q, <2>2, <3>3
    <2>5. QED
      BY <2>3, <2>4
  <1>9. ASSUME NEW refresh \in BOOLEAN, Search!Start(refresh) PROVE Search!IInv'
    <2> DEFINE c == [Search!NoChain EXCEPT !.pc = "ready", !.epoch = v3, !.refresh = refresh]
    <2>1. v6' = c /\ UNCHANGED <<v1, v2, v3, v5, v7>>
      BY <1>9 DEF Search!Start, Search!links, Search!server
    <2>2. Search!NoChain \in Search!Chains
      BY <1>0, SearchNoChain DEF Search!ChainOK
    <2>3. Search!ChainOK(c, v1, v3)
      BY <1>0, <2>2 DEF Search!ChainOK, Search!Chains, Search!NoChain
    <2> HIDE DEF c
    <2>4. QED
      BY <1>q, <1>s, <2>1, <2>3
  <1>10. CASE Search!Check
    <2> DEFINE checked == [v6 EXCEPT !.pc = "checked"]
               again == Search!FromTheStart(v6, v3)
    <2>1. /\ v6.pc = "ready" /\ UNCHANGED <<v1, v2, v3, v5, v7>>
          /\ \/ v6.epoch = v3 /\ v6' = checked
             \/ v6' = Search!NoChain \/ v6' = again
      BY <1>10 DEF Search!Check, Search!links, Search!server
    <2>2. ASSUME v6.epoch = v3 PROVE Search!ChainOK(checked, v1, v3)
      BY <1>0, <2>2 DEF Search!ChainOK, Search!Chains, Search!Ahead
    <2>3. Search!ChainOK(again, v1, v3)
      <3> DEFINE tries == v6.tries + 1
      <3>1. tries \in Nat
        BY <1>0 DEF Search!Chains
      <3> HIDE DEF tries
      <3>2. again = [v6 EXCEPT !.epoch = v3, !.offset = 0, !.refresh = FALSE, !.tries = tries,
                               !.scanned = {}, !.first = None, !.last = None, !.shifted = FALSE]
        BY DEF Search!FromTheStart, tries
      <3> HIDE DEF again
      <3>3. /\ again \in Search!Chains /\ again.pc = "ready" /\ again.first = None /\ again.last = None
            /\ again.offset = 0 /\ again.scanned = {}
        BY <1>0, <2>1, <3>1, <3>2 DEF Search!Chains
      <3>4. QED
        BY <3>3 DEF Search!ChainOK
    <2> HIDE DEF checked, again
    <2>4. Search!ChainOK(v6', v1', v3')
      BY <1>0, <2>1, <2>2, <2>3, SearchNoChain
    <2>5. QED
      BY <1>q, <1>s, <2>1, <2>4
  <1>11. CASE Search!RefreshScan
    <2> DEFINE next == v3 + 1
    <2>a. next \in Nat
      BY <1>0
    <2> HIDE DEF next
    <2> DEFINE c == [v6 EXCEPT !.refresh = FALSE, !.epoch = next]
    <2>1. v3' = v3 + 1 /\ v7' = v2 /\ v6' = c /\ v6.pc = "checked" /\ UNCHANGED <<v1, v2, v5>>
      BY <1>11 DEF Search!RefreshScan, Search!links, next
    <2>2. Search!ScopeOK'
      BY <1>0, <2>1 DEF Search!ScopeOK, Search!ScopeFresh
    <2>3. Search!ChainOK(c, v1, next)
      <3>1. /\ c \in Search!Chains /\ c.pc = v6.pc /\ c.epoch = next /\ c.first = v6.first
            /\ c.last = v6.last /\ c.offset = v6.offset /\ c.scanned = v6.scanned
            /\ c.shifted = v6.shifted
        BY <1>0, <2>a DEF Search!Chains
      <3> HIDE DEF c
      <3>2. next <= next
        BY <2>a
      <3>3. QED
        BY <1>0, <3>1, <3>2 DEF Search!ChainOK, Search!Ahead
    <2> HIDE DEF c
    <2>4. QED
      BY <1>q, <2>1, <2>2, <2>3 DEF next
  <1>12. CASE Search!GetScope
    <2> DEFINE ids == Search!get_or_build(v6.epoch)
               first == IF v6.first = None THEN ids ELSE v6.first
               shifted == v6.shifted \/ (v6.last # None /\ v6.last \ ids # {})
               c == [v6 EXCEPT !.pc = "serve", !.last = ids, !.first = first, !.shifted = shifted]
    <2>1. /\ v6.pc = "checked" /\ v5' = [epoch |-> v6.epoch, ids |-> ids]
          /\ UNCHANGED <<v1, v2, v3, v7>>
          /\ v6' = IF v6.offset > Search!Cardinality(ids) THEN Search!NoChain ELSE c
      BY <1>12 DEF Search!GetScope, Search!links
    <2>2. v6.epoch \in Nat /\ v6.epoch <= v3
      BY <1>0, <2>1 DEF Search!ChainOK, Search!Chains
    <2>3. ids \subseteq 1..v1 /\ (v6.epoch = v3 => v7 \subseteq ids)
      BY <1>0 DEF Search!get_or_build
    <2>4. ids # None /\ ids \in SUBSET Nat
      <3>1. ids \in SUBSET (1..MaxFiles)
        BY <1>0, <2>3, SettingsAssumption
      <3>2. QED
        BY <3>1, NamesAssumption
    <2> HIDE DEF ids
    <2>5. Search!ScopeOK'
      BY <1>0, <2>1, <2>2, <2>3 DEF Search!ScopeOK, Search!ScopeFresh
    <2>6. Search!Cardinality(ids) \in Nat
      BY <1>0, <2>3, SearchPlaces
    <2>7. ASSUME v6.offset <= Search!Cardinality(ids) PROVE Search!ChainOK(c, v1, v3)
      <3>1. shifted \in BOOLEAN
        OBVIOUS
      <3>2. first \in SUBSET Nat /\ first # None /\ first \subseteq 1..v1
        BY <1>0, <2>3, <2>4 DEF Search!ChainOK, Search!Chains
      <3> HIDE DEF first, shifted
      <3>3. c \in Search!Chains /\ c.pc = "serve" /\ c.last = ids /\ c.first = first /\ c.shifted = shifted
            /\ c.offset = v6.offset /\ c.scanned = v6.scanned /\ c.epoch = v6.epoch
        BY <1>0, <2>4, <3>1, <3>2 DEF Search!Chains
      <3> HIDE DEF c
      <3>4. ASSUME ~shifted PROVE Search!Ahead(c)
        <4>1. CASE v6.first = None
          <5>1. first = ids /\ v6.offset = 0 /\ v6.scanned = {}
            BY <1>0, <4>1 DEF Search!ChainOK, first
          <5>2. \A i \in ids : Search!Place(ids, i) > 0
            <6>1. \A i \in ids : Search!Place(ids, i) \in 1..Search!Cardinality(ids)
              BY <1>0, <2>3, SearchPlaces
            <6>2. QED
              BY <2>6, <6>1
          <5>3. QED
            BY <3>3, <5>1, <5>2 DEF Search!Ahead
        <4>2. CASE v6.first # None
          <5>1. first = v6.first /\ v6.last # None /\ v6.last \subseteq ids /\ ~v6.shifted
            BY <1>0, <3>4, <4>2 DEF Search!ChainOK, first, shifted
          <5>2. v6.first \subseteq v6.last /\ \A i \in v6.first \ v6.scanned : Search!Place(v6.last, i) > v6.offset
            BY <1>0, <4>2, <5>1 DEF Search!ChainOK, Search!Ahead
          <5>3. \A i \in v6.last : /\ Search!Place(v6.last, i) \in Nat
                                   /\ Search!Place(v6.last, i) <= Search!Place(ids, i)
            <6>1. ids \in SUBSET (1..v1) /\ v6.last \in SUBSET ids
              BY <2>3, <5>1
            <6>2. QED
              BY <1>0, <6>1, SearchPlaces
          <5>4. \A i \in ids : Search!Place(ids, i) \in Nat
            <6>1. \A i \in ids : Search!Place(ids, i) \in 1..Search!Cardinality(ids)
              BY <1>0, <2>3, SearchPlaces
            <6>2. QED
              BY <2>6, <6>1
          <5>5. v6.offset \in Nat
            BY <1>0 DEF Search!Chains
          <5>6. \A i \in v6.first \ v6.scanned : Search!Place(ids, i) > v6.offset
            BY <5>1, <5>2, <5>3, <5>4, <5>5
          <5>7. QED
            BY <3>3, <5>1, <5>2, <5>6 DEF Search!Ahead
        <4>3. QED
          BY <4>1, <4>2
      <3>5. c.first # None /\ c.last # None /\ c.first \subseteq 1..v1 /\ c.last \subseteq 1..v1
        BY <2>3, <2>4, <3>2, <3>3
      <3>6. c.epoch <= v3 /\ c.offset <= Search!Cardinality(c.last) /\ c.pc # "done"
        BY <2>2, <2>7, <3>3
      <3>7. QED
        BY <3>3, <3>4, <3>5, <3>6 DEF Search!ChainOK
    <2>8. v6.offset \in Nat
      BY <1>0 DEF Search!Chains
    <2> HIDE DEF c
    <2>9. Search!ChainOK(v6', v1', v3')
      BY <1>0, <2>1, <2>6, <2>7, <2>8, SearchNoChain
    <2>10. QED
      BY <1>q, <2>5, <2>9
  <1>13. CASE Search!ServeChunk
    <2> DEFINE size == Search!Cardinality(v6.last)
               left == size - v6.offset
               most == IF LimitFiles < left THEN LimitFiles ELSE left
    <2>1. v6.pc = "serve" /\ UNCHANGED <<v1, v2, v3, v5, v7>>
      BY <1>13 DEF Search!ServeChunk, Search!links, Search!server
    <2>2. v6.first # None /\ v6.last # None /\ v6.first \subseteq 1..v1 /\ v6.last \subseteq 1..v1
          /\ v6.offset <= size /\ v6.offset \in Nat
      <3>1. v6.offset \in Nat
        BY <1>0 DEF Search!Chains
      <3>2. QED
        BY <1>0, <2>1, <3>1 DEF Search!ChainOK
    <2>3. size \in Nat
      BY <1>0, <2>2, SearchPlaces
    <2>4. most \in Nat /\ most <= left
      BY <2>2, <2>3, SettingsAssumption
    <2> HIDE DEF most
    <2>5. PICK cut \in 0..most :
            LET files_scanned == IF cut = 0 THEN most ELSE cut
                next == v6.offset + files_scanned IN
            v6' = [v6 EXCEPT
                !.pc = IF next >= Search!Cardinality(v6.last) /\ cut = 0 THEN "done" ELSE "ready",
                !.offset = next, !.tries = 0,
                !.scanned = v6.scanned \cup Search!Batch(v6.last, v6.offset, files_scanned)]
      BY <1>13 DEF Search!ServeChunk, Search!NextOffset, most
    <2> DEFINE n == IF cut = 0 THEN most ELSE cut
               pc == IF v6.offset + n >= size /\ cut = 0 THEN "done" ELSE "ready"
               scanned == v6.scanned \cup Search!Batch(v6.last, v6.offset, n)
    <2>6. n \in Nat
      BY <2>4
    <2>7. pc \in {"done", "ready"} /\ (pc = "done" => v6.offset + n >= size)
      OBVIOUS
    <2>8. v6' = [v6 EXCEPT !.pc = pc, !.offset = v6.offset + n, !.tries = 0, !.scanned = scanned]
      BY <2>5
    <2> HIDE DEF n, pc
    <2>9. \A i \in v6.last : i \in scanned \/ Search!Place(v6.last, i) \notin v6.offset + 1 .. v6.offset + n
      BY DEF Search!Batch
    <2>10. scanned \in SUBSET Nat
      <3>1. Search!Batch(v6.last, v6.offset, n) \subseteq v6.last
        BY DEF Search!Batch
      <3>2. QED
        BY <1>0, <2>2, <3>1 DEF Search!Chains
    <2>11. v6.scanned \subseteq scanned
      OBVIOUS
    <2> HIDE DEF scanned, size
    <2>12. v6' \in Search!Chains /\ v6'.pc = pc /\ v6'.offset = v6.offset + n /\ v6'.scanned = scanned
           /\ v6'.last = v6.last /\ v6'.first = v6.first /\ v6'.shifted = v6.shifted
      <3>1. v6.offset + n \in Nat /\ v6 \in Search!Chains
        BY <1>0, <2>2, <2>6
      <3> DEFINE offset == v6.offset + n
      <3> HIDE DEF offset
      <3>2. v6' = [v6 EXCEPT !.pc = pc, !.offset = offset, !.tries = 0, !.scanned = scanned]
            /\ offset \in Nat
        BY <2>8, <3>1 DEF offset
      <3>3. QED
        BY <2>7, <2>10, <3>1, <3>2 DEF Search!Chains, offset
    <2>13. \A i \in v6.last : Search!Place(v6.last, i) \in 1..size
      BY <1>0, <2>2, SearchPlaces DEF size
    <2>14. ASSUME ~v6.shifted PROVE Search!Ahead(v6')
      <3>1. v6.first \subseteq v6.last /\ \A i \in v6.first \ v6.scanned : Search!Place(v6.last, i) > v6.offset
        BY <1>0, <2>2, <2>14 DEF Search!ChainOK, Search!Ahead
      <3>2. ASSUME NEW i \in v6.first \ scanned PROVE Search!Place(v6.last, i) > v6.offset + n
        <4>1. i \in v6.last /\ i \notin v6.scanned
          BY <2>11, <3>1
        <4>2. Search!Place(v6.last, i) \in Nat /\ Search!Place(v6.last, i) > v6.offset
          BY <2>3, <2>13, <3>1, <4>1
        <4>3. Search!Place(v6.last, i) \notin v6.offset + 1 .. v6.offset + n
          BY <2>9, <4>1
        <4>4. QED
          BY <2>2, <2>6, <4>2, <4>3
      <3>3. QED
        BY <2>12, <3>1, <3>2 DEF Search!Ahead
    <2>15. ASSUME pc = "done", ~v6.shifted PROVE v6.first \subseteq scanned
      <3>1. ASSUME NEW i \in v6.first, i \notin scanned PROVE FALSE
        <4>1. i \in v6.last /\ Search!Place(v6.last, i) > v6.offset + n
          BY <2>12, <2>14, <2>15, <3>1 DEF Search!Ahead
        <4>2. Search!Place(v6.last, i) \in 1..size
          BY <2>13, <4>1
        <4>3. QED
          BY <2>2, <2>3, <2>6, <2>7, <2>15, <4>1, <4>2
      <3>2. QED
        BY <3>1
    <2>16. Search!ChainOK(v6', v1, v3)
      BY <2>2, <2>7, <2>12, <2>14, <2>15 DEF Search!ChainOK
    <2>17. QED
      BY <1>q, <1>s, <2>1, <2>16
  <1>14. CASE UNCHANGED Search!vars
    <2>1. UNCHANGED <<v1, v2, v3, v5, v6, v7>>
      BY <1>14 DEF Search!vars
    <2>2. QED
      BY <1>0, <1>c, <1>q, <1>s, <2>1
  <1>15. QED
    BY <1>1, <1>2, <1>3, <1>4, <1>5, <1>6, <1>7, <1>8, <1>9, <1>10, <1>11, <1>12, <1>13, <1>14 DEF Search!Next

-----------------------------------------------------------------------------
(***************************************************************************)
(* Host search jobs and result pages (table v1, job v2, store v3, now v4,  *)
(* told v5, handles v6, snapshots v7)                                      *)
(***************************************************************************)
\* The number of elements is what it is everywhere.
LEMMA GrepSize == ASSUME NEW S PROVE Grep!Cardinality(S) = Cardinality(S)
  BY DEF Grep!Cardinality, Cardinality

\* There are no more entries than handles they may have.
LEMMA GrepCount ==
  ASSUME NEW m \in Nat, NEW n \in Nat, m <= n, NEW S,
         \A e \in S : e.handle \in m + 1 .. n,
         \A e, f \in S : e.handle = f.handle => e = f
  PROVE  IsFiniteSet(S) /\ Grep!Cardinality(S) \in Nat /\ Grep!Cardinality(S) <= n - m
  <1> DEFINE H == [e \in S |-> e.handle]
  <1>1. H \in Injection(S, m + 1 .. n)
    BY DEF Injection, IsInjective
  <1>2. IsFiniteSet(m + 1 .. n) /\ Cardinality(m + 1 .. n) = n - m
    <2>1. m + 1 \in Int /\ n \in Int
      OBVIOUS
    <2>2. IsFiniteSet(m + 1 .. n) /\ Cardinality(m + 1 .. n) = IF m + 1 > n THEN 0 ELSE n - (m + 1) + 1
      BY <2>1, FS_Interval
    <2>3. QED
      BY <2>2
  <1>3. IsFiniteSet(S) /\ Cardinality(S) <= Cardinality(m + 1 .. n)
    BY <1>1, <1>2, FS_Injection
  <1>4. QED
    BY <1>2, <1>3, GrepSize, FS_CardinalityType

\* A step of one job, which was not complete or keeps its hits.
LEMMA GrepJobStep ==
  ASSUME Grep!JobsOK, NEW j \in Clients, NEW r, v2' = [v2 EXCEPT ![j] = r], Grep!JobOK(r),
         UNCHANGED <<v4, v5>>,
         \/ ~v2[j].complete
         \/ r.complete /\ r.hits = v2[j].hits /\ r.truncated = v2[j].truncated
  PROVE  Grep!JobsOK'
  <1>1. /\ DOMAIN v2 = Clients /\ DOMAIN v5 = Clients /\ v4 \in Nat
        /\ \A i \in Clients : Grep!JobOK(v2[i]) /\ (v5[i] # None => v2[i].complete)
        /\ \A i \in Clients : v5[i] # None =>
              v5[i].hits = v2[i].hits /\ v5[i].truncated = v2[i].truncated
    BY DEF Grep!JobsOK, Grep!FinalIsFinal
  <1>2. DOMAIN v2' = Clients /\ v2'[j] = r /\ \A i \in Clients : i # j => v2'[i] = v2[i]
    BY <1>1
  <1>3. ASSUME NEW i \in Clients
        PROVE  /\ Grep!JobOK(v2'[i])
               /\ v5[i] # None => v2'[i].complete /\ v5[i].hits = v2'[i].hits /\ v5[i].truncated = v2'[i].truncated
    BY <1>1, <1>2
  <1>4. QED
    BY <1>1, <1>2, <1>3 DEF Grep!JobsOK, Grep!FinalIsFinal

\* The store, when neither it nor the handles change and time does not go back.
LEMMA GrepStoreStays ==
  ASSUME Grep!StoreOK, UNCHANGED <<v3, v6>>, v4 \in Nat, v4' \in Nat, v4 <= v4'
  PROVE  Grep!StoreOK'
  <1>1. v6 \in Seq(Nat)
    BY DEF Grep!StoreOK
  <1>2. \A h \in DOMAIN v6 : v6[h] \in Nat
    BY <1>1
  <1>3. Grep!HandleKept'
    BY <1>2 DEF Grep!StoreOK, Grep!HandleKept
  <1>4. QED
    BY <1>3 DEF Grep!StoreOK

\* An end of an entry is a moment.
LEMMA GrepEnds ==
  ASSUME NEW ends \in Seq(Nat), NEW e, Grep!EntryOK(e, ends)
  PROVE  Grep!EndOf(e) \in Nat /\ e.handle \in 1..Len(ends) /\ ends[e.handle] = Grep!EndOf(e)
  <1>1. DOMAIN ends = 1..Len(ends) /\ \A h \in DOMAIN ends : ends[h] \in Nat
    OBVIOUS
  <1>2. QED
    BY <1>1 DEF Grep!EntryOK

\* A purge takes out what has reached its end.
LEMMA GrepPurge ==
  ASSUME Grep!StoreOK, v4 \in Nat, v3' = Grep!Purged(v3), UNCHANGED <<v4, v6>>
  PROVE  Grep!StoreOK'
  <1>1. /\ v6 \in Seq(Nat) /\ \A e \in v3 : Grep!EntryOK(e, v6)
        /\ \A e, f \in v3 : e.handle = f.handle => e = f
        /\ Grep!HandleKept
    BY DEF Grep!StoreOK
  <1>2. \A e \in v3 : e \in v3' \/ v4 >= Grep!EndOf(e)
    BY <1>1, GrepEnds DEF Grep!Purged
  <1>3. v3' \subseteq v3
    BY DEF Grep!Purged
  <1>4. ASSUME NEW h \in DOMAIN v6
        PROVE  \/ \E e \in v3' : e.handle = h
               \/ v4 >= v6[h]
               \/ Len(v6) - h >= MaxHandles
    <2>1. CASE \E e \in v3 : e.handle = h
      <3>1. PICK e \in v3 : e.handle = h
        BY <2>1
      <3>2. v6[h] = Grep!EndOf(e)
        BY <1>1, <3>1, GrepEnds
      <3>3. QED
        BY <1>2, <3>1, <3>2
    <2>2. CASE ~\E e \in v3 : e.handle = h
      BY <1>1, <2>2 DEF Grep!HandleKept
    <2>3. QED
      BY <2>1, <2>2
  <1>5. Grep!HandleKept'
    BY <1>4 DEF Grep!HandleKept
  <1>6. \A e \in v3' : Grep!EntryOK(e, v6)
    BY <1>1, <1>3
  <1>7. QED
    BY <1>1, <1>3, <1>5, <1>6 DEF Grep!StoreOK

\* A new handle takes the room of the oldest, or of one that has ended.
LEMMA GrepFinalize ==
  ASSUME Grep!StoreOK, v4 \in Nat, v4' = v4, NEW hits \in Nat, NEW complete \in BOOLEAN,
         Grep!Finalize(hits, complete)
  PROVE  Grep!StoreOK'
  <1>1. /\ v6 \in Seq(Nat) /\ \A e \in v3 : Grep!EntryOK(e, v6)
        /\ \A e, f \in v3 : e.handle = f.handle => e = f
        /\ Grep!HandleKept
    BY DEF Grep!StoreOK
  <1>2. CASE UNCHANGED <<v3, v6>>
    BY <1>2, GrepStoreStays
  <1> DEFINE deadline == IF complete THEN v4 + TtlAfterComplete ELSE None
             n == Len(v6)
             new == [handle |-> n + 1, items |-> hits, created |-> v4, deadline |-> deadline]
             kept == Grep!Room(Grep!Purged(v3))
  <1>3. CASE v3' = kept \cup {new} /\ v6' = Append(v6, Grep!EndOf(new))
    <2>1. deadline \in Nat \cup {None} /\ PageTtl \in Nat /\ MaxHandles \in Nat \ {0}
      BY SettingsAssumption
    <2>2. n \in Nat /\ DOMAIN v6 = 1..n /\ \A h \in 1..n : v6[h] \in Nat
      BY <1>1
    <2> HIDE DEF deadline, n
    <2>3. /\ new \in [handle : Nat, items : Nat, created : Nat, deadline : Nat \cup {None}]
          /\ new.handle = n + 1 /\ new.deadline = deadline /\ new.created = v4
      BY <2>1, <2>2
    <2> HIDE DEF new
    <2>4. Grep!EndOf(new) \in Nat
      BY <2>1, <2>3 DEF Grep!EndOf
    <2>5. /\ v6' \in Seq(Nat) /\ Len(v6') = n + 1 /\ DOMAIN v6' = 1..(n + 1)
          /\ v6'[n + 1] = Grep!EndOf(new) /\ \A h \in 1..n : v6'[h] = v6[h]
      BY <1>1, <1>3, <2>2, <2>4 DEF n
    <2>6. kept \subseteq Grep!Purged(v3) /\ Grep!Purged(v3) \subseteq v3
      BY DEF Grep!Room, Grep!Purged
    <2>7. \A e \in v3 : /\ e \in [handle : Nat, items : Nat, created : Nat, deadline : Nat \cup {None}]
                        /\ Grep!EndOf(e) \in Nat /\ e.handle \in 1..n /\ v6[e.handle] = Grep!EndOf(e)
      BY <1>1, GrepEnds DEF n, Grep!EntryOK
    <2>8. ASSUME NEW e \in v3' PROVE Grep!EntryOK(e, v6')
      <3>1. CASE e = new
        BY <2>2, <2>3, <2>5, <3>1 DEF Grep!EntryOK
      <3>2. CASE e \in v3
        BY <2>2, <2>5, <2>7, <3>2 DEF Grep!EntryOK
      <3>3. QED
        BY <1>3, <2>6, <3>1, <3>2
    <2>9. \A e, f \in v3' : e.handle = f.handle => e = f
      <3>1. \A e \in v3 : e.handle # new.handle
        BY <2>2, <2>3, <2>7
      <3>2. \A e \in v3' : e \in v3 \/ e = new
        BY <1>3, <2>6
      <3>3. QED
        BY <1>1, <3>1, <3>2
    <2>10. ASSUME NEW h \in 1..(n + 1)
           PROVE  \/ \E e \in v3' : e.handle = h
                  \/ v4 >= v6'[h]
                  \/ n + 1 - h >= MaxHandles
      <3>1. CASE h = n + 1
        BY <1>3, <2>3, <3>1
      <3>2. CASE h \in 1..n /\ \E e \in v3 : e.handle = h
        <4>1. PICK e \in v3 : e.handle = h
          BY <3>2
        <4>2. v6'[h] = Grep!EndOf(e) /\ Grep!EndOf(e) \in Nat
          BY <2>5, <2>7, <3>2, <4>1
        <4>3. CASE e \notin Grep!Purged(v3)
          <5>1. v4 >= Grep!EndOf(e)
            BY <4>2, <4>3 DEF Grep!Purged
          <5>2. QED
            BY <4>2, <5>1
        <4>4. CASE e \in kept
          BY <1>3, <4>1, <4>4
        <4>5. CASE e \in Grep!Purged(v3) /\ e \notin kept
          <5> DEFINE N == Grep!Newer(Grep!Purged(v3), e)
          <5>1. ~(Grep!Cardinality(N) < MaxHandles - 1)
            BY <4>5 DEF Grep!Room
          <5>2. \A f \in N : f \in v3 /\ f.handle > h
            BY <2>6, <4>1 DEF Grep!Newer
          <5> HIDE DEF N
          <5>3. \A f \in N : f.handle \in h + 1 .. n
            BY <2>2, <2>7, <3>2, <5>2
          <5>4. \A f, g \in N : f.handle = g.handle => f = g
            BY <1>1, <5>2
          <5>5. Grep!Cardinality(N) \in Nat /\ Grep!Cardinality(N) <= n - h
            <6>1. h \in Nat /\ h <= n /\ n \in Nat
              BY <2>2, <3>2
            <6>2. QED
              BY <5>3, <5>4, <6>1, GrepCount
          <5>6. QED
            BY <2>1, <2>2, <3>2, <5>1, <5>5
        <4>6. QED
          BY <4>3, <4>4, <4>5
      <3>3. CASE h \in 1..n /\ ~\E e \in v3 : e.handle = h
        <4>1. v4 >= v6[h] \/ n - h >= MaxHandles
          BY <1>1, <2>2, <3>3 DEF Grep!HandleKept, n
        <4>2. QED
          BY <2>1, <2>2, <2>5, <3>3, <4>1
      <3>4. QED
        BY <2>2, <3>1, <3>2, <3>3
    <2>11. Grep!HandleKept'
      <3>1. ASSUME NEW h \in DOMAIN v6'
            PROVE  \/ \E e \in v3' : e.handle = h
                   \/ v4' >= v6'[h]
                   \/ Len(v6') - h >= MaxHandles
        <4>1. h \in 1..(n + 1) /\ Len(v6') = n + 1 /\ v4' = v4
          BY <2>5, <3>1
        <4>2. (\E e \in v3' : e.handle = h) \/ v4 >= v6'[h] \/ n + 1 - h >= MaxHandles
          BY <2>10, <4>1
        <4>3. v4' >= v6'[h] <=> v4 >= v6'[h]
          BY <4>1
        <4>4. Len(v6') - h >= MaxHandles <=> n + 1 - h >= MaxHandles
          <5> DEFINE len == Len(v6')
          <5>1. len = n + 1
            BY <4>1
          <5> HIDE DEF len
          <5>2. len - h >= MaxHandles <=> n + 1 - h >= MaxHandles
            BY <4>1, <5>1, <2>1, <2>2
          <5>3. QED
            BY <5>2 DEF len
        <4>5. QED
          BY <4>2, <4>3, <4>4
      <3>2. QED
        BY <3>1 DEF Grep!HandleKept
    <2>12. QED
      BY <2>5, <2>8, <2>9, <2>11 DEF Grep!StoreOK
  <1>4. QED
    BY <1>2, <1>3 DEF Grep!Finalize

\* Before the first job.
LEMMA GrepInit == Grep!Init => Grep!IInv
  <1> SUFFICES ASSUME Grep!Init PROVE Grep!IInv
    OBVIOUS
  <1>1. /\ v2 = [j \in Clients |-> Grep!NoJob] /\ v5 = [j \in Clients |-> None]
        /\ v3 = {} /\ v4 = 0 /\ v6 = <<>>
    BY DEF Grep!Init
  <1>2. Grep!JobOK(Grep!NoJob)
    BY DEF Grep!NoJob, Grep!JobOK, Grep!Records
  <1>3. Grep!JobsOK
    BY <1>1, <1>2 DEF Grep!JobsOK, Grep!FinalIsFinal
  <1>4. Grep!StoreOK
    <2>1. v6 \in Seq(Nat) /\ DOMAIN v6 = {}
      BY <1>1
    <2>2. QED
      BY <1>1, <2>1 DEF Grep!StoreOK, Grep!HandleKept
  <1>5. QED
    BY <1>3, <1>4 DEF Grep!IInv

\* Every step of a job, of a snapshot and of the store keeps the invariant.
LEMMA GrepStep == Grep!IInv /\ [Grep!Next]_(Grep!vars) => Grep!IInv'
  <1> SUFFICES ASSUME Grep!IInv, [Grep!Next]_(Grep!vars) PROVE Grep!IInv'
    OBVIOUS
  <1>0. /\ Grep!JobsOK /\ Grep!StoreOK /\ v4 \in Nat /\ DOMAIN v2 = Clients /\ DOMAIN v5 = Clients
        /\ \A j \in Clients : Grep!JobOK(v2[j]) /\ v2[j] \in Grep!Records
    BY DEF Grep!IInv, Grep!JobsOK, Grep!JobOK
  <1>q. ASSUME Grep!JobsOK', Grep!StoreOK' PROVE Grep!IInv'
    BY <1>q DEF Grep!IInv
  <1>s. ASSUME UNCHANGED <<v3, v4, v6>> PROVE Grep!StoreOK'
    BY <1>0, <1>s, GrepStoreStays
  <1>j. ASSUME NEW j \in Clients, NEW r, v2' = [v2 EXCEPT ![j] = r], Grep!JobOK(r),
               UNCHANGED <<v3, v4, v5, v6>>,
               \/ ~v2[j].complete
               \/ r.complete /\ r.hits = v2[j].hits /\ r.truncated = v2[j].truncated
        PROVE  Grep!IInv'
    <2>1. Grep!JobsOK'
      BY <1>0, <1>j, GrepJobStep
    <2>2. QED
      BY <1>j, <1>q, <1>s, <2>1
  <1>1. ASSUME NEW j \in Clients, NEW n \in 0..MaxMatches, NEW long \in BOOLEAN, Grep!StartJob(j, n, long)
        PROVE  Grep!IInv'
    <2> DEFINE r == [Grep!NoJob EXCEPT !.pc = "start", !.of = n, !.matches = n, !.long = long]
    <2>1. v2[j].pc = "none" /\ v2' = [v2 EXCEPT ![j] = r] /\ UNCHANGED <<v3, v4, v5, v6>>
      BY <1>1 DEF Grep!StartJob, Grep!Is, Grep!Set
    <2>2. n \in Nat
      OBVIOUS
    <2>3. Grep!JobOK(r)
      <3>1. Grep!NoJob \in Grep!Records /\ Grep!NoJob.hits = 0 /\ ~Grep!NoJob.complete /\ ~Grep!NoJob.truncated
        BY DEF Grep!NoJob, Grep!Records
      <3>2. /\ r \in Grep!Records /\ r.pc = "start" /\ r.of = n /\ r.matches = n
            /\ r.hits = 0 /\ ~r.complete /\ ~r.truncated
        BY <2>2, <3>1 DEF Grep!Records
      <3> HIDE DEF r
      <3>3. QED
        BY <2>2, <3>2 DEF Grep!JobOK
    <2>4. ~v2[j].complete
      BY <1>0, <2>1 DEF Grep!JobOK
    <2> HIDE DEF r
    <2>5. QED
      BY <1>j, <2>1, <2>3, <2>4
  <1>2. ASSUME NEW j \in Clients, Grep!RunAtOnce(j) PROVE Grep!IInv'
    <2> DEFINE done == [v2[j] EXCEPT !.complete = TRUE, !.at = v4]
               failed == [done EXCEPT !.pc = "end", !.error = TRUE]
               hits(n) == IF n > MaxResults THEN MaxResults ELSE n
               found(n) == [done EXCEPT !.pc = "end", !.hits = hits(n), !.truncated = n >= MaxResults,
                                        !.silent = n < v2[j].of]
    <2>1. /\ v2[j].pc = "start" /\ UNCHANGED <<v3, v4, v5, v6>>
          /\ \/ v2' = [v2 EXCEPT ![j] = failed]
             \/ \E n \in 0..v2[j].of : v2' = [v2 EXCEPT ![j] = found(n)]
      BY <1>2 DEF Grep!RunAtOnce, Grep!Is, Grep!Set, Grep!Completed
    <2>2. ~v2[j].complete
      BY <1>0, <2>1 DEF Grep!JobOK
    <2>3. done \in Grep!Records /\ done.of = v2[j].of /\ v2[j].of \in Nat
      BY <1>0 DEF Grep!Records
    <2> HIDE DEF done
    <2>4. Grep!JobOK(failed)
      BY <2>3 DEF Grep!JobOK, Grep!Records
    <2>5. ASSUME NEW n \in 0..v2[j].of PROVE Grep!JobOK(found(n))
      <3> DEFINE size == hits(n)
                 truncated == n >= MaxResults
                 silent == n < v2[j].of
                 last == [done EXCEPT !.pc = "end", !.hits = size, !.truncated = truncated,
                                      !.silent = silent]
      <3>1. /\ size \in Nat /\ truncated \in BOOLEAN /\ silent \in BOOLEAN
            /\ truncated \/ size = v2[j].of \/ silent
        BY <2>3, SettingsAssumption
      <3> HIDE DEF size, truncated, silent
      <3>2. /\ last \in Grep!Records /\ last.pc = "end" /\ last.truncated = truncated
            /\ last.hits = size /\ last.of = v2[j].of /\ last.silent = silent
        BY <2>3, <3>1 DEF Grep!Records
      <3>3. last = found(n)
        BY DEF size, truncated, silent
      <3> HIDE DEF last, found
      <3>4. Grep!JobOK(last)
        BY <3>1, <3>2 DEF Grep!JobOK
      <3>5. QED
        BY <3>3, <3>4
    <2> HIDE DEF failed, found
    <2>6. QED
      BY <1>j, <2>1, <2>2, <2>4, <2>5
  <1>3. ASSUME NEW j \in Clients, Grep!RunRipgrep(j) PROVE Grep!IInv'
    <2> DEFINE started == [v2[j] EXCEPT !.pc = "pump"]
               raised == [v2[j] EXCEPT !.pc = "finally", !.silent = TRUE]
    <2>1. /\ v2[j].pc = "start" /\ UNCHANGED <<v3, v4, v5, v6>>
          /\ v2' = [v2 EXCEPT ![j] = started] \/ v2' = [v2 EXCEPT ![j] = raised]
      BY <1>3 DEF Grep!RunRipgrep, Grep!Is, Grep!Set
    <2>2. ~v2[j].complete /\ Grep!JobOK(started) /\ Grep!JobOK(raised)
      BY <1>0, <2>1 DEF Grep!JobOK, Grep!Records
    <2> HIDE DEF started, raised
    <2>3. QED
      BY <1>j, <2>1, <2>2
  <1>4. ASSUME NEW j \in Clients, Grep!Hit(j) PROVE Grep!IInv'
    <2> DEFINE hits == v2[j].hits + 1
               matches == v2[j].matches - 1
               next == [v2[j] EXCEPT !.hits = hits, !.matches = matches]
               cut == [next EXCEPT !.truncated = TRUE]
               full == [cut EXCEPT !.complete = TRUE, !.at = v4]
               last == [[[next EXCEPT !.complete = TRUE, !.at = v4] EXCEPT !.truncated = TRUE]
                            EXCEPT !.pc = "wait", !.rc = "killed"]
    <2>1. /\ v2[j].pc = "pump" /\ v2[j].matches > 0 /\ UNCHANGED <<v3, v4, v5, v6>>
          /\ v2' = [v2 EXCEPT ![j] = next] \/ v2' = [v2 EXCEPT ![j] = last]
      BY <1>4 DEF Grep!Hit, Grep!Is, Grep!Set, Grep!Completed, Grep!AfterLimit
    <2>2. v2[j].hits \in Nat /\ v2[j].matches \in Nat /\ v2[j].of \in Nat
          /\ ~v2[j].complete /\ ~v2[j].truncated /\ v2[j].hits + v2[j].matches = v2[j].of
      BY <1>0, <2>1 DEF Grep!JobOK, Grep!Records
    <2>3. hits \in Nat /\ matches \in Nat /\ hits + matches = v2[j].of
      BY <2>1, <2>2
    <2> HIDE DEF hits, matches
    <2>4. /\ next \in Grep!Records /\ next.pc = "pump" /\ ~next.complete /\ ~next.truncated
          /\ next.hits + next.matches = next.of
      BY <1>0, <2>1, <2>2, <2>3 DEF Grep!Records
    <2> HIDE DEF next
    <2>5. Grep!JobOK(next)
      BY <2>4 DEF Grep!JobOK
    <2>6. last \in Grep!Records /\ last.pc = "wait" /\ last.truncated /\ last.rc = "killed"
      BY <1>0, <2>4 DEF Grep!Records
    <2> HIDE DEF last
    <2>7. Grep!JobOK(last)
      BY <2>6 DEF Grep!JobOK
    <2>8. QED
      BY <1>j, <2>1, <2>2, <2>5, <2>7
  <1>5. ASSUME NEW j \in Clients, Grep!Eof(j) PROVE Grep!IInv'
    <2>1. PICK rc \in {"ok", "two", "killed"} :
             /\ rc = "ok" => v2[j].matches = 0 /\ ~v2[j].long
             /\ v2' = [v2 EXCEPT ![j] = [v2[j] EXCEPT !.pc = "wait", !.rc = rc, !.silent = (rc = "two")]]
      BY <1>5 DEF Grep!Eof, Grep!Set
    <2> DEFINE r == [v2[j] EXCEPT !.pc = "wait", !.rc = rc, !.silent = (rc = "two")]
    <2>2. v2[j].pc = "pump" /\ UNCHANGED <<v3, v4, v5, v6>>
      BY <1>5 DEF Grep!Eof, Grep!Is
    <2>3. v2[j].hits \in Nat /\ v2[j].of \in Nat
          /\ ~v2[j].complete /\ ~v2[j].truncated /\ v2[j].hits + v2[j].matches = v2[j].of
      BY <1>0, <2>2 DEF Grep!JobOK, Grep!Records
    <2>4. rc = "ok" => v2[j].hits = v2[j].of
      BY <2>1, <2>3
    <2>5. /\ r \in Grep!Records /\ r.pc = "wait" /\ ~r.complete /\ r.rc = rc
          /\ r.hits = v2[j].hits /\ r.of = v2[j].of /\ r.silent = (rc = "two")
      BY <1>0, <2>3 DEF Grep!Records
    <2>6. v2' = [v2 EXCEPT ![j] = r]
      BY <2>1
    <2> HIDE DEF r
    <2>7. Grep!JobOK(r)
      BY <2>4, <2>5 DEF Grep!JobOK
    <2>8. QED
      BY <1>j, <2>2, <2>3, <2>6, <2>7
  <1>6. ASSUME NEW j \in Clients, Grep!LongLine(j) PROVE Grep!IInv'
    <2> DEFINE r == [v2[j] EXCEPT !.pc = "finally", !.silent = TRUE]
    <2>1. v2[j].pc = "pump" /\ v2[j].long /\ v2' = [v2 EXCEPT ![j] = r] /\ UNCHANGED <<v3, v4, v5, v6>>
      BY <1>6 DEF Grep!LongLine, Grep!Is, Grep!Set
    <2>2. ~v2[j].complete /\ Grep!JobOK(r)
      BY <1>0, <2>1 DEF Grep!JobOK, Grep!Records
    <2> HIDE DEF r
    <2>3. QED
      BY <1>j, <2>1, <2>2
  <1>7. ASSUME NEW j \in Clients, Grep!Waited(j) PROVE Grep!IInv'
    <2> DEFINE error == v2[j].error \/ v2[j].rc = "killed"
               r == [v2[j] EXCEPT !.pc = "finally", !.error = error]
    <2>1. v2[j].pc = "wait" /\ v2' = [v2 EXCEPT ![j] = r] /\ UNCHANGED <<v3, v4, v5, v6>>
      BY <1>7 DEF Grep!Waited, Grep!Is, Grep!Set
    <2>2. error \in BOOLEAN /\ (error \/ v2[j].silent \/ v2[j].hits = v2[j].of)
      BY <1>0, <2>1 DEF Grep!JobOK
    <2> HIDE DEF error
    <2>3. /\ r \in Grep!Records /\ r.pc = "finally" /\ r.error = error /\ r.silent = v2[j].silent
          /\ r.hits = v2[j].hits /\ r.of = v2[j].of /\ r.complete = v2[j].complete
          /\ r.truncated = v2[j].truncated
      BY <1>0, <2>2 DEF Grep!Records
    <2> HIDE DEF r
    <2>4. Grep!JobOK(r)
      BY <2>2, <2>3 DEF Grep!JobOK
    <2>5. v2[j].complete \in BOOLEAN
      BY <1>0 DEF Grep!Records
    <2>6. QED
      BY <1>j, <2>1, <2>3, <2>4, <2>5
  <1>8. ASSUME NEW j \in Clients, Grep!JobTimeout(j) PROVE Grep!IInv'
    <2> DEFINE r == [v2[j] EXCEPT !.pc = "finally", !.error = TRUE]
    <2>1. v2' = [v2 EXCEPT ![j] = r] /\ UNCHANGED <<v3, v4, v5, v6>>
      BY <1>8 DEF Grep!JobTimeout, Grep!TimedOut, Grep!Set
    <2>2. /\ r \in Grep!Records /\ r.pc = "finally" /\ r.error
          /\ r.hits = v2[j].hits /\ r.complete = v2[j].complete /\ r.truncated = v2[j].truncated
      BY <1>0 DEF Grep!Records
    <2> HIDE DEF r
    <2>3. Grep!JobOK(r)
      BY <2>2 DEF Grep!JobOK
    <2>4. v2[j].complete \in BOOLEAN
      BY <1>0 DEF Grep!Records
    <2>5. QED
      BY <1>j, <2>1, <2>2, <2>3, <2>4
  <1>9. ASSUME NEW j \in Clients, Grep!Finally(j) PROVE Grep!IInv'
    <2> DEFINE done == [v2[j] EXCEPT !.complete = TRUE, !.at = v4]
               last == IF v2[j].complete THEN v2[j] ELSE done
               r == [last EXCEPT !.pc = "end"]
    <2>1. v2[j].pc = "finally" /\ v2' = [v2 EXCEPT ![j] = r] /\ UNCHANGED <<v3, v4, v5, v6>>
      BY <1>9 DEF Grep!Finally, Grep!Is, Grep!Set, Grep!Completed
    <2>2. v2[j].truncated \/ v2[j].error \/ v2[j].hits = v2[j].of \/ v2[j].silent
      BY <1>0, <2>1 DEF Grep!JobOK
    <2>3. /\ last \in Grep!Records /\ last.complete /\ last.hits = v2[j].hits /\ last.of = v2[j].of
          /\ last.truncated = v2[j].truncated /\ last.error = v2[j].error
          /\ last.silent = v2[j].silent
      BY <1>0 DEF Grep!Records
    <2> HIDE DEF last
    <2>4. /\ r \in Grep!Records /\ r.complete /\ r.hits = v2[j].hits /\ r.of = v2[j].of /\ r.pc = "end"
          /\ r.truncated = v2[j].truncated /\ r.error = v2[j].error
          /\ r.silent = v2[j].silent
      BY <2>3 DEF Grep!Records
    <2> HIDE DEF r
    <2>5. Grep!JobOK(r)
      BY <2>2, <2>4 DEF Grep!JobOK
    <2>6. QED
      BY <1>j, <2>1, <2>4, <2>5
  <1>10. ASSUME NEW j \in Clients, Grep!Snapshot(j) PROVE Grep!IInv'
    <2> DEFINE answer == [hits |-> v2[j].hits, truncated |-> v2[j].truncated]
    <2>1. /\ Grep!Finalize(v2[j].hits, v2[j].complete) /\ UNCHANGED <<v2, v4>>
          /\ v5' = IF v2[j].complete THEN [v5 EXCEPT ![j] = answer] ELSE v5
      BY <1>10 DEF Grep!Snapshot
    <2>2. v2[j].hits \in Nat /\ v2[j].complete \in BOOLEAN
      BY <1>0 DEF Grep!Records
    <2>3. Grep!StoreOK'
      BY <1>0, <2>1, <2>2, GrepFinalize
    <2>4. answer.hits = v2[j].hits /\ answer.truncated = v2[j].truncated
      OBVIOUS
    <2> HIDE DEF answer
    <2>5. ASSUME NEW i \in Clients
          PROVE  v5'[i] # None => v2[i].complete /\ v5'[i].hits = v2[i].hits /\ v5'[i].truncated = v2[i].truncated
      BY <1>0, <2>1, <2>4 DEF Grep!JobsOK, Grep!FinalIsFinal
    <2>6. DOMAIN v5' = Clients
      BY <1>0, <2>1
    <2>7. Grep!JobsOK'
      BY <1>0, <2>1, <2>5, <2>6 DEF Grep!JobsOK, Grep!FinalIsFinal
    <2>8. QED
      BY <1>q, <2>3, <2>7
  <1>11. ASSUME UNCHANGED <<v2, v5>>, v4' \in Nat PROVE Grep!JobsOK'
    BY <1>0, <1>11 DEF Grep!JobsOK, Grep!FinalIsFinal
  <1>12. ASSUME NEW j \in Clients, Grep!SnapshotExpired(j) PROVE Grep!IInv'
    <2>1. UNCHANGED <<v2, v3, v4, v5, v6>>
      BY <1>12 DEF Grep!SnapshotExpired
    <2>2. QED
      BY <1>0, <1>11, <1>q, <1>s, <2>1
  <1>13. CASE Grep!GetPage
    <2>1. v3' = Grep!Purged(v3) /\ UNCHANGED <<v2, v4, v5, v6>>
      BY <1>13 DEF Grep!GetPage
    <2>2. Grep!StoreOK'
      BY <1>0, <2>1, GrepPurge
    <2>3. QED
      BY <1>0, <1>11, <1>q, <2>1, <2>2
  <1>14. CASE Grep!Tick
    <2>1. v4' = v4 + 1 /\ UNCHANGED <<v2, v3, v5, v6>>
      BY <1>14 DEF Grep!Tick
    <2>2. v4' \in Nat /\ v4 <= v4'
      BY <1>0, <2>1
    <2>3. Grep!StoreOK'
      BY <1>0, <2>1, <2>2, GrepStoreStays
    <2>4. QED
      BY <1>11, <1>q, <2>1, <2>2, <2>3
  <1>15. CASE UNCHANGED Grep!vars
    <2>1. UNCHANGED <<v2, v3, v4, v5, v6>>
      BY <1>15 DEF Grep!vars
    <2>2. QED
      BY <1>0, <1>11, <1>q, <1>s, <2>1
  <1>16. QED
    BY <1>1, <1>2, <1>3, <1>4, <1>5, <1>6, <1>7, <1>8, <1>9, <1>10, <1>12, <1>13, <1>14, <1>15 DEF Grep!Next

\* A complete job that reports no truncation and no error has all matches.
LEMMA GrepTells == Grep!IInv => Grep!FinalIsFinal /\ Grep!CompleteTellsAll /\ Grep!HandleKept
  <1>1. ASSUME Grep!JobsOK, NEW j \in Clients, v2[j].complete, ~v2[j].truncated, ~v2[j].error
        PROVE  v2[j].hits = v2[j].of \/ v2[j].silent
    <2>1. Grep!JobOK(v2[j])
      BY <1>1 DEF Grep!JobsOK
    <2>2. v2[j].pc \in {"finally", "end"}
      BY <1>1, <2>1 DEF Grep!JobOK, Grep!Records
    <2>3. QED
      BY <1>1, <2>1, <2>2 DEF Grep!JobOK
  <1>2. QED
    BY <1>1 DEF Grep!IInv, Grep!JobsOK, Grep!StoreOK, Grep!CompleteTellsAll

-----------------------------------------------------------------------------
(***************************************************************************)
(* Processes on the host of the MCP bridge (proc v1, registry v2, call v3, *)
(* abandoned v4)                                                           *)
(***************************************************************************)
\* The number of elements is what it is everywhere, and so is what is finite.
LEMMA HostSize ==
  ASSUME NEW S PROVE Host!Cardinality(S) = Cardinality(S) /\ (Host!IsFiniteSet(S) <=> IsFiniteSet(S))
  BY DEF Host!Cardinality, Cardinality, Host!IsFiniteSet, IsFiniteSet

\* No entry and no spawn under way is new.
LEMMA HostCountStays ==
  ASSUME Host!IsFiniteSet(v2), Host!SpawnsBounded, v2' \subseteq v2,
         {c \in Clients : v3'[c].pc = "creating"} \subseteq {c \in Clients : v3[c].pc = "creating"}
  PROVE  Host!IsFiniteSet(v2') /\ Host!SpawnsBounded'
  <1> DEFINE old == {c \in Clients : v3[c].pc = "creating"}
             new == {c \in Clients : v3'[c].pc = "creating"}
  <1>1. IsFiniteSet(old) /\ IsFiniteSet(v2)
    BY SettingsAssumption, HostSize, FS_Subset
  <1>2. IsFiniteSet(v2') /\ Cardinality(v2') <= Cardinality(v2) /\ Cardinality(new) <= Cardinality(old)
        /\ IsFiniteSet(new)
    BY <1>1, FS_Subset
  <1>3. /\ Cardinality(v2) \in Nat /\ Cardinality(v2') \in Nat /\ Cardinality(old) \in Nat
        /\ Cardinality(new) \in Nat /\ Cardinality(Clients) \in Nat /\ MaxProcs \in Nat
    BY <1>1, <1>2, SettingsAssumption, FS_CardinalityType
  <1>4. Cardinality(v2) + Cardinality(old) <= MaxProcs - 1 + Cardinality(Clients)
    BY HostSize DEF Host!SpawnsBounded, Host!At
  <1> HIDE DEF old, new
  <1>5. Cardinality(v2') + Cardinality(new) <= MaxProcs - 1 + Cardinality(Clients)
    BY <1>2, <1>3, <1>4
  <1>6. QED
    BY <1>2, <1>5, HostSize DEF Host!SpawnsBounded, Host!At, new

\* A spawn begins while an entry is free.
LEMMA HostCountSpawn ==
  ASSUME Host!IsFiniteSet(v2), ~Host!Full(v2), v2' = v2
  PROVE  Host!SpawnsBounded'
  <1> DEFINE new == {c \in Clients : v3'[c].pc = "creating"}
  <1>1. Cardinality(new) <= Cardinality(Clients) /\ IsFiniteSet(new) /\ IsFiniteSet(v2)
    BY SettingsAssumption, HostSize, FS_Subset
  <1>2. /\ Cardinality(v2) \in Nat /\ Cardinality(new) \in Nat /\ Cardinality(Clients) \in Nat
        /\ MaxProcs \in Nat
    BY <1>1, SettingsAssumption, FS_CardinalityType
  <1>3. ~(Cardinality(v2) >= MaxProcs)
    BY HostSize DEF Host!Full
  <1> HIDE DEF new
  <1>4. Cardinality(v2') + Cardinality(new) <= MaxProcs - 1 + Cardinality(Clients)
    BY <1>1, <1>2, <1>3
  <1>5. QED
    BY <1>4, HostSize DEF Host!SpawnsBounded, Host!At, new

\* A spawn ends with an entry.
LEMMA HostCountSpawned ==
  ASSUME Host!IsFiniteSet(v2), Host!SpawnsBounded, NEW p, v2' = v2 \cup {p},
         NEW c \in Clients, v3[c].pc = "creating", v3'[c].pc # "creating",
         \A d \in Clients : d # c => v3'[d] = v3[d]
  PROVE  Host!IsFiniteSet(v2') /\ Host!SpawnsBounded'
  <1> DEFINE old == {d \in Clients : v3[d].pc = "creating"}
             new == {d \in Clients : v3'[d].pc = "creating"}
  <1>1. IsFiniteSet(old) /\ IsFiniteSet(v2)
    BY SettingsAssumption, HostSize, FS_Subset
  <1>2. new = old \ {c} /\ c \in old
    OBVIOUS
  <1>3. Cardinality(new) = Cardinality(old) - 1 /\ IsFiniteSet(new)
    BY <1>1, <1>2, FS_RemoveElement
  <1>4. Cardinality(v2') <= Cardinality(v2) + 1 /\ IsFiniteSet(v2')
    <2>1. IsFiniteSet(v2 \cup {p})
          /\ Cardinality(v2 \cup {p}) = IF p \in v2 THEN Cardinality(v2) ELSE Cardinality(v2) + 1
      BY <1>1, FS_AddElement
    <2>2. Cardinality(v2) \in Nat
      BY <1>1, FS_CardinalityType
    <2>3. QED
      BY <2>1, <2>2
  <1>5. /\ Cardinality(v2) \in Nat /\ Cardinality(v2') \in Nat /\ Cardinality(old) \in Nat
        /\ Cardinality(new) \in Nat /\ Cardinality(Clients) \in Nat /\ MaxProcs \in Nat
    BY <1>1, <1>3, <1>4, SettingsAssumption, FS_CardinalityType
  <1>6. Cardinality(v2) + Cardinality(old) <= MaxProcs - 1 + Cardinality(Clients)
    BY HostSize DEF Host!SpawnsBounded, Host!At
  <1> HIDE DEF old, new
  <1>7. Cardinality(v2') + Cardinality(new) <= MaxProcs - 1 + Cardinality(Clients)
    BY <1>3, <1>4, <1>5, <1>6
  <1>8. QED
    BY <1>4, <1>7, HostSize DEF Host!SpawnsBounded, Host!At, new

\* Before the first spawn.
LEMMA HostInit == Host!Init => Host!IInv
  <1> SUFFICES ASSUME Host!Init PROVE Host!IInv
    OBVIOUS
  <1>1. /\ v1 = [p \in Files \cup {Temp} |-> Host!NoProc] /\ v2 = {}
        /\ v3 = [c \in Clients |-> Host!NoCall] /\ v4 = {}
    BY DEF Host!Init
  <1>2. MaxBuff \in Nat /\ MaxProcs \in Nat \ {0} /\ IsFiniteSet(Clients)
    BY SettingsAssumption
  <1>3. IsFiniteSet(v2) /\ Cardinality(v2) = 0
    BY <1>1, FS_EmptySet
  <1>4. Host!TypeOK
    BY <1>1, <1>2, <1>3, HostSize DEF Host!TypeOK, Host!NoProc, Host!NoCall
  <1>5. Host!Creating /\ Host!NewsIsHeld /\ Host!Supervised
    BY <1>1 DEF Host!Creating, Host!NewsIsHeld, Host!Supervised, Host!NoProc, Host!NoCall, Host!At
  <1>6. Host!SpawnsBounded
    <2>1. {c \in Clients : v3[c].pc = "creating"} = {}
      BY <1>1 DEF Host!NoCall
    <2>2. Cardinality({c \in Clients : v3[c].pc = "creating"}) = 0
      BY <2>1, FS_EmptySet
    <2>3. Cardinality(Clients) \in Nat
      BY <1>2, FS_CardinalityType
    <2> DEFINE creating == {c \in Clients : v3[c].pc = "creating"}
    <2>4. Cardinality(creating) = 0
      BY <2>2
    <2> HIDE DEF creating
    <2>5. Cardinality(v2) + Cardinality(creating) <= MaxProcs - 1 + Cardinality(Clients)
      BY <1>2, <1>3, <2>3, <2>4
    <2>6. QED
      BY <2>5, HostSize DEF Host!SpawnsBounded, Host!At, creating
  <1>7. QED
    BY <1>4, <1>5, <1>6 DEF Host!IInv

\* Every step of a call, of a pump, of a process and of its time to live keeps
\* the invariant.
LEMMA HostStep == Host!IInv /\ [Host!Next]_(Host!vars) => Host!IInv'
  <1> SUFFICES ASSUME Host!IInv, [Host!Next]_(Host!vars) PROVE Host!IInv'
    OBVIOUS
  <1> DEFINE P == Files \cup {Temp}
             PR == [os : {"none", "creating", "runs", "dying", "ended"}, acc : 0..MaxBuff,
                    pumps : BOOLEAN, ttl : BOOLEAN]
             CR == [pc : {"idle", "creating", "told", "killing", "wait", "timed_out"},
                    p : P \cup {None}, base : 0..MaxBuff, news : BOOLEAN, heard : BOOLEAN]
             up == {"runs", "dying", "ended"}
  <1>0. /\ v1 \in [P -> PR] /\ v3 \in [Clients -> CR] /\ v2 \subseteq P /\ v4 \subseteq P
        /\ Host!IsFiniteSet(v2) /\ Host!SpawnsBounded /\ MaxBuff \in Nat
    BY SettingsAssumption DEF Host!IInv, Host!TypeOK
  <1>1. /\ \A c \in Clients : v3[c].pc # "idle" => v3[c].p \in P
        /\ \A c \in Clients : v3[c].pc = "creating" => v1[v3[c].p].os = "creating"
        /\ \A c, d \in Clients : v3[c].pc = "creating" /\ v3[d].pc = "creating" /\ v3[c].p = v3[d].p => c = d
        /\ \A c \in Clients : v3[c].pc = "killing" => v1[v3[c].p].os \in {"dying", "ended"}
        /\ \A c \in Clients : v3[c].pc \in {"told", "wait", "timed_out"} => v1[v3[c].p].os \in up
        /\ \A p \in v2 : v1[p].os \in up
    BY DEF Host!IInv, Host!Creating, Host!At
  <1>2. \A c \in Clients : v3[c].pc \in {"wait", "timed_out"} =>
           /\ v3[c].base <= v1[v3[c].p].acc
           /\ v3[c].news => v3[c].base < v1[v3[c].p].acc \/ v3[c].base = MaxBuff
           /\ v3[c].heard => v3[c].base = MaxBuff
    BY DEF Host!IInv, Host!NewsIsHeld
  <1>3. \A p \in P : v1[p].os = "runs" =>
           \/ p \in v2 /\ v1[p].ttl
           \/ \E c \in Clients : v3[c].pc = "told" /\ v3[c].p = p
           \/ p \in v4
    BY DEF Host!IInv, Host!Supervised, Host!At
  <1>4. /\ \A p \in P : v1[p] \in PR /\ v1[p].acc \in Nat /\ v1[p].acc <= MaxBuff
        /\ \A c \in Clients : v3[c] \in CR /\ v3[c].base \in Nat /\ v3[c].base <= MaxBuff
    BY <1>0
  \* The parts of the invariant, in the next state.
  <1>t. ASSUME v1' \in [P -> PR], v3' \in [Clients -> CR], v2' \subseteq P, v4' \subseteq P,
               Host!IsFiniteSet(v2')
        PROVE  Host!TypeOK'
    BY <1>t DEF Host!TypeOK
  <1>i. ASSUME Host!TypeOK', Host!Creating', Host!NewsIsHeld', Host!Supervised', Host!SpawnsBounded'
        PROVE  Host!IInv'
    BY <1>i DEF Host!IInv
  <1>w. \A c \in Clients : v3[c].pc \in {"idle", "creating", "told", "killing", "wait", "timed_out"}
    BY <1>4
  \* A step of one process, which has its output and its time to live unless it dies.
  <1>p. ASSUME NEW p \in P, NEW r \in PR, v1' = [v1 EXCEPT ![p] = r], UNCHANGED <<v2, v3, v4>>,
               r.os = v1[p].os \/ (v1[p].os \in {"runs", "dying"} /\ r.os \in {"dying", "ended"}),
               v1[p].os = "ended" => r.os = "ended", v1[p].os = "dying" => r.os # "runs",
               r.acc = v1[p].acc, r.os = "runs" => r.ttl = v1[p].ttl
        PROVE  Host!IInv'
    <2>1. v1' \in [P -> PR] /\ v1'[p] = r /\ \A q \in P : q # p => v1'[q] = v1[q]
      BY <1>0, <1>p
    <2>2. /\ \A q \in P : v1'[q].acc = v1[q].acc /\ (v1[q].os \in up => v1'[q].os \in up)
          /\ \A q \in P : v1[q].os = "creating" => v1'[q].os = "creating"
          /\ \A q \in P : v1[q].os \in {"dying", "ended"} => v1'[q].os \in {"dying", "ended"}
          /\ \A q \in P : v1'[q].os = "runs" => v1[q].os = "runs" /\ v1'[q].ttl = v1[q].ttl
      BY <1>4, <1>p, <2>1
    <2>3. Host!TypeOK'
      BY <1>0, <1>p, <1>t, <2>1
    <2>4. Host!Creating'
      BY <1>0, <1>1, <1>p, <2>2 DEF Host!Creating, Host!At
    <2>5. Host!NewsIsHeld'
      BY <1>1, <1>2, <1>p, <2>2 DEF Host!NewsIsHeld
    <2>6. Host!Supervised'
      BY <1>3, <1>p, <2>2 DEF Host!Supervised, Host!At
    <2>7. Host!SpawnsBounded'
      BY <1>0, <1>p, HostCountStays
    <2>8. QED
      BY <1>i, <2>3, <2>4, <2>5, <2>6, <2>7
  \* A step of a wait, which changes no process.
  <1>c. ASSUME NEW c \in Clients, NEW r \in CR, v3' = [v3 EXCEPT ![c] = r], UNCHANGED <<v1, v2, v4>>,
               v3[c].pc \in {"idle", "wait", "timed_out"}, r.pc \in {"idle", "wait", "timed_out"},
               r.pc # "idle" =>
                  /\ r.p \in P /\ v1[r.p].os \in up /\ r.base <= v1[r.p].acc
                  /\ r.news => r.base < v1[r.p].acc \/ r.base = MaxBuff
                  /\ r.heard => r.base = MaxBuff
        PROVE  Host!IInv'
    <2>1. v3' \in [Clients -> CR] /\ v3'[c] = r /\ \A d \in Clients : d # c => v3'[d] = v3[d]
      BY <1>0, <1>c
    <2>2. Host!TypeOK'
      BY <1>0, <1>c, <1>t, <2>1
    <2>3. Host!Creating'
      BY <1>1, <1>c, <2>1 DEF Host!Creating, Host!At
    <2>4. Host!NewsIsHeld'
      BY <1>2, <1>c, <2>1 DEF Host!NewsIsHeld
    <2>5. \A d \in Clients : v3[d].pc = "told" => v3'[d] = v3[d]
      BY <1>c, <2>1
    <2>6. Host!Supervised'
      BY <1>3, <1>c, <2>5 DEF Host!Supervised, Host!At
    <2>7. {d \in Clients : v3'[d].pc = "creating"} \subseteq {d \in Clients : v3[d].pc = "creating"}
      BY <1>c, <2>1
    <2>8. Host!SpawnsBounded'
      BY <1>0, <1>c, <2>7, HostCountStays
    <2>9. QED
      BY <1>i, <2>2, <2>3, <2>4, <2>6, <2>8
  <1>5. ASSUME NEW p \in P, Host!Exits(p) PROVE Host!IInv'
    <2> DEFINE r == [v1[p] EXCEPT !.os = "ended", !.ttl = FALSE]
    <2>1. v1[p].os \in {"runs", "dying"} /\ v1' = [v1 EXCEPT ![p] = r] /\ UNCHANGED <<v2, v3, v4>>
      BY <1>5 DEF Host!Exits, Host!Alive
    <2>2. r \in PR /\ r.os = "ended" /\ r.acc = v1[p].acc
      BY <1>4
    <2> HIDE DEF r
    <2>3. QED
      BY <1>p, <2>1, <2>2
  <1>6. ASSUME NEW p \in P, Host!TtlExpires(p) PROVE Host!IInv'
    <2> DEFINE os == IF v1[p].os = "runs" THEN "dying" ELSE v1[p].os
               r == [[v1[p] EXCEPT !.os = os] EXCEPT !.ttl = FALSE]
    <2>1. v1' = [v1 EXCEPT ![p] = r] /\ UNCHANGED <<v2, v3, v4>>
      BY <1>6 DEF Host!TtlExpires, Host!Killed
    <2>2. /\ os \in {"none", "creating", "dying", "ended"}
          /\ (os = v1[p].os \/ (v1[p].os = "runs" /\ os = "dying"))
      <3>1. v1[p].os \in {"none", "creating", "runs", "dying", "ended"}
        BY <1>4
      <3>2. QED
        BY <3>1
    <2> HIDE DEF os
    <2>3. r \in PR /\ r.os = os /\ r.acc = v1[p].acc
      BY <1>4, <2>2
    <2> HIDE DEF r
    <2>4. QED
      BY <1>p, <2>1, <2>2, <2>3
  <1>7. ASSUME NEW p \in P, Host!_host_pump_stream(p) PROVE Host!IInv'
    <2> DEFINE acc == Host!Kept(v1[p].acc + 1)
               r == [v1[p] EXCEPT !.acc = acc]
               Waits(c) == v3[c].pc = "wait" /\ v3[c].p = p
    <2>1. /\ v1' = [v1 EXCEPT ![p] = r] /\ UNCHANGED <<v2, v4>>
          /\ v3' = [c \in Clients |-> IF Waits(c) THEN [v3[c] EXCEPT !.news = TRUE] ELSE v3[c]]
      BY <1>7 DEF Host!_host_pump_stream, Host!At
    <2>2. /\ acc \in 0..MaxBuff /\ v1[p].acc <= acc
          /\ acc > v1[p].acc \/ (v1[p].acc = MaxBuff /\ acc = MaxBuff)
      <3> DEFINE was == v1[p].acc
      <3>1. was \in Nat /\ was <= MaxBuff
        BY <1>4
      <3> HIDE DEF was
      <3>2. acc = IF was + 1 > MaxBuff THEN MaxBuff ELSE was + 1
        BY DEF Host!Kept, was
      <3> HIDE DEF acc
      <3>3. acc \in 0..MaxBuff /\ was <= acc /\ (acc > was \/ (was = MaxBuff /\ acc = MaxBuff))
        BY <1>0, <3>1, <3>2
      <3>4. QED
        BY <3>3 DEF was
    <2> HIDE DEF acc
    <2>3. r \in PR /\ r.os = v1[p].os /\ r.acc = acc /\ r.ttl = v1[p].ttl
      BY <1>4, <2>2
    <2> HIDE DEF r
    <2>4. v1' \in [P -> PR] /\ v1'[p] = r /\ \A q \in P : q # p => v1'[q] = v1[q]
      BY <1>0, <2>1, <2>3
    <2>5. v3' \in [Clients -> CR]
      BY <1>4, <2>1, ZenonT(40)
    <2>6. \A c \in Clients : /\ v3'[c].pc = v3[c].pc /\ v3'[c].p = v3[c].p
                             /\ v3'[c].base = v3[c].base /\ v3'[c].heard = v3[c].heard
                             /\ v3'[c].news = IF Waits(c) THEN TRUE ELSE v3[c].news
      BY <1>4, <2>1
    <2> HIDE DEF Waits
    <2>7. \A q \in P : v1'[q].os = v1[q].os /\ v1'[q].ttl = v1[q].ttl
      BY <2>3, <2>4
    <2>8. Host!TypeOK'
      BY <1>0, <1>t, <2>1, <2>4, <2>5
    <2>9. Host!Creating'
      BY <1>0, <1>1, <2>1, <2>6, <2>7 DEF Host!Creating, Host!At
    <2>10. Host!NewsIsHeld'
      <3>1. ASSUME NEW c \in Clients, v3'[c].pc \in {"wait", "timed_out"}
            PROVE  /\ v3'[c].base <= v1'[v3'[c].p].acc
                   /\ v3'[c].news => v3'[c].base < v1'[v3'[c].p].acc \/ v3'[c].base = MaxBuff
                   /\ v3'[c].heard => v3'[c].base = MaxBuff
        <4>1. /\ v3[c].pc \in {"wait", "timed_out"} /\ v3[c].p \in P
              /\ v3'[c].p = v3[c].p /\ v3'[c].base = v3[c].base /\ v3'[c].heard = v3[c].heard
          BY <1>1, <2>6, <3>1
        <4>2. CASE v3[c].p = p
          BY <1>2, <1>4, <2>2, <2>3, <2>4, <2>6, <4>1, <4>2
        <4>3. CASE v3[c].p # p
          BY <1>2, <2>4, <2>6, <4>1, <4>3 DEF Waits
        <4>4. QED
          BY <4>2, <4>3
      <3>2. QED
        BY <3>1 DEF Host!NewsIsHeld
    <2>11. Host!Supervised'
      BY <1>3, <2>1, <2>6, <2>7 DEF Host!Supervised, Host!At
    <2>12. {d \in Clients : v3'[d].pc = "creating"} \subseteq {d \in Clients : v3[d].pc = "creating"}
      BY <2>6
    <2>13. Host!SpawnsBounded'
      BY <1>0, <2>1, <2>12, HostCountStays
    <2>14. QED
      BY <1>i, <2>8, <2>9, <2>10, <2>11, <2>13
  <1>8. ASSUME NEW p \in P, NEW c \in Clients, Host!Spawn(c, p) PROVE Host!IInv'
    <2> DEFINE r == [v1[p] EXCEPT !.os = "creating"]
               k == [Host!NoCall EXCEPT !.pc = "creating", !.p = p]
    <2>1. /\ v3[c].pc = "idle" /\ v1[p].os = "none" /\ ~Host!Full(v2) /\ UNCHANGED <<v2, v4>>
          /\ v1' = [v1 EXCEPT ![p] = r] /\ v3' = [v3 EXCEPT ![c] = k]
      BY <1>8 DEF Host!Spawn, Host!At
    <2>2. r \in PR /\ r.os = "creating" /\ k \in CR /\ k.pc = "creating" /\ k.p = p
      <3>1. Host!NoCall \in CR
        BY <1>0 DEF Host!NoCall
      <3>2. k \in CR /\ k.pc = "creating" /\ k.p = p
        BY <3>1
      <3>3. r \in PR /\ r.os = "creating"
        BY <1>4
      <3>4. QED
        BY <3>2, <3>3
    <2> HIDE DEF r, k
    <2>3. /\ v1' \in [P -> PR] /\ v1'[p] = r /\ \A q \in P : q # p => v1'[q] = v1[q]
          /\ v3' \in [Clients -> CR] /\ v3'[c] = k /\ \A d \in Clients : d # c => v3'[d] = v3[d]
      BY <1>0, <2>1, <2>2
    <2>4. Host!TypeOK'
      BY <1>0, <1>t, <2>1, <2>3
    <2>5. \A d \in Clients : d # c /\ v3[d].pc # "idle" => v3[d].p # p
      BY <1>1, <1>w, <2>1
    <2>6. Host!Creating'
      BY <1>0, <1>1, <2>1, <2>2, <2>3, <2>5 DEF Host!Creating, Host!At
    <2>7. Host!NewsIsHeld'
      BY <1>1, <1>2, <2>2, <2>3, <2>5 DEF Host!NewsIsHeld
    <2>8. Host!Supervised'
      BY <1>3, <2>1, <2>2, <2>3 DEF Host!Supervised, Host!At
    <2>9. Host!SpawnsBounded'
      BY <1>0, <2>1, HostCountSpawn
    <2>10. QED
      BY <1>i, <2>4, <2>6, <2>7, <2>8, <2>9
  <1>9. ASSUME NEW c \in Clients, Host!Spawned(c) PROVE Host!IInv'
    <2> DEFINE p == v3[c].p
               r == [Host!NoProc EXCEPT !.os = "runs", !.pumps = TRUE, !.ttl = TRUE]
    <2>1. /\ v3[c].pc = "creating" /\ v4' = v4 /\ v2' = v2 \cup {p}
          /\ v1' = [v1 EXCEPT ![p] = r] /\ v3' = [v3 EXCEPT ![c] = Host!NoCall]
      BY <1>9 DEF Host!Spawned, Host!At
    <2>2. /\ r \in PR /\ r.os = "runs" /\ r.ttl /\ Host!NoCall \in CR /\ Host!NoCall.pc = "idle"
      <3>1. Host!NoProc \in PR /\ Host!NoCall \in CR /\ Host!NoCall.pc = "idle"
        BY <1>0 DEF Host!NoCall, Host!NoProc
      <3>2. QED
        BY <3>1
    <2>3. p \in P /\ v1[p].os = "creating"
      BY <1>1, <2>1
    <2> HIDE DEF r, p
    <2>4. /\ v1' \in [P -> PR] /\ v1'[p] = r /\ \A q \in P : q # p => v1'[q] = v1[q]
          /\ v3' \in [Clients -> CR] /\ v3'[c] = Host!NoCall /\ \A d \in Clients : d # c => v3'[d] = v3[d]
      BY <1>0, <2>1, <2>2, <2>3
    <2>5. Host!IsFiniteSet(v2') /\ Host!SpawnsBounded'
      BY <1>0, <2>1, <2>2, <2>4, HostCountSpawned
    <2>6. Host!TypeOK'
      BY <1>0, <1>t, <2>1, <2>3, <2>4, <2>5
    <2>7. \A d \in Clients : d # c /\ v3[d].pc # "idle" => v3[d].p # p
      BY <1>1, <1>w, <2>1, <2>3 DEF p
    <2>8. Host!Creating'
      BY <1>0, <1>1, <2>1, <2>2, <2>3, <2>4, <2>7 DEF Host!Creating, Host!At
    <2>9. Host!NewsIsHeld'
      BY <1>1, <1>2, <2>2, <2>4, <2>7 DEF Host!NewsIsHeld
    <2>10. Host!Supervised'
      BY <1>3, <2>1, <2>2, <2>4 DEF Host!Supervised, Host!At
    <2>11. QED
      BY <1>i, <2>5, <2>6, <2>8, <2>9, <2>10
  <1>10. ASSUME NEW c \in Clients, Host!SpawnFails(c) PROVE Host!IInv'
    <2> DEFINE p == v3[c].p
    <2>1. /\ v3[c].pc = "creating" /\ UNCHANGED <<v2, v4>>
          /\ v1' = [v1 EXCEPT ![p] = Host!NoProc] /\ v3' = [v3 EXCEPT ![c] = Host!NoCall]
      BY <1>10 DEF Host!SpawnFails, Host!At
    <2>2. /\ Host!NoProc \in PR /\ Host!NoProc.os = "none" /\ Host!NoCall \in CR /\ Host!NoCall.pc = "idle"
      BY <1>0 DEF Host!NoCall, Host!NoProc
    <2>3. p \in P /\ v1[p].os = "creating"
      BY <1>1, <2>1
    <2>4. /\ v1' \in [P -> PR] /\ v1'[p] = Host!NoProc /\ \A q \in P : q # p => v1'[q] = v1[q]
          /\ v3' \in [Clients -> CR] /\ v3'[c] = Host!NoCall /\ \A d \in Clients : d # c => v3'[d] = v3[d]
      BY <1>0, <2>1, <2>2, <2>3
    <2>5. {d \in Clients : v3'[d].pc = "creating"} \subseteq {d \in Clients : v3[d].pc = "creating"}
      BY <2>2, <2>4
    <2>6. Host!SpawnsBounded'
      BY <1>0, <2>1, <2>5, HostCountStays
    <2>7. Host!TypeOK'
      BY <1>0, <1>t, <2>1, <2>4
    <2>8. \A d \in Clients : d # c /\ v3[d].pc # "idle" => v3[d].p # p
      BY <1>1, <1>w, <2>1, <2>3
    <2>9. p \notin v2
      BY <1>1, <2>3
    <2> HIDE DEF p
    <2>10. Host!Creating'
      BY <1>0, <1>1, <2>1, <2>2, <2>3, <2>4, <2>8, <2>9 DEF Host!Creating, Host!At
    <2>11. Host!NewsIsHeld'
      BY <1>1, <1>2, <2>2, <2>4, <2>8 DEF Host!NewsIsHeld
    <2>12. Host!Supervised'
      BY <1>3, <2>1, <2>2, <2>4 DEF Host!Supervised, Host!At
    <2>13. QED
      BY <1>i, <2>6, <2>7, <2>10, <2>11, <2>12
  <1>11. ASSUME NEW c \in Clients, NEW p \in P, Host!Kill(c, p) PROVE Host!IInv'
    <2> DEFINE told == [v1[p] EXCEPT !.pumps = FALSE, !.ttl = FALSE]
               killed == [told EXCEPT !.os = IF told.os = "runs" THEN "dying" ELSE told.os]
               k == [Host!NoCall EXCEPT !.pc = "told", !.p = p]
    <2>1. v3[c].pc = "idle" /\ p \in v2 /\ v4' = v4 /\ v1[p].os \in up
      BY <1>1, <1>11 DEF Host!Kill, Host!At
    <2>2. told \in PR /\ told.os = v1[p].os /\ told.acc = v1[p].acc
      BY <1>4
    <2>3. CASE v1[p].os \in {"runs", "dying"}
      <3>1. /\ v1' = [v1 EXCEPT ![p] = told] \/ v1' = [v1 EXCEPT ![p] = killed]
            /\ v3' = [v3 EXCEPT ![c] = k] /\ v2' = v2
        BY <1>11, <2>3 DEF Host!Kill, Host!Alive, Host!Killed
      <3>2. Host!NoCall \in CR
        BY <1>0 DEF Host!NoCall
      <3>3. k \in CR /\ k.pc = "told" /\ k.p = p
        BY <3>2
      <3>4. killed \in PR /\ killed.os = "dying" /\ killed.acc = v1[p].acc
        BY <2>2, <2>3
      <3> HIDE DEF told, killed, k
      <3>5. PICK r \in PR : /\ v1' = [v1 EXCEPT ![p] = r] /\ r.acc = v1[p].acc
                            /\ r.os = v1[p].os \/ r.os = "dying"
        BY <2>2, <3>1, <3>4
      <3>6. /\ v1' \in [P -> PR] /\ v1'[p] = r /\ \A q \in P : q # p => v1'[q] = v1[q]
            /\ v3' \in [Clients -> CR] /\ v3'[c] = k /\ \A d \in Clients : d # c => v3'[d] = v3[d]
        BY <1>0, <3>1, <3>3, <3>5
      <3>7. /\ \A q \in P : v1'[q].acc = v1[q].acc /\ (v1[q].os \in up => v1'[q].os \in up)
            /\ \A q \in P : v1[q].os = "creating" => v1'[q].os = "creating"
            /\ \A q \in P : v1[q].os \in {"dying", "ended"} => v1'[q].os \in {"dying", "ended"}
            /\ \A q \in P : v1'[q].os = "runs" => v1[q].os = "runs"
            /\ \A q \in P : q # p => v1'[q].ttl = v1[q].ttl
        BY <2>3, <3>5, <3>6
      <3>8. {d \in Clients : v3'[d].pc = "creating"} \subseteq {d \in Clients : v3[d].pc = "creating"}
        BY <3>3, <3>6
      <3>9. Host!SpawnsBounded'
        BY <1>0, <3>1, <3>8, HostCountStays
      <3>10. Host!TypeOK'
        BY <1>0, <1>t, <2>1, <3>1, <3>6
      <3>11. Host!Creating'
        BY <1>0, <1>1, <2>1, <3>1, <3>3, <3>6, <3>7 DEF Host!Creating, Host!At
      <3>12. Host!NewsIsHeld'
        BY <1>1, <1>2, <3>3, <3>6, <3>7 DEF Host!NewsIsHeld
      <3>13. Host!Supervised'
        <4>1. ASSUME NEW q \in P, v1'[q].os = "runs"
              PROVE  \/ q \in v2 /\ v1'[q].ttl
                     \/ \E d \in Clients : v3'[d].pc = "told" /\ v3'[d].p = q
                     \/ q \in v4
          <5>1. CASE q = p
            BY <3>3, <3>6, <5>1
          <5>2. CASE q # p
            BY <1>3, <2>1, <3>6, <3>7, <4>1, <5>2
          <5>3. QED
            BY <5>1, <5>2
        <4>2. QED
          BY <2>1, <3>1, <4>1 DEF Host!Supervised, Host!At
      <3>14. QED
        BY <1>i, <3>9, <3>10, <3>11, <3>12, <3>13
    <2>4. CASE v1[p].os \notin {"runs", "dying"}
      <3>1. v1' = [v1 EXCEPT ![p] = told] /\ v2' = v2 \ {p} /\ v3' = v3
        BY <1>11, <2>4 DEF Host!Kill, Host!Alive
      <3>2. v1[p].os = "ended"
        BY <2>1, <2>4
      <3> HIDE DEF told
      <3>3. v1' \in [P -> PR] /\ v1'[p] = told /\ \A q \in P : q # p => v1'[q] = v1[q]
        BY <1>0, <2>2, <3>1
      <3>4. \A q \in P : v1'[q].os = v1[q].os /\ v1'[q].acc = v1[q].acc
        BY <2>2, <3>3
      <3>5. Host!IsFiniteSet(v2') /\ Host!SpawnsBounded'
        BY <1>0, <3>1, HostCountStays
      <3>6. Host!TypeOK'
        BY <1>0, <1>t, <2>1, <3>1, <3>3, <3>5
      <3>7. Host!Creating'
        BY <1>0, <1>1, <3>1, <3>4 DEF Host!Creating, Host!At
      <3>8. Host!NewsIsHeld'
        BY <1>1, <1>2, <3>1, <3>4 DEF Host!NewsIsHeld
      <3>9. Host!Supervised'
        BY <1>3, <2>1, <3>1, <3>2, <3>3, <3>4 DEF Host!Supervised, Host!At
      <3>10. QED
        BY <1>i, <3>5, <3>6, <3>7, <3>8, <3>9
    <2>5. QED
      BY <2>3, <2>4
  \* The end of a kill, which takes the entry of its process out.
  <1>k. ASSUME NEW c \in Clients, v3[c].pc \in {"told", "killing"}, Host!Pops(c), v1' = v1,
               v4 \subseteq v4', v4' \subseteq P,
               v1[v3[c].p].os = "runs" => v3[c].p \in v4'
        PROVE  Host!IInv'
    <2> DEFINE p == v3[c].p
    <2>1. v2' = v2 \ {p} /\ v3' = [v3 EXCEPT ![c] = Host!NoCall] /\ p \in P
      BY <1>1, <1>k DEF Host!Pops
    <2>2. Host!NoCall \in CR /\ Host!NoCall.pc = "idle"
      BY <1>0 DEF Host!NoCall
    <2>3. v3' \in [Clients -> CR] /\ v3'[c] = Host!NoCall /\ \A d \in Clients : d # c => v3'[d] = v3[d]
      BY <1>0, <2>1, <2>2
    <2>4. {d \in Clients : v3'[d].pc = "creating"} \subseteq {d \in Clients : v3[d].pc = "creating"}
      BY <2>2, <2>3
    <2>5. Host!IsFiniteSet(v2') /\ Host!SpawnsBounded'
      BY <1>0, <2>1, <2>4, HostCountStays
    <2>6. Host!TypeOK'
      BY <1>0, <1>k, <1>t, <2>1, <2>3, <2>5
    <2>7. Host!Creating'
      BY <1>1, <1>k, <2>1, <2>2, <2>3 DEF Host!Creating, Host!At
    <2>8. Host!NewsIsHeld'
      BY <1>2, <1>k, <2>2, <2>3 DEF Host!NewsIsHeld
    <2>9. Host!Supervised'
      BY <1>3, <1>k, <2>1, <2>3 DEF Host!Supervised, Host!At
    <2>10. QED
      BY <1>i, <2>5, <2>6, <2>7, <2>8, <2>9
  <1>12. ASSUME NEW c \in Clients, Host!KillWaited(c) PROVE Host!IInv'
    <2>1. v3[c].pc \in {"told", "killing"} /\ v1[v3[c].p].os = "ended" /\ Host!Pops(c) /\ UNCHANGED <<v1, v4>>
      BY <1>12 DEF Host!KillWaited
    <2>2. QED
      BY <1>0, <1>k, <2>1
  <1>13. ASSUME NEW c \in Clients, Host!KillCancelled(c) PROVE Host!IInv'
    <2>1. /\ v3[c].pc \in {"told", "killing"} /\ Host!Pops(c) /\ v1' = v1
          /\ v4' = IF v3[c].pc = "told" THEN v4 \cup {v3[c].p} ELSE v4
      BY <1>13 DEF Host!KillCancelled, Host!At
    <2>2. v1[v3[c].p].os = "runs" => v3[c].p \in v4'
      BY <1>1, <2>1
    <2>3. v4 \subseteq v4' /\ v4' \subseteq P
      BY <1>0, <1>1, <2>1
    <2>4. QED
      BY <1>k, <2>1, <2>2, <2>3
  <1>14. ASSUME NEW c \in Clients, Host!KillTimesOut(c) PROVE Host!IInv'
    <2> DEFINE p == v3[c].p
               os == IF v1[p].os = "runs" THEN "dying" ELSE v1[p].os
               r == [v1[p] EXCEPT !.os = os]
               k == [v3[c] EXCEPT !.pc = "killing"]
    <2>1. /\ v3[c].pc = "told" /\ v1[p].os \in {"runs", "dying"} /\ UNCHANGED <<v2, v4>>
          /\ v1' = [v1 EXCEPT ![p] = r] /\ v3' = [v3 EXCEPT ![c] = k]
      BY <1>14 DEF Host!KillTimesOut, Host!At, Host!Alive, Host!AfterWait, Host!Killed
    <2>2. p \in P /\ os = "dying"
      BY <1>1, <2>1
    <2> HIDE DEF os
    <2>3. r \in PR /\ r.os = "dying" /\ r.acc = v1[p].acc
      BY <1>4, <2>2
    <2>4. k \in CR /\ k.pc = "killing" /\ k.p = p
      BY <1>4
    <2> HIDE DEF r, k, p
    <2>5. /\ v1' \in [P -> PR] /\ v1'[p] = r /\ \A q \in P : q # p => v1'[q] = v1[q]
          /\ v3' \in [Clients -> CR] /\ v3'[c] = k /\ \A d \in Clients : d # c => v3'[d] = v3[d]
      BY <1>0, <2>1, <2>2, <2>3, <2>4
    <2>6. /\ \A q \in P : v1'[q].acc = v1[q].acc /\ (v1[q].os \in up => v1'[q].os \in up)
          /\ \A q \in P : v1[q].os = "creating" => v1'[q].os = "creating"
          /\ \A q \in P : v1[q].os \in {"dying", "ended"} => v1'[q].os \in {"dying", "ended"}
          /\ \A q \in P : v1'[q].os = "runs" => q # p /\ v1[q].os = "runs" /\ v1'[q].ttl = v1[q].ttl
      BY <2>1, <2>3, <2>5
    <2>7. {d \in Clients : v3'[d].pc = "creating"} \subseteq {d \in Clients : v3[d].pc = "creating"}
      BY <2>4, <2>5
    <2>8. Host!SpawnsBounded'
      BY <1>0, <2>1, <2>7, HostCountStays
    <2>9. Host!TypeOK'
      BY <1>0, <1>t, <2>1, <2>5
    <2>10. Host!Creating'
      BY <1>0, <1>1, <2>1, <2>2, <2>3, <2>4, <2>5, <2>6 DEF Host!Creating, Host!At
    <2>11. Host!NewsIsHeld'
      BY <1>1, <1>2, <2>4, <2>5, <2>6 DEF Host!NewsIsHeld
    <2>12. Host!Supervised'
      BY <1>3, <2>1, <2>5, <2>6 DEF Host!Supervised, Host!At, p
    <2>13. QED
      BY <1>i, <2>8, <2>9, <2>10, <2>11, <2>12
  <1>15. ASSUME NEW c \in Clients, NEW p \in P, Host!Wait(c, p) PROVE Host!IInv'
    <2> DEFINE r == [Host!NoCall EXCEPT !.pc = "wait", !.p = p, !.base = v1[p].acc]
    <2>1. v3[c].pc = "idle" /\ p \in v2 /\ v3' = [v3 EXCEPT ![c] = r] /\ UNCHANGED <<v1, v2, v4>>
      BY <1>15 DEF Host!Wait, Host!At
    <2>2. Host!NoCall \in CR /\ ~Host!NoCall.news /\ ~Host!NoCall.heard
      BY <1>0 DEF Host!NoCall
    <2>3. v1[p].acc \in 0..MaxBuff /\ v1[p].acc <= v1[p].acc /\ v1[p].os \in up
      BY <1>1, <1>4, <2>1
    <2>4. r \in CR /\ r.pc = "wait" /\ r.p = p /\ r.base = v1[p].acc /\ ~r.news /\ ~r.heard
      BY <2>2, <2>3
    <2> HIDE DEF r
    <2>5. QED
      BY <1>c, <2>1, <2>3, <2>4
  <1>16. ASSUME NEW c \in Clients, v3[c].pc \in {"wait", "timed_out"}, UNCHANGED <<v1, v2, v4>>,
                v3' = [v3 EXCEPT ![c] = Host!NoCall]
         PROVE  Host!IInv'
    <2>1. Host!NoCall \in CR /\ Host!NoCall.pc = "idle"
      BY <1>0 DEF Host!NoCall
    <2>2. QED
      BY <1>c, <1>16, <2>1
  <1>17. ASSUME NEW c \in Clients, Host!Poll(c) PROVE Host!IInv'
    <2> DEFINE r == [v3[c] EXCEPT !.heard = v3[c].news]
    <2>1. /\ v3[c].pc = "wait" /\ UNCHANGED <<v1, v2, v4>>
          /\ \/ v3' = [v3 EXCEPT ![c] = Host!NoCall]
             \/ ~(v1[v3[c].p].acc > v3[c].base) /\ v3' = [v3 EXCEPT ![c] = r]
      BY <1>17 DEF Host!Poll, Host!At
    <2>2. r \in CR /\ r.pc = "wait" /\ r.p = v3[c].p /\ r.base = v3[c].base /\ r.news = v3[c].news
          /\ r.heard = v3[c].news
      BY <1>4, <2>1
    <2> HIDE DEF r
    <2>3. CASE ~(v1[v3[c].p].acc > v3[c].base) /\ v3' = [v3 EXCEPT ![c] = r]
      <3>1. v3[c].p \in P /\ v1[v3[c].p].os \in up
        BY <1>1, <2>1
      <3>2. v1[v3[c].p].acc \in Nat /\ v3[c].base \in Nat
        BY <1>4, <3>1
      <3>3. /\ v3[c].base <= v1[v3[c].p].acc
            /\ v3[c].news => v3[c].base = MaxBuff
        BY <1>2, <2>1, <2>3, <3>2
      <3>4. QED
        BY <1>c, <2>1, <2>2, <2>3, <3>1, <3>3
    <2>4. QED
      BY <1>16, <2>1, <2>3
  <1>18. ASSUME NEW c \in Clients, Host!Deadline(c) PROVE Host!IInv'
    <2> DEFINE r == [v3[c] EXCEPT !.pc = "timed_out"]
    <2>1. v3[c].pc = "wait" /\ UNCHANGED <<v1, v2, v4>> /\ v3' = [v3 EXCEPT ![c] = r]
      BY <1>18 DEF Host!Deadline, Host!At
    <2>2. /\ r \in CR /\ r.pc = "timed_out" /\ r.p = v3[c].p /\ r.base = v3[c].base /\ r.news = v3[c].news
          /\ r.heard = v3[c].heard
      BY <1>4
    <2> HIDE DEF r
    <2>3. QED
      BY <1>1, <1>2, <1>c, <2>1, <2>2
  <1>19. ASSUME NEW c \in Clients, Host!WaitEnds(c) PROVE Host!IInv'
    BY <1>16, <1>19 DEF Host!WaitEnds
  <1>20. CASE UNCHANGED Host!vars
    <2>1. UNCHANGED <<v1, v2, v3, v4>>
      BY <1>20 DEF Host!vars
    <2>2. Host!IsFiniteSet(v2') /\ Host!SpawnsBounded'
      BY <1>0, <2>1, HostCountStays
    <2>3. Host!TypeOK'
      BY <1>0, <1>t, <2>1
    <2>4. Host!Creating' /\ Host!NewsIsHeld' /\ Host!Supervised'
      BY <2>1 DEF Host!IInv, Host!Creating, Host!NewsIsHeld, Host!Supervised, Host!At
    <2>5. QED
      BY <1>i, <2>2, <2>3, <2>4
  <1>21. QED
    BY <1>5, <1>6, <1>7, <1>8, <1>9, <1>10, <1>11, <1>12, <1>13, <1>14, <1>15, <1>17, <1>18, <1>19, <1>20
       DEF Host!Next

\* A wait that ran out heard nothing: what came is in the buffer, or the buffer was full.
LEMMA HostTells == Host!IInv => Host!Supervised /\ Host!SpawnsBounded /\ Host!TimedOutHeardNothing
  BY DEF Host!IInv, Host!NewsIsHeld, Host!TimedOutHeardNothing, Host!At

-----------------------------------------------------------------------------
(***************************************************************************)
(* Project panel (projects v1, files v2, active v3, selected v4, fileTrees *)
(* v5, pendingRequests v6, selecting v7, creating v8, changing v9,         *)
(* debounce v10, told v11, doubt v12, spent v13)                           *)
(***************************************************************************)
\* A sequence without one of its elements has the others in their order.
LEMMA PanelWithout ==
  ASSUME NEW S, NEW s \in Seq(S), NEW i \in 1..Len(s), NEW t, t = Panel!Without(s, i)
  PROVE  /\ t \in Seq(S) /\ Len(t) = Len(s) - 1 /\ DOMAIN t = 1..Len(s) - 1
         /\ \A j \in DOMAIN t : IF j < i THEN t[j] = s[j] /\ j \in DOMAIN s
                                ELSE t[j] = s[j + 1] /\ j + 1 \in DOMAIN s
  <1>1. /\ Len(s) \in Nat /\ DOMAIN s = 1..Len(s) /\ Len(s) - 1 \in Nat
        /\ \A j \in 1..Len(s) : s[j] \in S
    OBVIOUS
  <1> DEFINE n == Len(s) - 1
  <1>2. n \in Nat /\ \A j \in 1..n : j \in 1..Len(s) /\ j + 1 \in 1..Len(s)
    BY <1>1
  <1>3. t = [j \in 1..n |-> IF j < i THEN s[j] ELSE s[j + 1]]
    BY DEF Panel!Without
  <1> HIDE DEF n
  <1>4. t \in Seq(S) /\ Len(t) = n /\ DOMAIN t = 1..n
    BY <1>1, <1>2, <1>3
  <1>5. QED
    BY <1>1, <1>2, <1>3, <1>4 DEF n

\* After a tree was asked for it is there, or the request for it will bring all
\* that the panel was told of.
LEMMA PanelLoads ==
  ASSUME Panel!TypeOK, Panel!loadProjectTree(v4), UNCHANGED <<v4, v11>>
  PROVE  /\ v6' \subseteq [of : Clients, read : Nat \cup {Panel!Asked}]
         /\ v12' = {} => v12 = {}
         /\ v12' = {} =>
               /\ \A r \in Panel!Requests(v4)' : Panel!Fresh(r)'
               /\ \/ Panel!Requests(v4)' # {}
                  \/ v5'.of = v4' /\ (v4' # None => v5'.version >= v11'[v4'])
  <1>1. v6 \subseteq [of : Clients, read : Nat \cup {Panel!Asked}] /\ v4 \in Clients \cup {None} /\ None \notin Clients
    BY NamesAssumption DEF Panel!TypeOK
  <1>2. CASE v4 = None
    <2>1. v5'.of = None /\ UNCHANGED <<v6, v12>>
      BY <1>2 DEF Panel!loadProjectTree, Panel!NoTree
    <2>2. Panel!Requests(v4)' = {}
      BY <1>1, <1>2, <2>1 DEF Panel!Requests
    <2>3. QED
      BY <1>1, <1>2, <2>1, <2>2
  <1>3. CASE v4 # None /\ Panel!Requests(v4) = {}
    <2> DEFINE new == [of |-> v4, read |-> Panel!Asked]
    <2>1. v6' = v6 \cup {new} /\ UNCHANGED <<v5, v12>>
      BY <1>3 DEF Panel!loadProjectTree, Panel!makeRequest
    <2>2. new \in [of : Clients, read : Nat \cup {Panel!Asked}] /\ new.of = v4 /\ new.read = Panel!Asked
      BY <1>1, <1>3
    <2> HIDE DEF new
    <2>3. Panel!Requests(v4)' = {new}
      BY <1>3, <2>1, <2>2 DEF Panel!Requests
    <2>4. QED
      BY <1>1, <2>1, <2>2, <2>3 DEF Panel!Fresh
  <1>4. CASE v4 # None /\ Panel!Requests(v4) # {}
    <2>1. /\ UNCHANGED <<v5, v6>>
          /\ v12' = v12 \cup (IF \E r \in Panel!Requests(v4) : r.read # Panel!Asked THEN {"joined"} ELSE {})
      BY <1>4 DEF Panel!loadProjectTree, Panel!makeRequest, Panel!Doubts
    <2>2. v12' = {} => v12 = {} /\ \A r \in Panel!Requests(v4) : r.read = Panel!Asked
      BY <2>1
    <2>3. Panel!Requests(v4)' = Panel!Requests(v4)
      BY <2>1 DEF Panel!Requests
    <2>4. QED
      BY <1>1, <1>4, <2>1, <2>2, <2>3 DEF Panel!Fresh
  <1>5. QED
    BY <1>2, <1>3, <1>4

\* At first the panel shows no project.
LEMMA PanelInit == Panel!Init => Panel!IInv
  <1> SUFFICES ASSUME Panel!Init PROVE Panel!IInv
    OBVIOUS
  <1>1. Panel!TypeOK
    BY DEF Panel!Init, Panel!TypeOK, Panel!NotCreating
  <1>2. Panel!PostsInOrder
    BY DEF Panel!Init, Panel!PostsInOrder
  <1>3. Panel!TreeComes
    BY DEF Panel!Init, Panel!TreeComes, Panel!Requests, Panel!NoTree
  <1>4. QED
    BY <1>1, <1>2, <1>3 DEF Panel!IInv

\* Every click, every answer, every change and every fault keep the invariant.
LEMMA PanelStep == Panel!IInv /\ [Panel!Next]_(Panel!vars) => Panel!IInv'
  <1> SUFFICES ASSUME Panel!IInv, [Panel!Next]_(Panel!vars) PROVE Panel!IInv'
    OBVIOUS
  <1> DEFINE RR == [of : Clients, read : Nat \cup {Panel!Asked}]
             SR == [project : Clients \cup {None}, pc : {"out", "answered"}]
  <1>0. /\ Panel!TypeOK /\ Panel!PostsInOrder /\ Panel!TreeComes
        /\ v1 \subseteq Clients /\ v4 \in Clients \cup {None} /\ None \notin Clients
        /\ v2 \in [Clients -> Nat] /\ v11 \in [Clients -> Nat]
        /\ \A p \in Clients : v11[p] <= v2[p] /\ v2[p] \in Nat /\ v11[p] \in Nat
        /\ v6 \subseteq RR
        /\ \A c \in v9 : c.project \in Clients /\ c.version \in 0..v2[c.project]
        /\ v8.pc # "idle" => v8.project \in Clients
    BY NamesAssumption DEF Panel!IInv, Panel!TypeOK
  <1>1. v12 = {} =>
          /\ v7 \in Seq(SR)
          /\ \A i, j \in DOMAIN v7 : i < j /\ v7[j].pc = "answered" => v7[i].pc = "answered"
          /\ \A i \in DOMAIN v7 : i = Len(v7) /\ v7[i].pc = "out" => v7[i].project = v4
          /\ (\A i \in DOMAIN v7 : v7[i].pc = "answered") => v3 = v4
    BY <1>0 DEF Panel!PostsInOrder
  <1>i. ASSUME Panel!TypeOK', Panel!PostsInOrder', Panel!TreeComes' PROVE Panel!IInv'
    BY <1>i DEF Panel!IInv
  <1>t. ASSUME UNCHANGED <<v1, v2, v8, v9, v11>>, v4' \in Clients \cup {None}, v6' \subseteq RR
        PROVE  Panel!TypeOK'
    BY <1>0, <1>t DEF Panel!TypeOK
  <1>o. ASSUME UNCHANGED <<v3, v4, v7>>, v12' = {} => v12 = {}
        PROVE  Panel!PostsInOrder'
    BY <1>0, <1>o DEF Panel!PostsInOrder
  \* Doubts only grow.
  <1>d. ASSUME v12' # {} PROVE Panel!PostsInOrder' /\ Panel!TreeComes'
    BY <1>d DEF Panel!PostsInOrder, Panel!TreeComes
  <1>2. CASE Panel!mounted
    <2>1. /\ UNCHANGED <<v1, v2, v3, v11>> /\ v4' = None /\ v5' = Panel!NoTree /\ v6' = {} /\ v9' = {}
          /\ v8' = Panel!NotCreating
          /\ v7' = [i \in DOMAIN Panel!Sent |-> [Panel!Sent[i] EXCEPT !.pc = "left"]]
          /\ v12' = IF v3 = None /\ Panel!Sent = <<>> THEN {} ELSE {"opened"}
      BY <1>2 DEF Panel!mounted, Panel!core
    <2>2. Panel!TypeOK'
      BY <1>0, <2>1 DEF Panel!TypeOK, Panel!NotCreating
    <2>3. Panel!PostsInOrder' /\ Panel!TreeComes'
      <3>1. CASE v3 = None /\ Panel!Sent = <<>>
        <4>1. DOMAIN v7' = {}
          BY <2>1, <3>1
        <4>2. v7' = <<>> /\ v3' = v4'
          BY <2>1, <3>1
        <4>3. Panel!PostsInOrder'
          BY <4>1, <4>2 DEF Panel!PostsInOrder
        <4>4. Panel!Requests(v4)' = {} /\ v5'.of = v4' /\ v4' = None
          BY <2>1 DEF Panel!Requests, Panel!NoTree
        <4>5. Panel!TreeComes'
          BY <4>4 DEF Panel!TreeComes
        <4>6. QED
          BY <4>3, <4>5
      <3>2. CASE ~(v3 = None /\ Panel!Sent = <<>>)
        BY <1>d, <2>1, <3>2
      <3>3. QED
        BY <3>1, <3>2
    <2>4. QED
      BY <1>i, <2>2, <2>3
  <1>3. CASE Panel!createProject
    <2>1. v8.pc = "asked" /\ v8' = [v8 EXCEPT !.pc = "listing"] /\ v4' = v8.project
          /\ v12' = v12 \cup {"created"} /\ UNCHANGED <<v1, v2, v6, v9, v11>>
      BY <1>3 DEF Panel!createProject, Panel!Doubts, Panel!core
    <2>2. Panel!TypeOK'
      <3>1. v4' \in Clients /\ v8'.project = v8.project
        BY <1>0, <2>1
      <3>2. QED
        BY <1>0, <2>1, <3>1 DEF Panel!TypeOK
    <2>3. QED
      BY <1>d, <1>i, <2>1, <2>2
  <1>4. CASE Panel!fetchProjects
    <2>1. v8' = Panel!NotCreating /\ Panel!loadProjectTree(v4) /\ UNCHANGED <<v1, v2, v3, v4, v7, v9, v10, v11>>
      BY <1>4 DEF Panel!fetchProjects, Panel!core
    <2>2. /\ v6' \subseteq RR /\ (v12' = {} => v12 = {})
          /\ v12' = {} =>
               /\ \A r \in Panel!Requests(v4)' : Panel!Fresh(r)'
               /\ \/ Panel!Requests(v4)' # {}
                  \/ v5'.of = v4' /\ (v4' # None => v5'.version >= v11'[v4'])
      BY <1>0, <2>1, PanelLoads
    <2>3. Panel!TypeOK'
      BY <1>0, <2>1, <2>2 DEF Panel!TypeOK, Panel!NotCreating
    <2>4. Panel!PostsInOrder'
      BY <1>o, <2>1, <2>2
    <2>5. Panel!TreeComes'
      BY <2>2 DEF Panel!TreeComes
    <2>6. QED
      BY <1>i, <2>3, <2>4, <2>5
  <1>5. CASE Panel!debounceLoadFiles
    <2>1. Panel!loadProjectTree(v4) /\ UNCHANGED <<v1, v2, v3, v4, v7, v8, v9, v11>>
      BY <1>5 DEF Panel!debounceLoadFiles, Panel!core
    <2>2. /\ v6' \subseteq RR /\ (v12' = {} => v12 = {})
          /\ v12' = {} =>
               /\ \A r \in Panel!Requests(v4)' : Panel!Fresh(r)'
               /\ \/ Panel!Requests(v4)' # {}
                  \/ v5'.of = v4' /\ (v4' # None => v5'.version >= v11'[v4'])
      BY <1>0, <2>1, PanelLoads
    <2>3. Panel!TypeOK'
      BY <1>0, <1>t, <2>1, <2>2
    <2>4. Panel!PostsInOrder'
      BY <1>o, <2>1, <2>2
    <2>5. Panel!TreeComes'
      BY <2>2 DEF Panel!TreeComes
    <2>6. QED
      BY <1>i, <2>3, <2>4, <2>5
  <1>6. ASSUME NEW r \in v6, Panel!file_tree(r) PROVE Panel!IInv'
    <2> DEFINE read == [r EXCEPT !.read = v2[r.of]]
    <2>1. v6' = (v6 \ {r}) \cup {read} /\ UNCHANGED <<v1, v2, v3, v4, v5, v7, v8, v9, v10, v11, v12>>
      BY <1>6 DEF Panel!file_tree, Panel!core, Panel!panel
    <2>2. r \in RR /\ r.of \in Clients
      BY <1>0, <1>6
    <2>r. read \in RR /\ read.of = r.of /\ read.read = v2[r.of]
      BY <1>0, <2>2
    <2> HIDE DEF read
    <2>3. PICK new \in RR : v6' = (v6 \ {r}) \cup {new} /\ new.of = r.of /\ new.read = v2[r.of]
      BY <2>1, <2>r
    <2>4. Panel!TypeOK'
      BY <1>0, <1>t, <2>1, <2>3
    <2>5. Panel!PostsInOrder'
      BY <1>o, <2>1
    <2>6. Panel!Fresh(new)' /\ (Panel!Requests(v4) # {} => Panel!Requests(v4)' # {})
      <3>1. new.read >= v11'[new.of]
        BY <1>0, <2>1, <2>2, <2>3
      <3>2. ASSUME NEW s \in Panel!Requests(v4) PROVE \E q \in v6' : q.of = v4'
        <4>1. s \in v6 /\ s.of = v4
          BY DEF Panel!Requests
        <4>2. CASE s = r
          BY <2>1, <2>3, <4>1, <4>2
        <4>3. CASE s # r
          BY <2>3, <4>1, <4>3, <2>1
        <4>4. QED
          BY <4>2, <4>3
      <3>3. Panel!Fresh(new)'
        BY <3>1, <2>1 DEF Panel!Fresh
      <3>4. (\E q \in v6' : q.of = v4') => Panel!Requests(v4)' # {}
        BY DEF Panel!Requests
      <3>5. QED
        BY <3>2, <3>3, <3>4
    <2>7. \A s \in Panel!Requests(v4)' : s \in Panel!Requests(v4) \/ s = new
      BY <2>1, <2>3 DEF Panel!Requests
    <2>8. \A s : Panel!Fresh(s) => Panel!Fresh(s)'
      BY <2>1 DEF Panel!Fresh
    <2>9. Panel!TreeComes'
      <3>1. CASE v12 = {} /\ v7 = <<>> /\ v8.pc # "listing" /\ ~v10
        <4>1. /\ \A s \in Panel!Requests(v4) : Panel!Fresh(s)
              /\ \/ Panel!Requests(v4) # {}
                 \/ v5.of = v4 /\ (v4 # None => v5.version >= v11[v4])
          BY <1>0, <3>1 DEF Panel!TreeComes
        <4>2. \A s \in Panel!Requests(v4)' : Panel!Fresh(s)'
          BY <2>6, <2>7, <2>8, <4>1
        <4>3. \/ Panel!Requests(v4)' # {}
              \/ v5'.of = v4' /\ (v4' # None => v5'.version >= v11'[v4'])
          BY <2>1, <2>6, <4>1
        <4>4. QED
          BY <4>2, <4>3 DEF Panel!TreeComes
      <3>2. QED
        BY <2>1, <3>1 DEF Panel!TreeComes
    <2>10. QED
      BY <1>i, <2>4, <2>5, <2>9
  <1>7. ASSUME NEW r \in v6, Panel!ShowTree(r) PROVE Panel!IInv'
    <2>1. /\ r.read # Panel!Asked /\ v6' = v6 \ {r} /\ v5' = [of |-> r.of, version |-> r.read]
          /\ v12' = v12 \cup (IF r.of = v4 THEN {} ELSE {"crossed"})
          /\ UNCHANGED <<v1, v2, v3, v4, v7, v8, v9, v10, v11>>
      BY <1>7 DEF Panel!ShowTree, Panel!Doubts, Panel!core
    <2>2. Panel!TypeOK'
      BY <1>0, <1>t, <2>1
    <2>3. v12' = {} => v12 = {} /\ r.of = v4
      BY <2>1
    <2>4. Panel!PostsInOrder'
      BY <1>o, <2>1, <2>3
    <2>5. Panel!TreeComes'
      <3>1. SUFFICES ASSUME v12' = {}, v7 = <<>>, v8.pc # "listing", ~v10
                     PROVE  /\ \A s \in Panel!Requests(v4)' : Panel!Fresh(s)'
                            /\ v5'.of = v4' /\ v5'.version >= v11'[v4']
        BY <2>1 DEF Panel!TreeComes
      <3>2. \A s \in Panel!Requests(v4) : Panel!Fresh(s)
        BY <1>0, <2>3, <3>1 DEF Panel!TreeComes
      <3>3. r \in Panel!Requests(v4)
        BY <1>7, <2>3, <3>1 DEF Panel!Requests
      <3>4. r.read >= v11[v4]
        BY <2>1, <2>3, <3>1, <3>2, <3>3 DEF Panel!Fresh
      <3>5. Panel!Requests(v4)' \subseteq Panel!Requests(v4) /\ \A s : Panel!Fresh(s)' <=> Panel!Fresh(s)
        BY <2>1 DEF Panel!Requests, Panel!Fresh
      <3>6. QED
        BY <2>1, <2>3, <3>1, <3>2, <3>4, <3>5
    <2>6. QED
      BY <1>i, <2>2, <2>4, <2>5
  <1>8. ASSUME NEW r \in v6, Panel!TreeFails(r) PROVE Panel!IInv'
    <2>1. v6' \subseteq v6 /\ v12' = v12 \cup {"failed"} /\ UNCHANGED <<v1, v2, v4, v8, v9, v11>>
      BY <1>8 DEF Panel!TreeFails, Panel!Doubts, Panel!core, Panel!panel
    <2>2. QED
      BY <1>0, <1>d, <1>i, <1>t, <2>1
  \* What neither the panel nor its requests see.
  <1>u. ASSUME UNCHANGED <<v3, v4, v5, v6, v7, v10, v11, v12>>, v8.pc = "listing" => v8'.pc = "listing"
        PROVE  Panel!PostsInOrder' /\ Panel!TreeComes'
    BY <1>0, <1>o, <1>u DEF Panel!TreeComes, Panel!Requests, Panel!Fresh
  <1>9. ASSUME NEW p \in Clients, Panel!create_project(p) PROVE Panel!IInv'
    <2>1. /\ v8 = Panel!NotCreating /\ v1' = v1 \cup {p} /\ v8' = [project |-> p, pc |-> "asked"]
          /\ UNCHANGED <<v2, v3, v4, v5, v6, v7, v9, v10, v11, v12>>
      BY <1>9 DEF Panel!create_project, Panel!panel
    <2>2. v8.pc = "idle" /\ v8'.project = p
      BY <2>1 DEF Panel!NotCreating
    <2>3. Panel!TypeOK'
      BY <1>0, <2>1, <2>2 DEF Panel!TypeOK
    <2>4. QED
      BY <1>i, <1>u, <2>1, <2>2, <2>3
  \* A change of the files of one project.
  <1>f. ASSUME NEW p \in Clients, v2' = [v2 EXCEPT ![p] = v2[p] + 1], UNCHANGED <<v1, v4, v6, v8, v11>>,
               v9' = v9 \/ v9' = v9 \cup {[project |-> p, version |-> v2[p] + 1]}
        PROVE  Panel!TypeOK'
    <2>1. v2' \in [Clients -> Nat] /\ v2'[p] = v2[p] + 1 /\ v2[p] \in Nat
          /\ \A q \in Clients : v2[q] <= v2'[q] /\ v2'[q] \in Nat
      BY <1>0, <1>f
    <2>2. \A q \in Clients : v11'[q] <= v2'[q]
      BY <1>0, <1>f, <2>1
    <2>3. \A c \in v9 : c.project \in Clients /\ c.version \in 0..v2'[c.project]
      BY <1>0, <2>1
    <2> DEFINE new == [project |-> p, version |-> v2[p] + 1]
    <2>4. new.project = p /\ new.version = v2[p] + 1
      OBVIOUS
    <2> HIDE DEF new
    <2>5. \A c \in v9' : c.project \in Clients /\ c.version \in 0..v2'[c.project]
      BY <1>f, <2>1, <2>3, <2>4 DEF new
    <2>6. QED
      BY <1>0, <1>f, <2>1, <2>2, <2>5 DEF Panel!TypeOK
  <1>10. ASSUME NEW p \in Clients, Panel!OwnChange(p) \/ Panel!OtherChange(p) PROVE Panel!IInv'
    <2>1. /\ v2' = [v2 EXCEPT ![p] = v2[p] + 1] /\ UNCHANGED <<v1, v3, v4, v5, v6, v7, v8, v10, v11, v12>>
          /\ v9' = v9 \/ v9' = v9 \cup {[project |-> p, version |-> v2[p] + 1]}
      BY <1>10 DEF Panel!OwnChange, Panel!OtherChange, Panel!panel, Panel!flights
    <2>2. Panel!TypeOK'
      BY <1>f, <2>1
    <2>3. QED
      BY <1>i, <1>u, <2>1, <2>2
  <1>11. ASSUME NEW p \in v1 \cup {None}, Panel!selectProject(p) PROVE Panel!IInv'
    <2> DEFINE new == [project |-> p, pc |-> "out"]
    <2>1. /\ v4' = p /\ v7' = Append(v7, new) /\ UNCHANGED <<v1, v2, v3, v5, v6, v8, v9, v10, v11>>
          /\ v12' = IF v7 = <<>> /\ v6 = {} THEN {} ELSE v12
      BY <1>11 DEF Panel!selectProject, Panel!core
    <2>2. p \in Clients \cup {None} /\ new \in SR /\ new.project = p /\ new.pc = "out"
      BY <1>0, <1>11
    <2> HIDE DEF new
    <2>3. Panel!TypeOK'
      BY <1>0, <1>t, <2>1, <2>2
    <2>4. v12' = {} => v7 \in Seq(SR)
                       /\ \A i, j \in DOMAIN v7 : i < j /\ v7[j].pc = "answered" => v7[i].pc = "answered"
      <3>1. CASE v7 = <<>>
        <4>1. v7 \in Seq(SR) /\ DOMAIN v7 = {}
          BY <3>1
        <4>2. QED
          BY <4>1
      <3>2. CASE v7 # <<>>
        BY <1>1, <2>1, <3>2
      <3>3. QED
        BY <3>1, <3>2
    <2>5. ASSUME v12' = {}
          PROVE  /\ v7' \in Seq(SR) /\ v7' # <<>>
                 /\ \A i, j \in DOMAIN v7' : i < j /\ v7'[j].pc = "answered" => v7'[i].pc = "answered"
                 /\ \A i \in DOMAIN v7' : i = Len(v7') /\ v7'[i].pc = "out" => v7'[i].project = v4'
                 /\ \E i \in DOMAIN v7' : v7'[i].pc # "answered"
      <3> DEFINE n == Len(v7)
      <3>1. /\ n \in Nat /\ DOMAIN v7 = 1..n /\ v7' \in Seq(SR) /\ DOMAIN v7' = 1..(n + 1) /\ Len(v7') = n + 1
            /\ v7'[n + 1] = new /\ \A i \in 1..n : v7'[i] = v7[i]
        BY <2>1, <2>2, <2>4, <2>5
      <3> HIDE DEF n
      <3>2. \A i, j \in 1..(n + 1) : i < j /\ v7'[j].pc = "answered" => v7'[i].pc = "answered"
        <4>1. ASSUME NEW i \in 1..(n + 1), NEW j \in 1..(n + 1), i < j, v7'[j].pc = "answered"
              PROVE  v7'[i].pc = "answered"
          <5>1. j # n + 1
            BY <2>2, <3>1, <4>1
          <5>2. i \in 1..n /\ j \in 1..n
            BY <3>1, <4>1, <5>1
          <5>3. QED
            BY <2>4, <2>5, <3>1, <4>1, <5>2
        <4>2. QED
          BY <4>1
      <3>3. v7' # <<>> /\ n + 1 \in DOMAIN v7'
        BY <3>1
      <3>4. QED
        BY <2>1, <2>2, <3>1, <3>2, <3>3
    <2>6. Panel!PostsInOrder'
      BY <2>5 DEF Panel!PostsInOrder
    <2>7. Panel!TreeComes'
      BY <2>5 DEF Panel!TreeComes
    <2>8. QED
      BY <1>i, <2>3, <2>6, <2>7
  <1>12. ASSUME NEW i \in DOMAIN v7, Panel!select_project(i) PROVE Panel!IInv'
    <2>1. /\ v7[i].pc # "answered" /\ v3' = v7[i].project /\ UNCHANGED <<v1, v2, v4, v5, v6, v8, v9, v10, v11>>
          /\ v7' = IF v7[i].pc = "left" THEN Panel!Without(v7, i) ELSE [v7 EXCEPT ![i].pc = "answered"]
          /\ v12' = v12 \cup (IF \A j \in DOMAIN v7 : j < i => v7[j].pc = "answered" THEN {} ELSE {"swapped"})
      BY <1>12 DEF Panel!select_project, Panel!Doubts, Panel!panel
    <2>2. Panel!TypeOK'
      BY <1>0, <1>t, <2>1
    <2>3. ASSUME v12' = {}
          PROVE  /\ v7' \in Seq(SR) /\ v7' # <<>>
                 /\ \A k, j \in DOMAIN v7' : k < j /\ v7'[j].pc = "answered" => v7'[k].pc = "answered"
                 /\ \A k \in DOMAIN v7' : k = Len(v7') /\ v7'[k].pc = "out" => v7'[k].project = v4'
                 /\ (\A k \in DOMAIN v7' : v7'[k].pc = "answered") => v3' = v4'
      <3>1. v12 = {} /\ \A j \in DOMAIN v7 : j < i => v7[j].pc = "answered"
        BY <2>1, <2>3
      <3>2. v7 \in Seq(SR) /\ v7[i] \in SR /\ v7[i].pc = "out"
        <4>1. v7 \in Seq(SR)
          BY <1>1, <3>1
        <4>2. v7[i] \in SR
          <5> HIDE DEF SR
          <5>1. QED
            BY <1>12, <4>1
        <4>3. QED
          BY <2>1, <4>1, <4>2
      <3> DEFINE n == Len(v7)
                 new == [v7[i] EXCEPT !.pc = "answered"]
      <3>3. n \in Nat /\ DOMAIN v7 = 1..n /\ i \in 1..n
        BY <1>12, <3>2
      <3>4. new \in SR /\ new.pc = "answered"
        BY <3>2
      <3>5. v7' = [v7 EXCEPT ![i] = new]
        BY <2>1, <3>2
      <3> HIDE DEF new
      <3>6. v7' \in Seq(SR) /\ DOMAIN v7' = 1..n /\ Len(v7') = n /\ v7'[i] = new
            /\ \A j \in 1..n : j # i => v7'[j] = v7[j]
        BY <3>2, <3>3, <3>4, <3>5
      <3> HIDE DEF n
      <3>7. ASSUME NEW k \in 1..n, NEW j \in 1..n, k < j, v7'[j].pc = "answered" PROVE v7'[k].pc = "answered"
        <4>1. CASE k = i
          BY <3>4, <3>6, <4>1
        <4>2. CASE k # i /\ j = i
          BY <3>1, <3>3, <3>6, <3>7, <4>2
        <4>3. CASE k # i /\ j # i
          BY <1>1, <3>1, <3>3, <3>6, <3>7, <4>3
        <4>4. QED
          BY <4>1, <4>2, <4>3
      <3>8. ASSUME NEW k \in 1..n, k = n, v7'[k].pc = "out" PROVE v7'[k].project = v4'
        <4>1. k # i
          BY <3>4, <3>6, <3>8
        <4>2. v7'[k] = v7[k] /\ k = Len(v7) /\ k \in DOMAIN v7
          BY <3>3, <3>6, <3>8, <4>1 DEF n
        <4>3. QED
          BY <1>1, <2>1, <3>1, <3>8, <4>2
      <3>9. ASSUME \A k \in 1..n : v7'[k].pc = "answered" PROVE v3' = v4'
        <4>1. \A j \in 1..n : i < j => FALSE
          BY <1>1, <2>1, <3>1, <3>3, <3>6, <3>9
        <4>2. i = n
          BY <3>3, <4>1
        <4>3. i = Len(v7)
          BY <4>2 DEF n
        <4>4. v7[i].project = v4
          BY <1>1, <1>12, <3>1, <3>2, <4>3
        <4>5. QED
          BY <2>1, <4>4
      <3>10. v7' # <<>>
        BY <3>3, <3>6
      <3>11. QED
        BY <3>6, <3>7, <3>8, <3>9, <3>10
    <2>4. Panel!PostsInOrder'
      BY <2>3 DEF Panel!PostsInOrder
    <2>5. Panel!TreeComes'
      BY <2>3 DEF Panel!TreeComes
    <2>6. QED
      BY <1>i, <2>2, <2>4, <2>5
  <1>13. ASSUME NEW i \in DOMAIN v7, Panel!Selected(i) PROVE Panel!IInv'
    <2>1. /\ v7[i].pc = "answered" /\ v7' = Panel!Without(v7, i) /\ Panel!loadProjectTree(v4)
          /\ UNCHANGED <<v1, v2, v3, v4, v8, v9, v10, v11>>
      BY <1>13 DEF Panel!Selected, Panel!core
    <2>2. /\ v6' \subseteq RR /\ (v12' = {} => v12 = {})
          /\ v12' = {} =>
               /\ \A r \in Panel!Requests(v4)' : Panel!Fresh(r)'
               /\ \/ Panel!Requests(v4)' # {}
                  \/ v5'.of = v4' /\ (v4' # None => v5'.version >= v11'[v4'])
      BY <1>0, <2>1, PanelLoads
    <2>3. Panel!TypeOK'
      BY <1>0, <1>t, <2>1, <2>2
    <2>4. Panel!TreeComes'
      BY <2>2 DEF Panel!TreeComes
    <2>5. ASSUME v12' = {} PROVE Panel!PostsInOrder'
      <3>1. v12 = {} /\ v7 \in Seq(SR)
        BY <1>1, <2>2, <2>5
      <3> DEFINE n == Len(v7)
      <3>2. n \in Nat /\ DOMAIN v7 = 1..n /\ i \in 1..n
        BY <1>13, <3>1
      <3>3. /\ v7' \in Seq(SR) /\ Len(v7') = n - 1 /\ DOMAIN v7' = 1..(n - 1)
            /\ \A j \in DOMAIN v7' : IF j < i THEN v7'[j] = v7[j] /\ j \in DOMAIN v7
                                     ELSE v7'[j] = v7[j + 1] /\ j + 1 \in DOMAIN v7
        <4> HIDE DEF SR
        <4>1. i \in 1..Len(v7)
          BY <3>2
        <4>2. QED
          BY <2>1, <3>1, <4>1, PanelWithout
      <3>4. \A j \in 1..n : j < i => v7[j].pc = "answered"
        BY <1>1, <2>1, <3>1, <3>2
      <3>p. /\ \A k, j \in 1..n : k < j /\ v7[j].pc = "answered" => v7[k].pc = "answered"
            /\ v7[n].pc = "out" => v7[n].project = v4
            /\ (\A k \in 1..n : v7[k].pc = "answered") => v3 = v4
        BY <1>1, <3>1, <3>2
      <3> HIDE DEF n
      <3>5. ASSUME NEW k \in 1..(n - 1), NEW j \in 1..(n - 1), k < j, v7'[j].pc = "answered"
            PROVE  v7'[k].pc = "answered"
        <4>1. CASE k < i
          BY <3>2, <3>3, <3>4, <3>5, <4>1
        <4>2. CASE ~(k < i)
          <5>1. ~(j < i) /\ k + 1 < j + 1 /\ k + 1 \in 1..n /\ j + 1 \in 1..n
            BY <3>2, <3>5, <4>2
          <5>2. QED
            BY <3>3, <3>5, <3>p, <4>2, <5>1
        <4>3. QED
          BY <4>1, <4>2
      <3>6. ASSUME NEW k \in 1..(n - 1), k = n - 1, v7'[k].pc = "out" PROVE v7'[k].project = v4'
        <4>1. CASE k < i
          BY <3>2, <3>3, <3>4, <3>6, <4>1
        <4>2. CASE ~(k < i)
          <5>1. k + 1 = n
            BY <3>2, <3>6
          <5>2. v7'[k] = v7[n]
            BY <3>3, <4>2, <5>1
          <5>3. QED
            BY <2>1, <3>6, <3>p, <5>2
        <4>3. QED
          BY <4>1, <4>2
      <3>7. ASSUME \A k \in 1..(n - 1) : v7'[k].pc = "answered" PROVE v3' = v4'
        <4>1. ASSUME NEW k \in 1..n PROVE v7[k].pc = "answered"
          <5>1. CASE k < i
            BY <3>4, <5>1
          <5>2. CASE k = i
            BY <2>1, <5>2
          <5>3. CASE k > i
            <6>1. k - 1 \in 1..(n - 1) /\ ~(k - 1 < i) /\ (k - 1) + 1 = k
              BY <3>2, <5>3
            <6>2. v7'[k - 1] = v7[k]
              BY <3>3, <6>1
            <6>3. QED
              BY <3>7, <6>1, <6>2
          <5>4. QED
            BY <3>2, <5>1, <5>2, <5>3
        <4>2. QED
          BY <2>1, <3>p, <4>1
      <3>8. QED
        BY <3>3, <3>5, <3>6, <3>7 DEF Panel!PostsInOrder
    <2>6. Panel!PostsInOrder'
      BY <1>d, <2>5
    <2>7. QED
      BY <1>i, <2>3, <2>4, <2>6
  <1>14. ASSUME NEW i \in DOMAIN v7, Panel!SelectFails(i) PROVE Panel!IInv'
    <2>1. v12' = v12 \cup {"failed"} /\ UNCHANGED <<v1, v2, v4, v6, v8, v9, v11>>
      BY <1>14 DEF Panel!SelectFails, Panel!Doubts, Panel!core, Panel!panel
    <2>2. QED
      BY <1>0, <1>d, <1>i, <1>t, <2>1
  <1>15. ASSUME NEW c \in v9, Panel!file_tree_changed(c) PROVE Panel!IInv'
    <2>1. /\ v9' = v9 \ {c} /\ v11' = [v11 EXCEPT ![c.project] = c.version] /\ v10' = TRUE
          /\ UNCHANGED <<v1, v2, v3, v4, v5, v6, v7, v8, v12>>
      BY <1>15 DEF Panel!file_tree_changed, Panel!core, Panel!panel
    <2>2. c.project \in Clients /\ c.version \in Nat /\ c.version <= v2[c.project]
      BY <1>0, <1>15
    <2>3. v11' \in [Clients -> Nat] /\ \A p \in Clients : v11'[p] <= v2[p]
      BY <1>0, <2>1, <2>2
    <2>4. Panel!TypeOK'
      BY <1>0, <2>1, <2>3 DEF Panel!TypeOK
    <2>5. Panel!PostsInOrder'
      BY <1>o, <2>1
    <2>6. Panel!TreeComes'
      BY <2>1 DEF Panel!TreeComes
    <2>7. QED
      BY <1>i, <2>4, <2>5, <2>6
  <1>16. CASE UNCHANGED Panel!vars
    <2>1. UNCHANGED <<v1, v2, v3, v4, v5, v6, v7, v8, v9, v10, v11, v12>>
      BY <1>16 DEF Panel!vars
    <2>2. QED
      BY <1>0, <1>i, <1>t, <1>u, <2>1
  <1>17. QED
    BY <1>0, <1>2, <1>3, <1>4, <1>5, <1>6, <1>7, <1>8, <1>9, <1>10, <1>11, <1>12, <1>13, <1>14, <1>15, <1>16
       DEF Panel!Next

\* At rest nothing is under way any more.
LEMMA PanelRests == Panel!IInv => Panel!RestIsSelected
  <1> SUFFICES ASSUME Panel!IInv, Panel!AtRest, v12 = {}
               PROVE  v3 = v4 /\ v5.of = v4 /\ (v4 # None => v5.version >= v11[v4])
    BY DEF Panel!RestIsSelected
  <1>1. v6 = {} /\ v7 = <<>> /\ v8.pc = "idle" /\ ~v10
    BY DEF Panel!AtRest, Panel!NotCreating
  <1>2. DOMAIN v7 = {}
    BY <1>1
  <1>3. v3 = v4
    BY <1>2 DEF Panel!IInv, Panel!PostsInOrder
  <1>4. Panel!Requests(v4) = {}
    BY <1>1 DEF Panel!Requests
  <1>5. QED
    BY <1>1, <1>3, <1>4 DEF Panel!IInv, Panel!TreeComes

-----------------------------------------------------------------------------
(***************************************************************************)
(* Pages of a file                                                         *)
(***************************************************************************)
LEMMA LeastExists ==
  ASSUME NEW S \in SUBSET Nat, S # {}
  PROVE  \E i \in S : \A j \in S : i <= j
  <1>1. PICK x \in S : \A y \in S : ~ (<<y, x>> \in OpToRel(<, Nat))
    BY NatLessThanWellFounded, WFMin
  <1>2. ASSUME NEW y \in S PROVE x <= y
    <2>1. x \in Nat /\ y \in Nat
      OBVIOUS
    <2>2. y < x => <<y, x>> \in OpToRel(<, Nat)
      BY <2>1 DEF OpToRel
    <2>3. ~ (y < x)
      BY <1>1, <2>2
    <2>4. QED
      BY <2>1, <2>3
  <1>3. QED
    BY <1>2

\* A function on 1..n is a sequence of n entries.
LEMMA PagesSequence ==
  ASSUME NEW n \in Nat, NEW S, NEW w \in [1..n -> S]
  PROVE  w \in Seq(S) /\ Len(w) = n
  OBVIOUS

\* The sums of the first numbers of a sequence are what their definition says.
LEMMA PagesSums ==
  ASSUME NEW w, Len(w) \in Nat, \A i \in 1..Len(w) : w[i] \in Nat
  PROVE  /\ Pages!Sums(w) \in [0..Len(w) -> Nat]
         /\ Pages!Sums(w)[0] = 0
         /\ \A n \in 1..Len(w) : Pages!Sums(w)[n] = Pages!Sums(w)[n - 1] + w[n]
  <1> DEFINE Are(f, m) == f \in [0..m -> Nat] /\ f = [n \in 0..m |-> IF n = 0 THEN 0 ELSE f[n - 1] + w[n]]
             bad == {m \in 0..Len(w) : ~ \E f : Are(f, m)}
  <1>1. bad = {}
    <2> SUFFICES ASSUME bad # {} PROVE FALSE
      OBVIOUS
    <2>1. bad \in SUBSET Nat
      OBVIOUS
    <2>2. PICK m \in bad : \A k \in bad : m <= k
      <3> HIDE DEF bad
      <3>1. QED
        BY <2>1, LeastExists
    <2>3. m \in 0..Len(w) /\ m \in Nat /\ ~ \E f : Are(f, m)
      <3> HIDE DEF Are
      <3>1. QED
        OBVIOUS
    <2>7. \A k \in 0..Len(w) : (\E f : Are(f, k)) \/ m <= k
      <3> HIDE DEF Are
      <3>1. QED
        BY <2>2
    <2> HIDE DEF bad
    <2>4. CASE m = 0
      <3> DEFINE f == [n \in 0..0 |-> 0]
      <3>1. Are(f, 0)
        OBVIOUS
      <3>2. QED
        BY <2>3, <2>4, <3>1
    <2>5. CASE m # 0
      <3>1. m - 1 \in 0..Len(w) /\ ~(m <= m - 1) /\ m \in 1..Len(w)
        BY <2>3, <2>5
      <3>2. PICK f : Are(f, m - 1)
        BY <2>7, <3>1
      <3> DEFINE g == [n \in 0..m |-> IF n = m THEN f[m - 1] + w[m] ELSE f[n]]
      <3>3. f \in [0..m - 1 -> Nat] /\ \A n \in 0..m - 1 : f[n] = IF n = 0 THEN 0 ELSE f[n - 1] + w[n]
        BY <3>2
      <3>4. w[m] \in Nat /\ m \in Nat
        BY <3>1
      <3>5. g \in [0..m -> Nat]
        BY <3>1, <3>3, <3>4
      <3>6. ASSUME NEW n \in 0..m PROVE g[n] = IF n = 0 THEN 0 ELSE g[n - 1] + w[n]
        <4>1. CASE n = m
          BY <2>5, <3>4, <4>1
        <4>2. CASE n # m
          <5>1. n \in 0..m - 1 /\ g[n] = f[n]
            BY <3>4, <4>2
          <5>2. n # 0 => n - 1 \in 0..m /\ n - 1 # m /\ g[n - 1] = f[n - 1]
            BY <3>4, <5>1
          <5>3. QED
            BY <3>3, <5>1, <5>2
        <4>3. QED
          BY <4>1, <4>2
      <3> HIDE DEF g
      <3>7. g = [n \in 0..m |-> IF n = 0 THEN 0 ELSE g[n - 1] + w[n]]
        BY <3>5, <3>6
      <3>8. QED
        BY <2>3, <3>5, <3>7
    <2>6. QED
      BY <2>4, <2>5
  <1>2. \E f : Are(f, Len(w))
    BY <1>1
  <1>3. Pages!Sums(w) = CHOOSE f : f = [n \in 0..Len(w) |-> IF n = 0 THEN 0 ELSE f[n - 1] + w[n]]
    BY DEF Pages!Sums
  <1> DEFINE sums == Pages!Sums(w)
  <1>4. sums = [n \in 0..Len(w) |-> IF n = 0 THEN 0 ELSE sums[n - 1] + w[n]]
    BY <1>2, <1>3
  <1> HIDE DEF sums
  <1>5. PICK f : f \in [0..Len(w) -> Nat] /\ f = [n \in 0..Len(w) |-> IF n = 0 THEN 0 ELSE f[n - 1] + w[n]]
    BY <1>2
  <1>6. \A n \in 0..Len(w) : sums[n] = IF n = 0 THEN 0 ELSE sums[n - 1] + w[n]
    BY <1>4
  <1>7. \A n \in 0..Len(w) : f[n] = IF n = 0 THEN 0 ELSE f[n - 1] + w[n]
    BY <1>5
  <1> DEFINE other == {n \in 0..Len(w) : sums[n] # f[n]}
  <1>8. other = {}
    <2> SUFFICES ASSUME other # {} PROVE FALSE
      OBVIOUS
    <2>1. other \in SUBSET Nat
      OBVIOUS
    <2>2. PICK m \in other : \A k \in other : m <= k
      <3> HIDE DEF other
      <3>1. QED
        BY <2>1, LeastExists
    <2>3. m \in 0..Len(w) /\ sums[m] # f[m]
      OBVIOUS
    <2>4. m # 0 /\ sums[m] = sums[m - 1] + w[m] /\ f[m] = f[m - 1] + w[m]
      BY <1>6, <1>7, <2>3
    <2>5. m - 1 \in 0..Len(w) /\ m - 1 \notin other
      BY <2>2, <2>3, <2>4
    <2>6. sums[m - 1] = f[m - 1]
      BY <2>5
    <2>7. QED
      BY <2>3, <2>4, <2>6
  <1>9. sums = f
    <2>1. \A n \in 0..Len(w) : sums[n] = f[n]
      BY <1>8
    <2>2. sums = [n \in 0..Len(w) |-> sums[n]] /\ f = [n \in 0..Len(w) |-> f[n]]
      BY <1>4, <1>5
    <2>3. QED
      BY <2>1, <2>2
  <1>10. QED
    BY <1>5, <1>6, <1>9 DEF sums

\* Positive numbers have sums that grow.
LEMMA PagesGrow ==
  ASSUME NEW w, NEW length \in Nat, Len(w) = length, \A i \in 1..length : w[i] \in Nat \ {0},
         NEW a \in 0..length, NEW b \in a..length
  PROVE  Pages!Sums(w)[a] + (b - a) <= Pages!Sums(w)[b]
  <1> DEFINE sums == Pages!Sums(w)
             bad == {k \in a..length : ~(sums[a] + (k - a) <= sums[k])}
  <1>1. sums \in [0..length -> Nat] /\ \A n \in 1..length : sums[n] = sums[n - 1] + w[n]
    BY PagesSums
  <1> HIDE DEF sums
  <1>2. bad = {}
    <2> SUFFICES ASSUME bad # {} PROVE FALSE
      OBVIOUS
    <2>1. bad \in SUBSET Nat
      OBVIOUS
    <2>2. PICK m \in bad : \A k \in bad : m <= k
      <3> HIDE DEF bad
      <3>1. QED
        BY <2>1, LeastExists
    <2>3. m \in a..length /\ ~(sums[a] + (m - a) <= sums[m])
      OBVIOUS
    <2>4. \A k \in a..length : sums[a] + (k - a) <= sums[k] \/ m <= k
      BY <2>2
    <2> HIDE DEF bad
    <2>5. a \in Nat /\ m \in Nat /\ sums[a] \in Nat /\ sums[m] \in Nat
      BY <1>1, <2>3
    <2>6. m # a
      BY <2>3, <2>5
    <2>7. m \in 1..length /\ m - 1 \in a..length /\ ~(m <= m - 1)
      BY <2>3, <2>5, <2>6
    <2>8. sums[a] + ((m - 1) - a) <= sums[m - 1]
      BY <2>4, <2>7
    <2>9. sums[m - 1] \in Nat
      BY <1>1, <2>7
    <2>10. sums[m] = sums[m - 1] + w[m] /\ w[m] \in Nat /\ w[m] >= 1
      BY <1>1, <2>7
    <2> DEFINE x == sums[a]
               y == sums[m - 1]
               z == sums[m]
    <2>11. x \in Nat /\ y \in Nat /\ z = y + w[m] /\ x + ((m - 1) - a) <= y /\ ~(x + (m - a) <= z)
      BY <2>3, <2>5, <2>8, <2>9, <2>10
    <2> HIDE DEF x, y, z
    <2>12. QED
      BY <2>5, <2>10, <2>11
  <1>3. QED
    BY <1>2 DEF sums

\* One more number adds itself to the sum.
LEMMA PagesOneMore ==
  ASSUME NEW w, Len(w) \in Nat, \A i \in 1..Len(w) : w[i] \in Nat,
         NEW x, Len(x) = Len(w) + 1, \A i \in 1..Len(w) : x[i] = w[i], x[Len(x)] \in Nat
  PROVE  /\ Pages!Sums(w)[Len(w)] \in Nat
         /\ Pages!Sums(x)[Len(x)] = Pages!Sums(w)[Len(w)] + x[Len(x)]
  <1> DEFINE f == Pages!Sums(w)
             g == Pages!Sums(x)
             other == {n \in 0..Len(w) : f[n] # g[n]}
  <1>1. f \in [0..Len(w) -> Nat] /\ f[0] = 0 /\ \A n \in 1..Len(w) : f[n] = f[n - 1] + w[n]
    BY PagesSums
  <1>2. g \in [0..Len(x) -> Nat] /\ g[0] = 0 /\ \A n \in 1..Len(x) : g[n] = g[n - 1] + x[n]
    <2>1. \A i \in 1..Len(x) : x[i] \in Nat
      OBVIOUS
    <2>2. Len(x) \in Nat
      OBVIOUS
    <2>3. QED
      BY <2>1, <2>2, PagesSums
  <1> HIDE DEF f, g
  <1>3. other = {}
    <2> SUFFICES ASSUME other # {} PROVE FALSE
      OBVIOUS
    <2>1. other \in SUBSET Nat
      OBVIOUS
    <2>2. PICK m \in other : \A k \in other : m <= k
      <3> HIDE DEF other
      <3>1. QED
        BY <2>1, LeastExists
    <2>3. m \in 0..Len(w) /\ f[m] # g[m] /\ m \in Nat
      OBVIOUS
    <2>4. m # 0
      BY <1>1, <1>2, <2>3
    <2>5. m \in 1..Len(w) /\ m \in 1..Len(x) /\ m - 1 \in 0..Len(w) /\ m - 1 \notin other
      BY <2>2, <2>3, <2>4
    <2>6. f[m - 1] = g[m - 1]
      BY <2>5
    <2>7. QED
      BY <1>1, <1>2, <2>3, <2>5, <2>6
  <1>4. f[Len(w)] = g[Len(w)]
    BY <1>3
  <1>5. g[Len(x)] = g[Len(w)] + x[Len(x)]
    BY <1>2
  <1>6. QED
    BY <1>1, <1>4, <1>5 DEF f, g

\* A wrapped line is a number of characters.
LEMMA PagesWrapped ==
  ASSUME NEW len \in Lengths
  PROVE  Pages!wrapped(len) \in Nat
  <1>1. len \in Nat /\ Mark \in Nat /\ Width \in Nat \ {0}
    BY PagesAssumption
  <1>2. CASE len > Width
    <2> DEFINE parts == (len - 1) \div Width
    <2>1. parts \in Nat
      BY <1>1, <1>2
    <2> HIDE DEF parts
    <2>2. Mark * parts \in Nat
      BY <1>1, <2>1
    <2>3. Pages!wrapped(len) = len \/ Pages!wrapped(len) = len + Mark * parts
      BY DEF Pages!wrapped, parts
    <2>4. QED
      BY <1>1, <2>2, <2>3
  <1>3. CASE ~(len > Width)
    BY <1>1, <1>3 DEF Pages!wrapped
  <1>4. QED
    BY <1>2, <1>3

\* The text of some lines has a length, and is longer with the line after them, and
\* with the line before them.
LEMMA PagesChars ==
  ASSUME Pages!TypeOK
  PROVE  /\ Len(v1) \in Nat /\ Pages!total_lines = Len(v1)
         /\ \A s, e \in Int : (1 <= s /\ e <= Len(v1)) \/ e < s => Pages!segment_chars(s, e) \in Nat
         /\ \A s \in 1..Len(v1) : \A e \in s..Len(v1) - 1 :
               Pages!segment_chars(s, e) < Pages!segment_chars(s, e + 1)
         /\ \A s \in 2..Len(v1) : \A e \in s..Len(v1) :
               Pages!segment_chars(s, e) < Pages!segment_chars(s - 1, e)
  <1> DEFINE length == Len(v1)
             w == [i \in 1..length |-> Pages!wrapped(v1[i]) + 1]
             sums == Pages!Sums(w)
  <1>1. length \in Nat /\ \A i \in 1..length : v1[i] \in Lengths
    BY DEF Pages!TypeOK
  <1>2. w \in [1..length -> Nat \ {0}]
    BY <1>1, PagesWrapped
  <1>3. Pages!widths = w /\ Pages!total_lines = length
    BY DEF Pages!widths, Pages!total_lines
  <1> HIDE DEF w
  <1>4. Len(w) = length /\ \A i \in 1..length : w[i] \in Nat \ {0}
    BY <1>1, <1>2, PagesSequence
  <1>5. sums \in [0..length -> Nat]
    BY <1>1, <1>4, PagesSums
  <1>6. \A a \in 0..length : \A b \in a..length : sums[a] + (b - a) <= sums[b]
    BY <1>1, <1>4, PagesGrow
  <1> HIDE DEF sums, length
  <1>7. \A s, e \in Int : Pages!segment_chars(s, e) = IF e < s THEN 0 ELSE sums[e] - sums[s - 1] - 1
    BY <1>3 DEF Pages!segment_chars, sums
  <1>8. ASSUME NEW s \in Int, NEW e \in Int, (1 <= s /\ e <= length) \/ e < s
        PROVE  Pages!segment_chars(s, e) \in Nat
    <2>1. CASE e < s
      BY <1>7, <2>1
    <2>2. CASE ~(e < s)
      <3>1. s - 1 \in 0..length /\ e \in s - 1..length /\ e \in 0..length
        BY <1>1, <1>8, <2>2
      <3>2. sums[s - 1] + (e - (s - 1)) <= sums[e] /\ sums[s - 1] \in Nat /\ sums[e] \in Nat
        BY <1>5, <1>6, <3>1
      <3>3. QED
        BY <1>7, <2>2, <3>2
    <2>3. QED
      BY <2>1, <2>2
  <1>9. ASSUME NEW s \in 1..length, NEW e \in s..length - 1
        PROVE  Pages!segment_chars(s, e) < Pages!segment_chars(s, e + 1)
    <2>1. s - 1 \in 0..length /\ e \in 0..length /\ e + 1 \in e..length /\ s \in Int /\ e \in Int /\ ~(e < s)
      BY <1>1
    <2>2. sums[e] + ((e + 1) - e) <= sums[e + 1]
      BY <1>6, <2>1
    <2>3. sums[s - 1] \in Nat /\ sums[e] \in Nat /\ sums[e + 1] \in Nat
      BY <1>1, <1>5, <2>1
    <2>4. /\ Pages!segment_chars(s, e) = sums[e] - sums[s - 1] - 1
          /\ Pages!segment_chars(s, e + 1) = sums[e + 1] - sums[s - 1] - 1
      BY <1>7, <2>1
    <2>5. QED
      BY <2>1, <2>2, <2>3, <2>4
  <1>10. ASSUME NEW s \in 2..length, NEW e \in s..length
         PROVE  Pages!segment_chars(s, e) < Pages!segment_chars(s - 1, e)
    <2>1. /\ s - 2 \in 0..length /\ s - 1 \in s - 2..length /\ s - 1 \in 0..length /\ e \in 0..length
          /\ s \in Int /\ s - 1 \in Int /\ e \in Int /\ ~(e < s) /\ ~(e < s - 1)
      BY <1>1
    <2>2. sums[s - 2] + ((s - 1) - (s - 2)) <= sums[s - 1]
      BY <1>6, <2>1
    <2>3. sums[s - 2] \in Nat /\ sums[s - 1] \in Nat /\ sums[e] \in Nat
      BY <1>5, <2>1
    <2>4. /\ Pages!segment_chars(s, e) = sums[e] - sums[s - 1] - 1
          /\ Pages!segment_chars(s - 1, e) = sums[e] - sums[(s - 1) - 1] - 1
          /\ (s - 1) - 1 = s - 2
      BY <1>7, <2>1
    <2>5. QED
      BY <2>1, <2>2, <2>3, <2>4
  <1>11. QED
    BY <1>1, <1>3, <1>8, <1>9, <1>10 DEF length

\* What a segment shows: lines of the file, and no more than its cap but a note.
LEMMA PagesSegment ==
  ASSUME Pages!TypeOK, NEW s \in Nat \ {0}, NEW e \in Nat, NEW cap \in Nat
  PROVE  /\ Pages!Segment(s, e, cap) \in Pages!SegmentType
         /\ Len(v1) > 0 /\ s <= Len(v1) => Pages!Segment(s, e, cap).first = s
         /\ e <= Len(v1) => Pages!Segment(s, e, cap).last = e
         /\ Pages!Segment(s, e, cap).cut =>
               Pages!segment_chars(Pages!Segment(s, e, cap).first, Pages!Segment(s, e, cap).last) > cap
         /\ cap > 0 => Pages!Segment(s, e, cap).chars < cap + Pages!Most(Note, 1)
  <1> DEFINE first == IF Len(v1) = 0 THEN 1 ELSE Pages!Least(s, Len(v1))
             last == Pages!Least(e, Len(v1))
             chars == Pages!segment_chars(first, last)
             shown == Pages!truncate_to_budget(chars, cap)
  <1>1. Len(v1) \in Nat /\ Pages!total_lines = Len(v1) /\ Note \in Nat
    BY PagesChars, PagesAssumption
  <1>2. Pages!Segment(s, e, cap) = [first |-> first, last |-> last, chars |-> shown, cut |-> chars > cap]
    BY <1>1 DEF Pages!Segment
  <1>3. first \in Nat \ {0} /\ last \in Nat /\ last <= Len(v1)
    BY <1>1 DEF Pages!Least
  <1>6. /\ Len(v1) > 0 /\ s <= Len(v1) => first = s
        /\ e <= Len(v1) => last = e
    BY <1>1 DEF Pages!Least
  <1> HIDE DEF first, last
  <1>4. chars \in Nat
    <2>1. first \in Int /\ last \in Int /\ 1 <= first
      BY <1>3
    <2>2. QED
      BY <1>3, <2>1, PagesChars
  <1> HIDE DEF chars
  <1>5. shown \in Nat /\ (cap > 0 => shown < cap + Pages!Most(Note, 1))
    BY <1>1, <1>4 DEF Pages!truncate_to_budget, Pages!Most
  <1> HIDE DEF shown
  <1> DEFINE seg == Pages!Segment(s, e, cap)
  <1>7. seg.first = first /\ seg.last = last /\ seg.chars = shown /\ seg.cut = (chars > cap)
    BY <1>2
  <1>8. seg \in Pages!SegmentType
    BY <1>2, <1>3, <1>5 DEF Pages!SegmentType
  <1>9. seg.cut => Pages!segment_chars(seg.first, seg.last) > cap
    BY <1>7 DEF chars
  <1> HIDE DEF seg
  <1>10. QED
    BY <1>5, <1>6, <1>7, <1>8, <1>9 DEF seg


\* What is shown grows by the text of one more segment.
LEMMA PagesShown ==
  ASSUME NEW segs \in Seq(Pages!SegmentType), NEW seg \in Pages!SegmentType
  PROVE  /\ Pages!Shown(<<>>) = 0
         /\ Pages!Shown(segs) \in Nat
         /\ Pages!Shown(Append(segs, seg)) = Pages!Shown(segs) + seg.chars
  <1> DEFINE w == [i \in 1..Len(segs) |-> segs[i].chars]
             more == Append(segs, seg)
             x == [i \in 1..Len(more) |-> more[i].chars]
             none == [i \in 1..0 |-> 0]
  <1>1. /\ Len(segs) \in Nat /\ Len(more) = Len(segs) + 1 /\ more[Len(more)] = seg
        /\ \A i \in 1..Len(segs) : more[i] = segs[i] /\ segs[i] \in Pages!SegmentType
    OBVIOUS
  <1> HIDE DEF more
  <1>2. seg.chars \in Nat /\ \A i \in 1..Len(segs) : segs[i].chars \in Nat
    BY <1>1 DEF Pages!SegmentType
  <1>3. w \in [1..Len(segs) -> Nat] /\ x \in [1..Len(more) -> Nat]
    <2>1. \A i \in 1..Len(more) : more[i].chars \in Nat
      BY <1>1, <1>2
    <2>2. QED
      BY <1>2, <2>1
  <1>4. (\A i \in 1..Len(segs) : x[i] = w[i]) /\ x[Len(more)] = seg.chars
    BY <1>1
  <1> HIDE DEF w, x
  <1>5. Len(w) = Len(segs) /\ Len(x) = Len(more) /\ Len(more) \in Nat
    BY <1>1, <1>3, PagesSequence
  <1>6. Pages!Sums(w)[Len(w)] \in Nat /\ Pages!Sums(x)[Len(x)] = Pages!Sums(w)[Len(w)] + x[Len(x)]
    <2>1. /\ Len(w) \in Nat /\ Len(x) = Len(w) + 1 /\ \A i \in 1..Len(w) : w[i] \in Nat /\ x[i] = w[i]
          /\ x[Len(x)] \in Nat
      BY <1>1, <1>2, <1>3, <1>4, <1>5
    <2>2. QED
      BY <2>1, PagesOneMore
  <1>7. Pages!Shown(segs) = Pages!Sums(w)[Len(w)] /\ Pages!Shown(more) = Pages!Sums(x)[Len(x)]
    BY <1>5 DEF Pages!Shown, w, x
  <1>8. Pages!Shown(<<>>) = 0
    <2>1. none \in [1..0 -> Nat]
      OBVIOUS
    <2> HIDE DEF none
    <2>2. Len(none) = 0 /\ \A i \in 1..Len(none) : none[i] \in Nat
      BY <2>1, PagesSequence
    <2>3. Pages!Sums(none)[0] = 0
      BY <2>2, PagesSums
    <2>4. Len(<<>>) = 0 /\ [i \in 1..0 |-> <<>>[i].chars] = none
      BY DEF none
    <2>5. Pages!Shown(<<>>) = Pages!Sums(none)[0]
      BY <2>4 DEF Pages!Shown
    <2>6. QED
      BY <2>3, <2>5
  <1>9. QED
    BY <1>4, <1>5, <1>6, <1>7, <1>8 DEF more

\* At first nothing is shown.
LEMMA PagesInit == Pages!Init => Pages!IInv
  <1> SUFFICES ASSUME Pages!Init PROVE Pages!IInv
    OBVIOUS
  <1>1. /\ v1 \in Seq(Lengths) /\ v2 \in BOOLEAN /\ v3 \in BOOLEAN /\ v4 \in PageLines /\ v5 \in Budgets
        /\ v6 \in Seq(Pages!Slices) /\ v7 = "choose" /\ v8 = 1 /\ v9 = 0 /\ v10 = 1 /\ v11 = <<>>
        /\ v12 \in BOOLEAN /\ (v6 # <<>> => v12)
    <2>1. v1 \in Seq(Lengths) /\ v6 \in Seq(Pages!Slices)
      <3>1. v1 \in Pages!BoundedSeq(Lengths, MaxLines) /\ v6 \in Pages!BoundedSeq(Pages!Slices, MaxSlices)
        BY DEF Pages!Init
      <3>2. QED
        BY <3>1 DEF Pages!BoundedSeq, Pages!SeqOf
    <2>2. QED
      BY <2>1 DEF Pages!Init
  <1>2. Pages!TypeOK
    <2>1. v11 \in Seq(Pages!SegmentType) /\ Len(v11) = 0 /\ Len(v6) \in Nat
      BY <1>1
    <2>2. QED
      BY <1>1, <2>1 DEF Pages!TypeOK, Pages!Most
  <1>3. Pages!WithinBudget
    <2>1. Pages!Shown(v11) = 0
      <3>1. <<>> \in Seq(Pages!SegmentType)
        OBVIOUS
      <3>2. [first |-> 0, last |-> 0, chars |-> 0, cut |-> TRUE] \in Pages!SegmentType
        BY DEF Pages!SegmentType
      <3>3. QED
        BY <1>1, <3>1, <3>2, PagesShown
    <2>2. v5 \in Nat \ {0} /\ Note \in Nat
      BY <1>1, PagesAssumption
    <2>3. QED
      BY <2>1, <2>2 DEF Pages!WithinBudget, Pages!Most
  <1>4. Pages!HeadSearch /\ Pages!TailSearch /\ Pages!Showing /\ Pages!PageIsLongest
    BY <1>1 DEF Pages!HeadSearch, Pages!TailSearch, Pages!Showing, Pages!PageIsLongest
  <1>5. QED
    BY <1>2, <1>3, <1>4 DEF Pages!IInv

\* The first and the last line of the page before it is shrunk.
LEMMA PagesEnds ==
  ASSUME Pages!TypeOK
  PROVE  /\ Len(v1) \in Nat /\ v4 \in Nat \ {0} /\ v5 \in Nat \ {0} /\ Note \in Nat
         /\ Pages!FirstOfPage \in Nat \ {0} /\ Pages!LastOfPage \in Nat
         /\ Pages!LastOfPage <= Len(v1) /\ Pages!total_lines = Len(v1)
         /\ Len(v1) > 0 => Pages!FirstOfPage <= Pages!LastOfPage
         /\ Pages!FirstOfPage # 1 => v2 /\ Pages!LastOfPage = Len(v1)
  <1>1. Len(v1) \in Nat /\ v4 \in Nat \ {0} /\ v5 \in Nat \ {0} /\ Note \in Nat /\ Pages!total_lines = Len(v1)
    BY PagesChars, PagesAssumption DEF Pages!TypeOK
  <1>2. QED
    BY <1>1 DEF Pages!FirstOfPage, Pages!LastOfPage, Pages!Most, Pages!Least

\* What stays the same when only the search goes on.
LEMMA PagesSearchOn ==
  ASSUME Pages!IInv, UNCHANGED <<v1, v2, v3, v4, v5, v6, v11, v12>>,
         v7' \in {"head", "tail", "show"}, v11 = <<>>,
         v8' \in Nat, v9' \in Nat, v10' \in Nat,
         Pages!HeadSearch', Pages!TailSearch', v7' = "show" /\ v6 = <<>> => Len(v1) = 0 \/ v12
  PROVE  Pages!IInv'
  <1>1. Pages!TypeOK'
    BY DEF Pages!IInv, Pages!TypeOK
  <1>2. Pages!WithinBudget'
    BY DEF Pages!IInv, Pages!WithinBudget, Pages!Shown
  <1>3. Pages!Showing'
    BY DEF Pages!IInv, Pages!Showing, Pages!total_lines
  <1>4. Pages!PageIsLongest'
    BY DEF Pages!PageIsLongest
  <1>5. QED
    BY <1>1, <1>2, <1>3, <1>4 DEF Pages!IInv

\* The text of lines is as long as it was while the file and the wrapping stay.
LEMMA PagesSame ==
  ASSUME UNCHANGED <<v1, v2, v3, v4, v5, v6>>
  PROVE  /\ \A s, e : (Pages!segment_chars(s, e))' = Pages!segment_chars(s, e)
         /\ Pages!FirstOfPage' = Pages!FirstOfPage /\ Pages!LastOfPage' = Pages!LastOfPage
         /\ Pages!total_lines' = Pages!total_lines
  <1>1. Pages!total_lines' = Pages!total_lines /\ Pages!widths' = Pages!widths
    BY DEF Pages!total_lines, Pages!widths, Pages!wrapped
  <1>2. QED
    BY <1>1 DEF Pages!segment_chars, Pages!FirstOfPage, Pages!LastOfPage, Pages!total_lines

\* The first page to try, or the slices.
LEMMA PagesChoose ==
  ASSUME Pages!IInv, Pages!ChoosePage \/ Pages!ChooseSlices
  PROVE  Pages!IInv'
  <1>1. Pages!TypeOK /\ UNCHANGED <<v1, v2, v3, v4, v5, v6, v11, v12>> /\ v11 = <<>>
    BY DEF Pages!IInv, Pages!Showing, Pages!ChoosePage, Pages!ChooseSlices, Pages!input
  <1>2. /\ Pages!FirstOfPage' = Pages!FirstOfPage /\ Pages!LastOfPage' = Pages!LastOfPage
        /\ Pages!total_lines' = Pages!total_lines
    BY <1>1, PagesSame
  <1>3. /\ Len(v1) \in Nat /\ Pages!FirstOfPage \in Nat \ {0} /\ Pages!LastOfPage \in Nat
        /\ Pages!LastOfPage <= Len(v1) /\ Pages!total_lines = Len(v1)
        /\ Len(v1) > 0 => Pages!FirstOfPage <= Pages!LastOfPage
        /\ Pages!FirstOfPage # 1 => Pages!LastOfPage = Len(v1)
    BY <1>1, PagesEnds
  <1>4. CASE Pages!ChooseSlices
    <2>1. v7' = "show" /\ v6 # <<>> /\ v8' = v8 /\ v9' = v9 /\ v10' = v10
      BY <1>4 DEF Pages!ChooseSlices
    <2>2. Pages!HeadSearch' /\ Pages!TailSearch'
      BY <2>1 DEF Pages!HeadSearch, Pages!TailSearch
    <2>3. v8' \in Nat /\ v9' \in Nat /\ v10' \in Nat
      BY <1>1, <2>1 DEF Pages!TypeOK
    <2>4. QED
      BY <1>1, <2>1, <2>2, <2>3, PagesSearchOn
  <1>5. CASE Pages!ChoosePage
    <2>1. /\ v7' = (IF Len(v1) = 0 \/ v12 THEN "show" ELSE IF Pages!FirstOfPage = 1 THEN "head" ELSE "tail")
          /\ v8' = Pages!FirstOfPage /\ v9' = Pages!LastOfPage
          /\ v10' = (IF Pages!FirstOfPage = 1 THEN 1 ELSE Pages!LastOfPage)
          /\ v6 = <<>>
      BY <1>3, <1>5 DEF Pages!ChoosePage
    <2>2. Pages!HeadSearch'
      <3> SUFFICES ASSUME v7' = "head" PROVE Pages!HeadSearch'
        BY DEF Pages!HeadSearch
      <3>1. Len(v1) > 0 /\ ~v12 /\ Pages!FirstOfPage = 1 /\ v8' = 1 /\ v10' = 1
        BY <1>3, <2>1
      <3>2. QED
        BY <1>1, <1>2, <1>3, <2>1, <3>1 DEF Pages!HeadSearch, Pages!Most
    <2>3. Pages!TailSearch'
      <3> SUFFICES ASSUME v7' = "tail" PROVE Pages!TailSearch'
        BY DEF Pages!TailSearch
      <3>1. Len(v1) > 0 /\ ~v12 /\ Pages!FirstOfPage # 1 /\ v9' = Len(v1) /\ v10' = Len(v1) /\ v8' = Pages!FirstOfPage
        BY <1>3, <2>1
      <3>2. QED
        BY <1>1, <1>2, <1>3, <2>1, <3>1 DEF Pages!TailSearch, Pages!Least
    <2>4. v7' \in {"head", "tail", "show"} /\ (v7' = "show" => Len(v1) = 0 \/ v12)
      BY <1>3, <2>1
    <2>5. v8' \in Nat /\ v9' \in Nat /\ v10' \in Nat
      BY <1>3, <2>1
    <2>6. QED
      BY <1>1, <2>2, <2>3, <2>4, <2>5, PagesSearchOn
  <1>6. QED
    BY <1>4, <1>5

\* The middle is between the ends.
LEMMA PagesMiddle ==
  ASSUME v8 \in Nat, v9 \in Nat, v8 <= v9
  PROVE  Pages!mid \in Nat /\ v8 <= Pages!mid /\ Pages!mid <= v9
  BY DEF Pages!mid

\* A turn of the search for the last line.
LEMMA PagesHeadTurn ==
  ASSUME Pages!IInv, Pages!HeadTurn
  PROVE  Pages!IInv'
  <1> DEFINE m == Pages!mid
  <1>1. /\ Pages!TypeOK /\ UNCHANGED <<v1, v2, v3, v4, v5, v6, v11, v12>> /\ v11 = <<>> /\ v7 = "head" /\ v7' = "head"
        /\ v8 \in Nat /\ v9 \in Nat /\ v8 <= v9
    BY DEF Pages!IInv, Pages!TypeOK, Pages!Showing, Pages!HeadTurn, Pages!input
  <1>2. /\ Pages!FirstOfPage' = Pages!FirstOfPage /\ Pages!LastOfPage' = Pages!LastOfPage
        /\ Pages!total_lines' = Pages!total_lines
        /\ \A s, e : (Pages!segment_chars(s, e))' = Pages!segment_chars(s, e)
    BY <1>1, PagesSame
  <1>3. /\ Pages!FirstOfPage = 1 /\ Pages!total_lines > 0 /\ v6 = <<>> /\ ~v12
        /\ 1 <= v8 /\ v9 <= Pages!LastOfPage
        /\ v10 = Pages!Most(1, v8 - 1)
        /\ v8 > 1 => Pages!segment_chars(1, v8 - 1) <= v5
        /\ v9 < Pages!LastOfPage => Pages!segment_chars(1, v9 + 1) > v5
    BY <1>1 DEF Pages!IInv, Pages!HeadSearch
  <1>4. m \in Nat /\ v8 <= m /\ m <= v9
    BY <1>1, PagesMiddle
  <1>5. \/ Pages!segment_chars(1, m) <= v5 /\ v10' = m /\ v8' = m + 1 /\ v9' = v9
        \/ ~(Pages!segment_chars(1, m) <= v5) /\ v9' = m - 1 /\ v10' = v10 /\ v8' = v8
    BY DEF Pages!HeadTurn
  <1>6. Pages!segment_chars(1, m) \in Nat /\ v5 \in Nat /\ Pages!LastOfPage \in Nat
    <2>1. Pages!LastOfPage \in Nat /\ Pages!LastOfPage <= Len(v1) /\ v5 \in Nat /\ Len(v1) \in Nat
      BY <1>1, PagesEnds
    <2>2. 1 \in Int /\ m \in Int /\ m <= Len(v1)
      BY <1>3, <1>4, <1>1, <2>1
    <2>3. QED
      BY <1>1, <2>1, <2>2, PagesChars
  <1> HIDE DEF m
  <1>7. Pages!HeadSearch'
    <2>1. CASE Pages!segment_chars(1, m) <= v5 /\ v10' = m /\ v8' = m + 1 /\ v9' = v9
      <3>1. m = Pages!Most(1, (m + 1) - 1) /\ (m + 1) - 1 = m
        BY <1>1, <1>3, <1>4 DEF Pages!Most
      <3>2. 1 <= m + 1 /\ m + 1 <= v9 + 1
        BY <1>1, <1>4
      <3>3. (Pages!Most(1, v8 - 1))' = Pages!Most(1, (m + 1) - 1)
        BY <2>1 DEF Pages!Most
      <3>4. QED
        BY <1>1, <1>2, <1>3, <2>1, <3>1, <3>2, <3>3 DEF Pages!HeadSearch
    <2>2. CASE ~(Pages!segment_chars(1, m) <= v5) /\ v9' = m - 1 /\ v10' = v10 /\ v8' = v8
      <3>1. (m - 1) + 1 = m /\ Pages!segment_chars(1, m) > v5 /\ v8 <= (m - 1) + 1 /\ m - 1 <= Pages!LastOfPage
        BY <1>1, <1>3, <1>4, <1>6, <2>2
      <3>2. (Pages!Most(1, v8 - 1))' = Pages!Most(1, v8 - 1)
        BY <2>2 DEF Pages!Most
      <3>3. QED
        BY <1>1, <1>2, <1>3, <2>2, <3>1, <3>2 DEF Pages!HeadSearch
    <2>3. QED
      BY <1>5, <2>1, <2>2
  <1>8. Pages!TailSearch'
    BY <1>1 DEF Pages!TailSearch
  <1>9. v8' \in Nat /\ v9' \in Nat /\ v10' \in Nat
    BY <1>1, <1>3, <1>4, <1>5 DEF Pages!Most
  <1>10. QED
    BY <1>1, <1>7, <1>8, <1>9, PagesSearchOn

\* A turn of the search for the first line of a tail.
LEMMA PagesTailTurn ==
  ASSUME Pages!IInv, Pages!TailTurn
  PROVE  Pages!IInv'
  <1> DEFINE m == Pages!mid
             n == Pages!total_lines
  <1>1. /\ Pages!TypeOK /\ UNCHANGED <<v1, v2, v3, v4, v5, v6, v11, v12>> /\ v11 = <<>> /\ v7 = "tail" /\ v7' = "tail"
        /\ v8 \in Nat /\ v9 \in Nat /\ v8 <= v9
    BY DEF Pages!IInv, Pages!TypeOK, Pages!Showing, Pages!TailTurn, Pages!input
  <1>2. /\ Pages!FirstOfPage' = Pages!FirstOfPage /\ n' = n
        /\ \A s, e : (Pages!segment_chars(s, e))' = Pages!segment_chars(s, e)
    BY <1>1, PagesSame
  <1>3. /\ Pages!FirstOfPage > 1 /\ n > 0 /\ v6 = <<>> /\ ~v12
        /\ Pages!FirstOfPage <= v8 /\ v9 <= n
        /\ v10 = Pages!Least(v9 + 1, n)
        /\ v9 < n => Pages!segment_chars(v9 + 1, n) <= v5
        /\ v8 > Pages!FirstOfPage => Pages!segment_chars(v8 - 1, n) > v5
    BY <1>1 DEF Pages!IInv, Pages!TailSearch
  <1>4. m \in Nat /\ v8 <= m /\ m <= v9
    BY <1>1, PagesMiddle
  <1>5. \/ Pages!segment_chars(m, n) <= v5 /\ v10' = m /\ v9' = m - 1 /\ v8' = v8
        \/ ~(Pages!segment_chars(m, n) <= v5) /\ v8' = m + 1 /\ v10' = v10 /\ v9' = v9
    BY DEF Pages!TailTurn, Pages!After
  <1>6. Pages!segment_chars(m, n) \in Nat /\ v5 \in Nat /\ n \in Nat /\ Pages!FirstOfPage \in Nat
    <2>1. Pages!FirstOfPage \in Nat /\ v5 \in Nat /\ Len(v1) \in Nat /\ n = Len(v1)
      BY <1>1, PagesEnds
    <2>2. n \in Int /\ m \in Int /\ 1 <= m
      BY <1>1, <1>3, <1>4, <2>1
    <2>3. Pages!segment_chars(m, n) \in Nat
      <3> HIDE DEF m, n
      <3>1. QED
        BY <1>1, <2>1, <2>2, PagesChars
    <2>4. QED
      BY <2>1, <2>3
  <1> HIDE DEF m, n
  <1>7. Pages!TailSearch'
    <2>1. CASE Pages!segment_chars(m, n) <= v5 /\ v10' = m /\ v9' = m - 1 /\ v8' = v8
      <3>1. m = Pages!Least((m - 1) + 1, n) /\ (m - 1) + 1 = m /\ v8 <= (m - 1) + 1 /\ m - 1 <= n
        BY <1>1, <1>3, <1>4, <1>6 DEF Pages!Least
      <3>2. (Pages!Least(v9 + 1, n))' = Pages!Least((m - 1) + 1, n)
        BY <1>2, <2>1 DEF Pages!Least
      <3>3. QED
        BY <1>1, <1>2, <1>3, <2>1, <3>1, <3>2 DEF Pages!TailSearch, n
    <2>2. CASE ~(Pages!segment_chars(m, n) <= v5) /\ v8' = m + 1 /\ v10' = v10 /\ v9' = v9
      <3>1. /\ (m + 1) - 1 = m /\ Pages!segment_chars(m, n) > v5 /\ m + 1 <= v9 + 1
            /\ Pages!FirstOfPage <= m + 1
        BY <1>1, <1>3, <1>4, <1>6, <2>2
      <3>2. (Pages!Least(v9 + 1, n))' = Pages!Least(v9 + 1, n)
        BY <1>2, <2>2 DEF Pages!Least
      <3>3. QED
        BY <1>1, <1>2, <1>3, <2>2, <3>1, <3>2 DEF Pages!TailSearch, n
    <2>3. QED
      BY <1>5, <2>1, <2>2
  <1>8. Pages!HeadSearch'
    BY <1>1 DEF Pages!HeadSearch
  <1>9. v8' \in Nat /\ v9' \in Nat /\ v10' \in Nat
    <2>1. m - 1 \in Nat /\ v10 \in Nat
      BY <1>1, <1>3, <1>4, <1>6 DEF Pages!Least
    <2>2. QED
      BY <1>1, <1>4, <1>5, <2>1
  <1>10. QED
    BY <1>1, <1>7, <1>8, <1>9, PagesSearchOn

\* A slice is shown in what the slices before it left of the budget.
LEMMA PagesSlice ==
  ASSUME Pages!IInv, Pages!ShowSlice
  PROVE  Pages!IInv'
  <1> DEFINE slice == v6[Len(v11) + 1]
             rest == Pages!Remaining(v11)
             whole == Pages!Segment(slice[1], slice[2], rest)
             seg == IF rest = 0 THEN [whole EXCEPT !.chars = 0] ELSE whole
  <1>1. /\ Pages!TypeOK /\ UNCHANGED <<v1, v2, v3, v4, v5, v6, v8, v9, v10, v12>> /\ v7 = "show"
        /\ Len(v11) < Len(v6) /\ v11' = Append(v11, seg)
        /\ v7' = IF Len(v11') = Len(v6) THEN "done" ELSE "show"
    BY DEF Pages!IInv, Pages!ShowSlice, Pages!input
  <1>2. /\ v11 \in Seq(Pages!SegmentType) /\ Len(v11) \in Nat /\ Len(v6) \in Nat /\ v6 # <<>>
        /\ v5 \in Nat \ {0} /\ Note \in Nat
    <2>1. v6 \in Seq(Pages!Slices) /\ v11 \in Seq(Pages!SegmentType)
      BY <1>1 DEF Pages!TypeOK
    <2>2. QED
      BY <1>1, <2>1, PagesEnds
  <1>3. slice[1] \in Nat \ {0} /\ slice[2] \in Nat
    <2>1. v6 \in Seq(Pages!Slices)
      BY <1>1 DEF Pages!TypeOK
    <2>2. slice \in Pages!Slices
      BY <1>1, <1>2, <2>1
    <2>3. MaxNamed \in Nat
      BY PagesAssumption
    <2>4. QED
      BY <2>2, <2>3 DEF Pages!Slices
  <1>4. Pages!Shown(v11) \in Nat
    <2>1. [first |-> 0, last |-> 0, chars |-> 0, cut |-> TRUE] \in Pages!SegmentType
      BY DEF Pages!SegmentType
    <2>2. QED
      BY <1>2, <2>1, PagesShown
  <1>5. rest \in Nat /\ (rest > 0 => rest = v5 - Pages!Shown(v11))
    BY <1>2, <1>4 DEF Pages!Remaining, Pages!Most
  <1> HIDE DEF rest, slice
  <1>6. whole \in Pages!SegmentType /\ (rest > 0 => whole.chars < rest + Pages!Most(Note, 1))
    BY <1>1, <1>3, <1>5, PagesSegment
  <1> HIDE DEF whole
  <1>7. /\ seg \in Pages!SegmentType
        /\ seg.chars = 0 \/ (rest > 0 /\ seg.chars < rest + Pages!Most(Note, 1))
    BY <1>5, <1>6 DEF Pages!SegmentType
  <1> HIDE DEF seg
  <1>8. Pages!Shown(v11') = Pages!Shown(v11) + seg.chars /\ seg.chars \in Nat
    BY <1>1, <1>2, <1>7, PagesShown DEF Pages!SegmentType
  <1>9. Pages!WithinBudget'
    <2>1. Pages!Shown(v11) < v5 + Pages!Most(Note, 1)
      BY DEF Pages!IInv, Pages!WithinBudget
    <2>2. Pages!Most(Note, 1) \in Nat
      BY <1>2 DEF Pages!Most
    <2>3. Pages!Shown(v11') < v5 + Pages!Most(Note, 1)
      BY <1>2, <1>4, <1>5, <1>7, <1>8, <2>1, <2>2
    <2>4. QED
      BY <1>1, <2>3 DEF Pages!WithinBudget, Pages!Shown
  <1>10. Pages!TypeOK'
    <2>1. v11' \in Seq(Pages!SegmentType) /\ Len(v11') = Len(v11) + 1
      BY <1>1, <1>2, <1>7
    <2>2. Len(v11') <= Pages!Most(Len(v6), 1)
      BY <1>1, <1>2, <2>1 DEF Pages!Most
    <2>3. v7' \in {"show", "done"}
      BY <1>1
    <2>4. QED
      BY <1>1, <2>1, <2>2, <2>3 DEF Pages!TypeOK
  <1>11. Pages!HeadSearch' /\ Pages!TailSearch' /\ Pages!Showing' /\ Pages!PageIsLongest'
    <2>1. v12
      BY <1>2 DEF Pages!IInv, Pages!Showing
    <2>2. QED
      BY <1>1, <1>2, <2>1 DEF Pages!HeadSearch, Pages!TailSearch, Pages!Showing, Pages!PageIsLongest
  <1>12. QED
    BY <1>9, <1>10, <1>11 DEF Pages!IInv

\* A page that is shown is the longest one.
LEMMA PagesLongest ==
  ASSUME Pages!IInv, Pages!ShowPage, Len(v1) > 0, NEW seg, v11' = <<seg>>,
         \/ v7 = "head" /\ seg = Pages!Segment(1, v10, v5)
         \/ v7 = "tail" /\ seg = Pages!Segment(v10, Pages!total_lines, v5)
  PROVE  /\ v10 \in Nat \ {0} /\ v10 <= Len(v1)
         /\ Pages!PageIsLongest'
  <1> DEFINE n == Pages!total_lines
  <1>1. /\ Pages!TypeOK /\ UNCHANGED <<v1, v2, v3, v4, v5, v6, v8, v9, v10, v12>> /\ v8 \in Nat /\ v9 \in Nat
        /\ v8 > v9
    BY DEF Pages!IInv, Pages!TypeOK, Pages!ShowPage, Pages!input
  <1>2. /\ Pages!FirstOfPage' = Pages!FirstOfPage /\ Pages!LastOfPage' = Pages!LastOfPage /\ n' = n
        /\ \A s, e : (Pages!segment_chars(s, e))' = Pages!segment_chars(s, e)
    BY <1>1, PagesSame
  <1>3. /\ n = Len(v1) /\ n \in Nat \ {0} /\ v5 \in Nat \ {0}
        /\ Pages!FirstOfPage \in Nat \ {0} /\ Pages!LastOfPage \in Nat
        /\ Pages!LastOfPage <= n /\ Pages!FirstOfPage <= Pages!LastOfPage
        /\ Pages!FirstOfPage # 1 => v2 /\ Pages!LastOfPage = n
    BY <1>1, PagesEnds
  <1>4. /\ \A s, e \in Int : (1 <= s /\ e <= n) \/ e < s => Pages!segment_chars(s, e) \in Nat
        /\ \A s \in 1..n : \A e \in s..n - 1 : Pages!segment_chars(s, e) < Pages!segment_chars(s, e + 1)
        /\ \A s \in 2..n : \A e \in s..n : Pages!segment_chars(s, e) < Pages!segment_chars(s - 1, e)
    BY <1>1, <1>3, PagesChars
  <1> HIDE DEF n
  <1>5. CASE v7 = "head" /\ seg = Pages!Segment(1, v10, v5)
    <2>1. /\ Pages!FirstOfPage = 1 /\ v8 = v9 + 1 /\ v9 <= Pages!LastOfPage
          /\ v10 = IF v8 > 2 THEN v8 - 1 ELSE 1
          /\ v8 >= 1
          /\ v8 > 1 => Pages!segment_chars(1, v8 - 1) <= v5
          /\ v9 < Pages!LastOfPage => Pages!segment_chars(1, v9 + 1) > v5
      BY <1>1, <1>5 DEF Pages!IInv, Pages!HeadSearch, Pages!Most
    <2>2. v10 \in Nat \ {0} /\ v10 <= Pages!LastOfPage /\ v10 <= n
      BY <1>1, <1>3, <2>1
    <2>3. seg.first = 1 /\ seg.last = v10 /\ (seg.cut => Pages!segment_chars(1, v10) > v5)
      <3>1. 1 \in Nat \ {0} /\ v10 \in Nat /\ v5 \in Nat /\ 1 <= Len(v1) /\ v10 <= Len(v1)
        BY <1>3, <2>2
      <3>2. /\ seg.first = 1 /\ seg.last = v10
            /\ seg.cut => Pages!segment_chars(seg.first, seg.last) > v5
        BY <1>1, <1>5, <3>1, PagesSegment
      <3>3. QED
        BY <3>2
    <2>4. seg.cut => v10 = 1
      <3>1. v8 > 1 => v10 = v8 - 1
        BY <1>1, <2>1
      <3>2. v8 > 1 => Pages!segment_chars(1, v10) <= v5 /\ Pages!segment_chars(1, v10) \in Nat
        BY <1>4, <2>1, <2>2, <3>1
      <3>3. v8 > 1 => ~(Pages!segment_chars(1, v10) > v5)
        BY <1>3, <3>2
      <3>4. v8 = 1 => v10 = 1
        BY <2>1
      <3>5. QED
        BY <1>1, <2>1, <2>3, <3>3, <3>4
    <2>5. v10 < Pages!LastOfPage => Pages!segment_chars(1, v10 + 1) > v5
      <3> SUFFICES ASSUME v10 < Pages!LastOfPage PROVE Pages!segment_chars(1, v10 + 1) > v5
        OBVIOUS
      <3>1. CASE v9 = v10
        BY <2>1, <3>1
      <3>2. CASE v9 # v10
        <4>1. v9 = 0 /\ v10 = 1
          BY <1>1, <2>1, <3>2
        <4>2. Pages!segment_chars(1, 1) > v5
          BY <1>3, <2>1, <4>1
        <4>3. 1 \in 1..n /\ 1 \in 1..n - 1
          BY <1>3, <4>1
        <4>4. Pages!segment_chars(1, 1) < Pages!segment_chars(1, 1 + 1)
          BY <1>4, <4>3
        <4>5. Pages!segment_chars(1, 1) \in Nat /\ Pages!segment_chars(1, 1 + 1) \in Nat
          BY <1>3, <1>4, <4>3
        <4>6. QED
          BY <1>3, <4>1, <4>2, <4>4, <4>5
      <3>3. QED
        BY <3>1, <3>2
    <2>6. Pages!PageIsLongest'
      <3>1. v11'[1] = seg
        OBVIOUS
      <3>2. /\ seg.cut => seg.first = seg.last
            /\ seg.first = 1 /\ ~(Pages!FirstOfPage > 1)
            /\ seg.last < Pages!LastOfPage => Pages!segment_chars(1, seg.last + 1) > v5
            /\ ~(seg.first > Pages!FirstOfPage)
        BY <2>1, <2>3, <2>4, <2>5
      <3>3. QED
        BY <1>1, <1>2, <3>1, <3>2 DEF Pages!PageIsLongest
    <2>7. QED
      BY <1>3, <2>2, <2>6
  <1>6. CASE v7 = "tail" /\ seg = Pages!Segment(v10, n, v5)
    <2>1. /\ Pages!FirstOfPage > 1 /\ v8 = v9 + 1 /\ v9 <= n /\ Pages!FirstOfPage <= v8
          /\ v10 = IF v9 + 1 < n THEN v9 + 1 ELSE n
          /\ v9 < n => Pages!segment_chars(v9 + 1, n) <= v5
          /\ v8 > Pages!FirstOfPage => Pages!segment_chars(v8 - 1, n) > v5
      BY <1>1, <1>6 DEF Pages!IInv, Pages!TailSearch, Pages!Least, n
    <2>2. v10 \in Nat \ {0} /\ v10 <= n /\ v10 > 1
      BY <1>1, <1>3, <2>1
    <2>3. seg.first = v10 /\ seg.last = n /\ (seg.cut => Pages!segment_chars(v10, n) > v5)
      <3>1. v10 \in Nat \ {0} /\ n \in Nat /\ v5 \in Nat /\ v10 <= Len(v1) /\ n <= Len(v1) /\ Len(v1) > 0
        BY <1>3, <2>2
      <3>2. /\ seg.first = v10 /\ seg.last = n
            /\ seg.cut => Pages!segment_chars(seg.first, seg.last) > v5
        BY <1>1, <1>6, <3>1, PagesSegment
      <3>3. QED
        BY <3>2
    <2>4. seg.cut => v10 = n
      <3>1. v9 < n => v10 = v9 + 1
        BY <1>1, <1>3, <2>1
      <3>2. v9 < n => Pages!segment_chars(v10, n) <= v5 /\ Pages!segment_chars(v10, n) \in Nat
        <4>1. v10 \in Int /\ n \in Int /\ 1 <= v10
          BY <1>3, <2>2
        <4>2. QED
          BY <1>4, <2>1, <3>1, <4>1
      <3>3. v9 < n => ~(Pages!segment_chars(v10, n) > v5)
        BY <1>3, <3>2
      <3>4. ~(v9 < n) => v10 = n
        BY <1>1, <1>3, <2>1
      <3>5. QED
        BY <2>3, <3>3, <3>4
    <2>5. v10 > Pages!FirstOfPage => Pages!segment_chars(v10 - 1, n) > v5
      <3> SUFFICES ASSUME v10 > Pages!FirstOfPage PROVE Pages!segment_chars(v10 - 1, n) > v5
        OBVIOUS
      <3>1. CASE v8 = v10
        BY <2>1, <3>1
      <3>2. CASE v8 # v10
        <4>1. v8 = n + 1 /\ v10 = n /\ v8 > Pages!FirstOfPage /\ v8 - 1 = n
          BY <1>1, <1>3, <2>1, <3>2
        <4>2. Pages!segment_chars(n, n) > v5
          BY <2>1, <4>1
        <4>3. n \in 2..n /\ n \in n..n
          BY <1>3, <2>2, <4>1
        <4>4. Pages!segment_chars(n, n) < Pages!segment_chars(n - 1, n)
          BY <1>4, <4>3
        <4>5. Pages!segment_chars(n, n) \in Nat /\ Pages!segment_chars(n - 1, n) \in Nat
          <5>1. n \in Int /\ n - 1 \in Int /\ 1 <= n /\ 1 <= n - 1 /\ n <= n
            BY <1>3, <2>2, <4>1
          <5>2. QED
            BY <1>4, <5>1
        <4>6. QED
          BY <1>3, <4>1, <4>2, <4>4, <4>5
      <3>3. QED
        BY <3>1, <3>2
    <2>6. Pages!PageIsLongest'
      <3>1. v11'[1] = seg
        OBVIOUS
      <3>2. /\ seg.cut => seg.first = seg.last
            /\ seg.last = n /\ Pages!FirstOfPage > 1 /\ Pages!FirstOfPage # 1
            /\ seg.first > Pages!FirstOfPage => Pages!segment_chars(seg.first - 1, n) > v5
        BY <1>3, <2>1, <2>2, <2>3, <2>4, <2>5
      <3>3. QED
        BY <1>1, <1>2, <3>1, <3>2 DEF Pages!PageIsLongest, n
    <2>7. QED
      BY <1>3, <2>2, <2>6
  <1>7. QED
    BY <1>5, <1>6 DEF n

\* The page is shown.
LEMMA PagesShow ==
  ASSUME Pages!IInv, Pages!ShowPage
  PROVE  Pages!IInv'
  <1>1. /\ Pages!TypeOK /\ UNCHANGED <<v1, v2, v3, v4, v5, v6, v8, v9, v10, v12>>
        /\ v7 \in {"head", "tail", "show"} /\ v6 = <<>> /\ v7' = "done"
    BY DEF Pages!IInv, Pages!ShowPage, Pages!input
  <1>2. Len(v1) \in Nat /\ Pages!total_lines = Len(v1) /\ v5 \in Nat \ {0} /\ Note \in Nat
    BY <1>1, PagesEnds
  <1>3. v11' \in Seq(Pages!SegmentType) /\ Len(v11') <= 1 /\ Pages!PageIsLongest' /\ Pages!WithinBudget'
    <2>1. CASE Len(v1) = 0
      <3>1. v11' = <<>>
        BY <1>2, <2>1 DEF Pages!ShowPage
      <3>2. [first |-> 0, last |-> 0, chars |-> 0, cut |-> TRUE] \in Pages!SegmentType /\ <<>> \in Seq(Pages!SegmentType)
        BY DEF Pages!SegmentType
      <3>3. Pages!Shown(v11') = 0
        BY <3>1, <3>2, PagesShown
      <3>4. 0 < v5 + Pages!Most(Note, 1)
        BY <1>2 DEF Pages!Most
      <3>5. Pages!WithinBudget'
        BY <1>1, <3>3, <3>4 DEF Pages!WithinBudget, Pages!Shown, Pages!Most
      <3>6. Pages!PageIsLongest'
        BY <3>1 DEF Pages!PageIsLongest
      <3>7. Len(v11') <= 1
        BY <3>1
      <3>8. QED
        BY <3>1, <3>5, <3>6, <3>7
    <2>2. CASE Len(v1) # 0
      <3> DEFINE seg == IF v7 = "show" THEN Pages!Segment(Pages!FirstOfPage, Pages!LastOfPage, v5)
                        ELSE IF v7 = "head" THEN Pages!Segment(1, v10, v5)
                        ELSE Pages!Segment(v10, Pages!total_lines, v5)
      <3>1. v11' = <<seg>>
        BY <1>2, <2>2 DEF Pages!ShowPage
      <3>2. v7 = "show" => v12 /\ seg = Pages!Segment(Pages!FirstOfPage, Pages!LastOfPage, v5)
        <4>1. v7 = "show" => Pages!total_lines = 0 \/ v12
          BY <1>1 DEF Pages!IInv, Pages!Showing
        <4>2. QED
          BY <1>2, <2>2, <4>1
      <3>3. \/ v7 = "show"
            \/ v7 = "head" /\ seg = Pages!Segment(1, v10, v5)
            \/ v7 = "tail" /\ seg = Pages!Segment(v10, Pages!total_lines, v5)
        BY <1>1
      <3> HIDE DEF seg
      <3>4. v7 # "show" => v10 \in Nat \ {0} /\ Pages!PageIsLongest'
        BY <1>2, <2>2, <3>1, <3>3, PagesLongest
      <3>4x. Pages!PageIsLongest'
        <4>1. v7 = "show" => v12'
          BY <1>1, <3>2
        <4>2. v12' => Pages!PageIsLongest'
          BY DEF Pages!PageIsLongest
        <4>3. QED
          BY <3>4, <4>1, <4>2
      <3>5. seg \in Pages!SegmentType /\ seg.chars < v5 + Pages!Most(Note, 1)
        <4>1. v5 \in Nat /\ v5 > 0 /\ 1 \in Nat \ {0} /\ Pages!total_lines \in Nat
          BY <1>2
        <4>2. CASE v7 = "show"
          <5>1. Pages!FirstOfPage \in Nat \ {0} /\ Pages!LastOfPage \in Nat
            BY <1>1, PagesEnds
          <5>2. QED
            BY <1>1, <3>2, <4>1, <4>2, <5>1, PagesSegment
        <4>3. CASE v7 # "show" /\ seg = Pages!Segment(1, v10, v5)
          <5>1. v10 \in Nat
            BY <3>4, <4>3
          <5>2. QED
            BY <1>1, <4>1, <4>3, <5>1, PagesSegment
        <4>4. CASE v7 # "show" /\ seg = Pages!Segment(v10, Pages!total_lines, v5)
          <5>1. v10 \in Nat \ {0}
            BY <3>4, <4>4
          <5>2. QED
            BY <1>1, <4>1, <4>4, <5>1, PagesSegment
        <4>5. QED
          BY <3>3, <4>2, <4>3, <4>4
      <3>6. Pages!Shown(v11') = seg.chars
        <4>1. <<>> \in Seq(Pages!SegmentType) /\ Append(<<>>, seg) = <<seg>>
          OBVIOUS
        <4>2. Pages!Shown(<<>>) = 0 /\ Pages!Shown(Append(<<>>, seg)) = Pages!Shown(<<>>) + seg.chars
          BY <3>5, <4>1, PagesShown
        <4>3. seg.chars \in Nat
          BY <3>5 DEF Pages!SegmentType
        <4>4. QED
          BY <3>1, <4>1, <4>2, <4>3
      <3>7. Pages!WithinBudget'
        BY <1>1, <3>5, <3>6 DEF Pages!WithinBudget, Pages!Shown, Pages!Most
      <3>8. QED
        BY <3>1, <3>4x, <3>5, <3>7
    <2>3. QED
      BY <2>1, <2>2
  <1>4. Pages!TypeOK'
    <2>1. Len(v11') <= Pages!Most(Len(v6), 1)
      BY <1>1, <1>3 DEF Pages!Most
    <2>2. QED
      BY <1>1, <1>3, <2>1 DEF Pages!TypeOK
  <1>5. Pages!HeadSearch' /\ Pages!TailSearch' /\ Pages!Showing'
    BY <1>1 DEF Pages!IInv, Pages!HeadSearch, Pages!TailSearch, Pages!Showing
  <1>6. QED
    BY <1>3, <1>4, <1>5 DEF Pages!IInv

\* Every step of the reading keeps the invariant.
LEMMA PagesStep == Pages!IInv /\ [Pages!Next]_(Pages!vars) => Pages!IInv'
  <1> SUFFICES ASSUME Pages!IInv, [Pages!Next]_(Pages!vars) PROVE Pages!IInv'
    OBVIOUS
  <1>1. CASE UNCHANGED Pages!vars
    <2>1. UNCHANGED <<v1, v2, v3, v4, v5, v6, v7, v8, v9, v10, v11, v12>>
      BY <1>1 DEF Pages!vars
    <2>2. /\ Pages!FirstOfPage' = Pages!FirstOfPage /\ Pages!LastOfPage' = Pages!LastOfPage
          /\ Pages!total_lines' = Pages!total_lines
          /\ \A s, e : (Pages!segment_chars(s, e))' = Pages!segment_chars(s, e)
      BY <2>1, PagesSame
    <2>3. Pages!TypeOK' /\ Pages!WithinBudget' /\ Pages!Showing'
      BY <2>1, <2>2 DEF Pages!IInv, Pages!TypeOK, Pages!WithinBudget, Pages!Shown, Pages!Showing
    <2>4. Pages!HeadSearch' /\ Pages!TailSearch'
      BY <2>1, <2>2 DEF Pages!IInv, Pages!HeadSearch, Pages!TailSearch, Pages!Most, Pages!Least
    <2>5. Pages!PageIsLongest'
      BY <2>1, <2>2 DEF Pages!IInv, Pages!PageIsLongest
    <2>6. QED
      BY <2>3, <2>4, <2>5 DEF Pages!IInv
  <1>2. CASE Pages!Next
    BY <1>2, PagesChoose, PagesHeadTurn, PagesTailTurn, PagesSlice, PagesShow DEF Pages!Next
  <1>3. QED
    BY <1>1, <1>2

-----------------------------------------------------------------------------
(***************************************************************************)
(* Writes of lines                                                         *)
(***************************************************************************)
\* Two texts one after the other, where no line of the first goes on.
LEMMA SpliceApart ==
  ASSUME NEW t \in Seq(Splice!LineType), NEW u \in Seq(Splice!LineType)
  PROVE  /\ t \o u \in Seq(Splice!LineType)
         /\ Splice!In(t \o u) = Splice!In(t) \cup Splice!In(u)
         /\ Splice!Own(t) /\ Splice!Own(u) => Splice!Own(t \o u)
         /\ Splice!ClosedInside(t) /\ Splice!ClosedInside(u) /\ (Splice!Open(t) => u = <<>>)
               => Splice!ClosedInside(t \o u)
         /\ Splice!Open(t \o u) => Splice!Open(u) \/ (u = <<>> /\ Splice!Open(t))
  <1> DEFINE n == Len(t)
             m == Len(u)
             s == t \o u
  <1>1. n \in Nat /\ m \in Nat /\ DOMAIN t = 1..n /\ DOMAIN u = 1..m /\ (m = 0 <=> u = <<>>) /\ (n = 0 <=> t = <<>>)
    OBVIOUS
  <1>2. /\ s \in Seq(Splice!LineType) /\ Len(s) = n + m
        /\ \A i \in 1..n + m : s[i] = IF i <= n THEN t[i] ELSE u[i - n]
    BY ConcatProperties
  <1> HIDE DEF s
  <1>3. DOMAIN s = 1..n + m
    BY <1>2
  <1> HIDE DEF n, m
  <1>4. /\ \A i \in 1..n : i \in 1..n + m /\ s[i] = t[i]
        /\ \A i \in 1..m : i + n \in 1..n + m /\ s[i + n] = u[i]
        /\ \A i \in 1..n + m : \/ i \in 1..n /\ s[i] = t[i]
                               \/ i - n \in 1..m /\ s[i] = u[i - n]
    <2>1. ASSUME NEW i \in 1..n PROVE i \in 1..n + m /\ s[i] = t[i]
      BY <1>1, <1>2, <2>1
    <2>2. ASSUME NEW i \in 1..m PROVE i + n \in 1..n + m /\ s[i + n] = u[i]
      <3>1. i + n \in 1..n + m /\ ~(i + n <= n) /\ (i + n) - n = i
        BY <1>1
      <3>2. QED
        BY <1>2, <3>1
    <2>3. ASSUME NEW i \in 1..n + m PROVE (i \in 1..n /\ s[i] = t[i]) \/ (i - n \in 1..m /\ s[i] = u[i - n])
      BY <1>1, <1>2, <2>3
    <2>4. QED
      BY <2>1, <2>2, <2>3
  <1>5. Splice!In(s) = Splice!In(t) \cup Splice!In(u)
    BY <1>1, <1>3, <1>4 DEF Splice!In
  <1>6. Splice!Own(t) /\ Splice!Own(u) => Splice!Own(s)
    BY <1>1, <1>3, <1>4 DEF Splice!Own
  <1>7. ASSUME Splice!ClosedInside(t), Splice!ClosedInside(u), Splice!Open(t) => u = <<>>
        PROVE  Splice!ClosedInside(s)
    <2>1. ASSUME NEW i \in 1..n + m - 1 PROVE s[i].closed
      <3>1. CASE i < n
        <4>1. i \in 1..n - 1 /\ i \in 1..n
          BY <1>1, <3>1
        <4>2. QED
          BY <1>4, <1>7, <4>1 DEF Splice!ClosedInside, n
      <3>2. CASE i = n
        <4>1. u # <<>> /\ t # <<>> /\ i \in 1..n
          BY <1>1, <3>2
        <4>2. t[n].closed
          BY <1>7, <4>1 DEF Splice!Open, n
        <4>3. QED
          BY <1>4, <3>2, <4>1, <4>2
      <3>3. CASE i > n
        <4>1. i - n \in 1..m - 1 /\ i \in 1..n + m /\ ~(i \in 1..n)
          BY <1>1, <3>3
        <4>2. QED
          BY <1>4, <1>7, <4>1 DEF Splice!ClosedInside, m
      <3>4. QED
        BY <1>1, <3>1, <3>2, <3>3
    <2>2. Len(s) - 1 = n + m - 1
      BY <1>1, <1>2
    <2>3. \A i \in 1..Len(s) - 1 : s[i].closed
      BY <2>1, <2>2
    <2>4. QED
      BY <2>3 DEF Splice!ClosedInside
  <1>8. ASSUME Splice!Open(s) PROVE Splice!Open(u) \/ (u = <<>> /\ Splice!Open(t))
    <2>1. s # <<>> /\ ~s[n + m].closed
      BY <1>2, <1>8 DEF Splice!Open
    <2>2. n + m # 0
      BY <1>2, <2>1
    <2>3. CASE m = 0
      <3>1. n \in 1..n /\ n + m = n
        BY <1>1, <2>2, <2>3
      <3>2. s[n] = t[n]
        BY <1>4, <3>1
      <3>3. QED
        BY <1>1, <2>1, <2>2, <2>3, <3>1, <3>2 DEF Splice!Open, n
    <2>4. CASE m # 0
      <3>1. m \in 1..m /\ m + n = n + m
        BY <1>1, <2>4
      <3>2. s[n + m] = u[m]
        BY <1>4, <3>1
      <3>3. QED
        BY <1>1, <2>1, <2>4, <3>2 DEF Splice!Open, m
    <2>5. QED
      BY <2>3, <2>4
  <1>9. QED
    BY <1>2, <1>5, <1>6, <1>7, <1>8 DEF s

\* The first lines of a text, and the last ones.
LEMMA SplicePart ==
  ASSUME NEW t \in Seq(Splice!LineType), NEW a \in 1..Len(t) + 1, NEW b \in Nat, a <= b + 1
  PROVE  LET head == SubSeq(t, 1, a - 1)
             tail == SubSeq(t, b + 1, Len(t)) IN
         /\ head \in Seq(Splice!LineType) /\ tail \in Seq(Splice!LineType)
         /\ \A i \in 1..Len(t) : i < a => t[i].names \subseteq Splice!In(head)
         /\ \A i \in 1..Len(t) : i > b => t[i].names \subseteq Splice!In(tail)
         /\ Splice!Own(t) => Splice!Own(head) /\ Splice!Own(tail)
         /\ Splice!ClosedInside(t) => Splice!ClosedInside(head) /\ Splice!ClosedInside(tail)
         /\ Splice!ClosedInside(t) /\ Splice!Open(head) => a = Len(t) + 1 /\ Splice!Open(t)
         /\ a = Len(t) + 1 => tail = <<>>
  <1> DEFINE n == Len(t)
             head == SubSeq(t, 1, a - 1)
             tail == SubSeq(t, b + 1, n)
  <1>1. n \in Nat /\ DOMAIN t = 1..n /\ a \in Nat /\ a - 1 <= n /\ \A i \in 1..n : t[i] \in Splice!LineType
    OBVIOUS
  <1>2. head \in Seq(Splice!LineType) /\ Len(head) = a - 1 /\ \A i \in 1..a - 1 : head[i] = t[i] /\ i \in 1..n
    <2>1. \A i \in 1..a - 1 : i \in 1..n /\ t[i] \in Splice!LineType
      BY <1>1
    <2>2. 1 \in Int /\ a - 1 \in Int
      BY <1>1
    <2>3. /\ head \in Seq(Splice!LineType) /\ Len(head) = IF 1 <= a - 1 THEN (a - 1) - 1 + 1 ELSE 0
          /\ \A i \in 1..(a - 1) - 1 + 1 : head[i] = t[1 + i - 1]
      BY <2>1, <2>2, SubSeqProperties
    <2>4. Len(head) = a - 1
      BY <1>1, <2>3
    <2>5. ASSUME NEW i \in 1..a - 1 PROVE head[i] = t[i]
      <3>1. i \in 1..(a - 1) - 1 + 1 /\ 1 + i - 1 = i
        BY <1>1
      <3>2. QED
        BY <2>3, <3>1
    <2>6. QED
      BY <2>1, <2>3, <2>4, <2>5
  <1>3. /\ tail \in Seq(Splice!LineType) /\ Len(tail) = (IF b + 1 <= n THEN n - b ELSE 0)
        /\ \A i \in 1..n - b : tail[i] = t[b + i] /\ b + i \in 1..n
    <2>1. \A i \in b + 1..n : t[i] \in Splice!LineType
      BY <1>1
    <2>2. b + 1 \in Int /\ n \in Int
      BY <1>1
    <2>3. /\ tail \in Seq(Splice!LineType) /\ Len(tail) = IF b + 1 <= n THEN n - (b + 1) + 1 ELSE 0
          /\ \A i \in 1..n - (b + 1) + 1 : tail[i] = t[b + 1 + i - 1]
      BY <2>1, <2>2, SubSeqProperties
    <2>4. Len(tail) = (IF b + 1 <= n THEN n - b ELSE 0)
      BY <1>1, <2>3
    <2>5. ASSUME NEW i \in 1..n - b PROVE tail[i] = t[b + i] /\ b + i \in 1..n
      <3>1. i \in 1..n - (b + 1) + 1 /\ b + 1 + i - 1 = b + i /\ b + i \in 1..n
        BY <1>1
      <3>2. QED
        BY <2>3, <3>1
    <2>6. QED
      BY <2>3, <2>4, <2>5
  <1> HIDE DEF head, tail, n
  <1>4. DOMAIN head = 1..a - 1 /\ \A i \in DOMAIN tail : i \in 1..n - b
    BY <1>1, <1>2, <1>3
  <1>5. ASSUME NEW i \in 1..n, i < a PROVE t[i].names \subseteq Splice!In(head)
    <2>1. i \in 1..a - 1
      BY <1>1, <1>5
    <2>2. QED
      BY <1>2, <1>4, <2>1 DEF Splice!In
  <1>6. ASSUME NEW i \in 1..n, i > b PROVE t[i].names \subseteq Splice!In(tail)
    <2>1. i - b \in 1..n - b /\ b + (i - b) = i /\ b + 1 <= n
      BY <1>1, <1>6
    <2>2. i - b \in DOMAIN tail /\ tail[i - b] = t[i]
      BY <1>3, <2>1
    <2>3. QED
      BY <2>2 DEF Splice!In
  <1>7. ASSUME Splice!Own(t) PROVE Splice!Own(head) /\ Splice!Own(tail)
    <2>1. \A i \in 1..n : \A x, y \in t[i].names : x = y
      BY <1>1, <1>7 DEF Splice!Own
    <2>2. \A i \in DOMAIN head : \A x, y \in head[i].names : x = y
      BY <1>2, <1>4, <2>1
    <2>3. \A i \in DOMAIN tail : \A x, y \in tail[i].names : x = y
      BY <1>3, <1>4, <2>1
    <2>4. QED
      BY <2>2, <2>3 DEF Splice!Own
  <1>8. ASSUME Splice!ClosedInside(t) PROVE Splice!ClosedInside(head) /\ Splice!ClosedInside(tail)
    <2>1. \A i \in 1..n - 1 : t[i].closed
      BY <1>8 DEF Splice!ClosedInside, n
    <2>2. ASSUME NEW i \in 1..(a - 1) - 1 PROVE head[i].closed
      <3>1. i \in 1..a - 1 /\ i \in 1..n - 1
        BY <1>1
      <3>2. QED
        BY <1>2, <2>1, <3>1
    <2>3. ASSUME NEW i \in 1..Len(tail) - 1 PROVE tail[i].closed
      <3>1. i \in 1..n - b /\ b + i \in 1..n - 1
        BY <1>1, <1>3
      <3>2. QED
        BY <1>3, <2>1, <3>1
    <2>4. QED
      BY <1>2, <2>2, <2>3 DEF Splice!ClosedInside
  <1>9. ASSUME Splice!ClosedInside(t), Splice!Open(head) PROVE a = n + 1 /\ Splice!Open(t)
    <2>1. a - 1 \in 1..a - 1 /\ ~t[a - 1].closed
      <3>1. head # <<>> /\ ~head[a - 1].closed
        BY <1>2, <1>9 DEF Splice!Open
      <3>2. a - 1 # 0
        BY <1>2, <3>1
      <3>3. a - 1 \in 1..a - 1
        BY <1>1, <3>2
      <3>4. QED
        BY <1>2, <3>1, <3>3
    <2>2. ~(a - 1 \in 1..n - 1)
      BY <1>9, <2>1 DEF Splice!ClosedInside, n
    <2>3. a - 1 = n /\ n # 0
      BY <1>1, <2>1, <2>2
    <2>4. t # <<>> /\ ~t[n].closed
      BY <2>1, <2>3 DEF n
    <2>5. QED
      BY <1>1, <2>3, <2>4 DEF Splice!Open, n
  <1>10. a = n + 1 => tail = <<>>
    BY <1>1, <1>3
  <1>11. QED
    BY <1>2, <1>3, <1>5, <1>6, <1>7, <1>8, <1>9, <1>10 DEF head, tail, n

\* A text after another one: nothing is lost, only the last line may be open, and
\* lines are put together only where the first text has no newline at its end.
LEMMA SpliceJoined ==
  ASSUME NEW t \in Seq(Splice!LineType), NEW u \in Seq(Splice!LineType)
  PROVE  LET j == Splice!Joined(t, u) IN
         /\ j \in Seq(Splice!LineType)
         /\ Splice!In(t) \subseteq Splice!In(j) /\ Splice!In(u) \subseteq Splice!In(j)
         /\ Splice!Own(t) /\ Splice!Own(u) /\ ~Splice!Open(t) => Splice!Own(j)
         /\ Splice!ClosedInside(t) /\ Splice!ClosedInside(u) => Splice!ClosedInside(j)
         /\ Len(u) = 1 /\ u[1].closed => ~Splice!Open(j)
  <1> DEFINE n == Len(t)
             m == Len(u)
             j == Splice!Joined(t, u)
  <1>1. n \in Nat /\ m \in Nat /\ DOMAIN t = 1..n /\ DOMAIN u = 1..m /\ (m = 0 <=> u = <<>>) /\ (n = 0 <=> t = <<>>)
    OBVIOUS
  <1>2. /\ \A i \in 1..n : t[i] \in Splice!LineType
        /\ \A i \in 1..m : u[i] \in Splice!LineType
    OBVIOUS
  <1> HIDE DEF n, m
  <1>3. CASE ~(Splice!Open(t) /\ u # <<>>)
    <2>1. j = t \o u
      BY <1>3 DEF Splice!Joined
    <2>2. /\ j \in Seq(Splice!LineType)
          /\ Splice!In(j) = Splice!In(t) \cup Splice!In(u)
          /\ Splice!Own(t) /\ Splice!Own(u) => Splice!Own(j)
          /\ Splice!ClosedInside(t) /\ Splice!ClosedInside(u) => Splice!ClosedInside(j)
          /\ Splice!Open(j) => Splice!Open(u) \/ (u = <<>> /\ Splice!Open(t))
      BY <1>3, <2>1, SpliceApart
    <2>3. Len(u) = 1 /\ u[1].closed => ~Splice!Open(u) /\ u # <<>>
      BY <1>1 DEF Splice!Open, m
    <2> HIDE DEF j
    <2>4. QED
      BY <2>2, <2>3 DEF j
  <1>4. CASE Splice!Open(t) /\ u # <<>>
    <2> DEFINE head == SubSeq(t, 1, n - 1)
               tail == SubSeq(u, 2, m)
               glue == [names |-> t[n].names \cup u[1].names, closed |-> u[1].closed]
               mid  == <<glue>>
               x    == head \o mid
    <2>1. n \in 1..n + 1 /\ n \in 1..n /\ n <= n + 1 /\ m # 0 /\ n # 0
      <3>1. m # 0 /\ n # 0
        BY <1>1, <1>4 DEF Splice!Open
      <3>2. QED
        BY <1>1, <3>1
    <2>2. /\ head \in Seq(Splice!LineType)
          /\ \A i \in 1..n : i < n => t[i].names \subseteq Splice!In(head)
          /\ Splice!ClosedInside(t) => Splice!ClosedInside(head) /\ ~Splice!Open(head)
      <3>1. n # n + 1
        BY <1>1
      <3>2. QED
        BY <1>1, <2>1, <3>1, SplicePart DEF n
    <2>3. 2 \in 1..m + 1 /\ 1 \in 1..m /\ 1 \in Nat /\ 2 <= 1 + 1
      BY <1>1, <2>1
    <2>4. /\ tail \in Seq(Splice!LineType)
          /\ \A i \in 1..m : i > 1 => u[i].names \subseteq Splice!In(tail)
          /\ Splice!ClosedInside(u) => Splice!ClosedInside(tail)
          /\ m = 1 => tail = <<>>
      <3>1. PICK b \in Nat : b = 1
        OBVIOUS
      <3>2. b + 1 = 2 /\ 2 <= b + 1 /\ (m = 1 => 2 = m + 1) /\ \A i \in 1..m : i > 1 => i > b
        BY <1>1, <3>1
      <3>3. LET rest == SubSeq(u, b + 1, Len(u)) IN
            /\ rest \in Seq(Splice!LineType)
            /\ \A i \in 1..Len(u) : i > b => u[i].names \subseteq Splice!In(rest)
            /\ Splice!ClosedInside(u) => Splice!ClosedInside(rest)
            /\ 2 = Len(u) + 1 => rest = <<>>
        BY <2>3, <3>2, SplicePart DEF m
      <3>4. QED
        BY <3>2, <3>3 DEF m
    <2>5. /\ glue \in Splice!LineType
          /\ glue.names = t[n].names \cup u[1].names /\ glue.closed = u[1].closed
      BY <1>2, <2>1, <2>3 DEF Splice!LineType
    <2>6. /\ mid \in Seq(Splice!LineType) /\ Len(mid) = 1 /\ mid[1] = glue /\ mid # <<>>
          /\ DOMAIN mid = {1}
      BY <2>5
    <2>7. /\ Splice!In(mid) = glue.names
          /\ Splice!ClosedInside(mid)
          /\ Splice!Open(mid) => ~glue.closed
      BY <2>6 DEF Splice!In, Splice!ClosedInside, Splice!Open
    <2>8. j = x \o tail
      BY <1>4 DEF Splice!Joined, n, m
    <2> HIDE DEF head, tail, glue, mid, j
    <2>9. /\ x \in Seq(Splice!LineType)
          /\ Splice!In(x) = Splice!In(head) \cup Splice!In(mid)
          /\ Splice!ClosedInside(t) => Splice!ClosedInside(x)
          /\ Splice!Open(x) => ~u[1].closed
      BY <2>2, <2>5, <2>6, <2>7, SpliceApart
    <2> HIDE DEF x
    <2>10. /\ j \in Seq(Splice!LineType)
           /\ Splice!In(j) = Splice!In(x) \cup Splice!In(tail)
           /\ Splice!ClosedInside(x) /\ Splice!ClosedInside(tail) /\ (Splice!Open(x) => tail = <<>>)
                => Splice!ClosedInside(j)
           /\ Splice!Open(j) => Splice!Open(tail) \/ Splice!Open(x)
      BY <2>4, <2>8, <2>9, SpliceApart
    <2>11. Splice!In(t) \subseteq Splice!In(j)
      <3>1. ASSUME NEW i \in 1..n PROVE t[i].names \subseteq Splice!In(j)
        <4>1. CASE i < n
          BY <2>2, <2>9, <2>10, <4>1
        <4>2. CASE i = n
          BY <2>5, <2>7, <2>9, <2>10, <4>2
        <4>3. QED
          BY <1>1, <4>1, <4>2
      <3>2. QED
        BY <1>1, <3>1 DEF Splice!In
    <2>12. Splice!In(u) \subseteq Splice!In(j)
      <3>1. ASSUME NEW i \in 1..m PROVE u[i].names \subseteq Splice!In(j)
        <4>1. CASE i > 1
          BY <2>4, <2>10, <4>1
        <4>2. CASE i = 1
          BY <2>5, <2>7, <2>9, <2>10, <4>2
        <4>3. QED
          BY <1>1, <4>1, <4>2
      <3>2. QED
        BY <1>1, <3>1 DEF Splice!In
    <2>13. ASSUME Splice!ClosedInside(t), Splice!ClosedInside(u) PROVE Splice!ClosedInside(j)
      <3>1. ASSUME Splice!Open(x) PROVE tail = <<>>
        <4>1. ~u[1].closed
          BY <2>9, <3>1
        <4>2. ~(1 \in 1..m - 1)
          BY <2>13, <4>1 DEF Splice!ClosedInside, m
        <4>3. m = 1
          BY <1>1, <2>1, <4>2
        <4>4. QED
          BY <2>4, <4>3
      <3>2. QED
        BY <2>4, <2>9, <2>10, <2>13, <3>1
    <2>14. Len(u) = 1 /\ u[1].closed => ~Splice!Open(j)
      <3>1. m = 1 => ~Splice!Open(tail)
        BY <2>4 DEF Splice!Open
      <3>2. QED
        BY <2>9, <2>10, <3>1 DEF m
    <2>15. QED
      BY <1>4, <2>10, <2>11, <2>12, <2>13, <2>14 DEF j
  <1>5. QED
    BY <1>3, <1>4

\* The lines that are not kept are those that the arguments name.
LEMMA SplicePlaces ==
  ASSUME NEW at \in Splice!Places, at # Splice!Everything, NEW n \in Nat
  PROVE  LET start == Splice!LineStart(at, n)
             end   == Splice!idx_end(at, n) IN
         /\ start \in 1..n + 1 /\ end \in Nat /\ start <= end + 1
         /\ \A i \in 1..n : i < start \/ i > end \/ (at.start <= i /\ i <= at.end)
         /\ start = n + 1 => at.start > n
  <1>1. at.start \in 1..MaxPlace /\ at.end \in 0..MaxPlace /\ MaxPlace \in Nat
    BY SettingsAssumption DEF Splice!Places
  <1>2. at.start \in Nat /\ at.end \in Nat /\ at.start >= 1
    BY <1>1
  <1>3. Splice!LineStart(at, n) = IF at.start > n + 1 THEN n + 1 ELSE at.start
    BY <1>2 DEF Splice!LineStart, Splice!Within
  <1>4. CASE at.end < at.start
    <2>1. Splice!idx_end(at, n) = Splice!LineStart(at, n) - 1
      BY <1>4 DEF Splice!idx_end
    <2>2. QED
      BY <1>2, <1>3, <1>4, <2>1
  <1>5. CASE ~(at.end < at.start)
    <2> DEFINE start == Splice!LineStart(at, n)
               last  == IF at.end > n THEN n ELSE at.end
               end   == Splice!idx_end(at, n)
    <2>1. end = IF last < start THEN start ELSE last
      BY <1>5 DEF Splice!idx_end
    <2> HIDE DEF start, end
    <2>2. start = IF at.start > n + 1 THEN n + 1 ELSE at.start
      BY <1>3 DEF start
    <2>3. start \in 1..n + 1 /\ end \in Nat /\ start <= end + 1 /\ (start = n + 1 => at.start > n)
      BY <1>2, <1>5, <2>1, <2>2
    <2>4. ASSUME NEW i \in 1..n PROVE i < start \/ i > end \/ (at.start <= i /\ i <= at.end)
      BY <1>2, <1>5, <2>1, <2>2, <2>4
    <2>5. QED
      BY <2>3, <2>4 DEF start, end
  <1>6. QED
    BY <1>4, <1>5

\* What is written: the content is in it, and every line that the arguments do not
\* name; lines are put together only when content is appended to an open line.
LEMMA SpliceCombined ==
  ASSUME NEW at \in Splice!Places, at # Splice!Everything, NEW c \in Clients, NEW closed \in BOOLEAN,
         NEW original \in Seq(Splice!LineType), Splice!ClosedInside(original)
  PROVE  LET text == Splice!Combined(at, <<Splice!Line(c, closed)>>, original) IN
         /\ text \in Seq(Splice!LineType)
         /\ c \in Splice!In(text)
         /\ \A i \in 1..Len(original) :
               i \notin Splice!Named(at, original) => original[i].names \subseteq Splice!In(text)
         /\ Splice!ClosedInside(text)
         /\ Splice!Own(original) /\ ~Splice!AppendsTo(at, original) => Splice!Own(text)
  <1> DEFINE n     == Len(original)
             start == Splice!LineStart(at, n)
             end   == Splice!idx_end(at, n)
             head  == SubSeq(original, 1, start - 1)
             tail  == SubSeq(original, end + 1, n)
             piece == Splice!new_piece(<<Splice!Line(c, closed)>>)
             inner == Splice!Joined(head, piece)
             text  == Splice!Joined(inner, tail)
  <1>1. text = Splice!Combined(at, <<Splice!Line(c, closed)>>, original)
    BY DEF Splice!Combined
  <1>2. n \in Nat /\ DOMAIN original = 1..n
    OBVIOUS
  <1>3. /\ start \in 1..n + 1 /\ end \in Nat /\ start <= end + 1
        /\ \A i \in 1..n : i < start \/ i > end \/ (at.start <= i /\ i <= at.end)
        /\ start = n + 1 => at.start > n
    BY <1>2, SplicePlaces
  <1>4. /\ piece \in Seq(Splice!LineType) /\ Len(piece) = 1 /\ DOMAIN piece = {1}
        /\ piece[1].names = {c} /\ piece[1].closed
    <2> DEFINE content == <<Splice!Line(c, closed)>>
               line    == [names |-> content[1].names, closed |-> TRUE]
    <2>1. Splice!Line(c, closed) \in Splice!LineType /\ Splice!Line(c, closed).names = {c}
      BY DEF Splice!Line, Splice!LineType
    <2>2. content \in Seq(Splice!LineType) /\ Len(content) = 1 /\ content[1] = Splice!Line(c, closed)
      BY <2>1
    <2>3. line \in Splice!LineType /\ line.names = {c} /\ line.closed
      BY <2>1, <2>2 DEF Splice!LineType
    <2>4. piece = [content EXCEPT ![1] = line]
      BY DEF Splice!new_piece
    <2> HIDE DEF content, line, piece
    <2>5. 1 \in 1..Len(content)
      BY <2>2
    <2>6. piece \in Seq(Splice!LineType) /\ Len(piece) = 1 /\ piece[1] = line
      BY <2>2, <2>3, <2>4, <2>5, ExceptSeq
    <2>7. DOMAIN piece = {1}
      BY <2>6
    <2>8. QED
      BY <2>3, <2>6, <2>7
  <1>5. Splice!In(piece) = {c} /\ Splice!Own(piece) /\ Splice!ClosedInside(piece)
    <2> HIDE DEF piece
    <2>1. QED
      BY <1>4 DEF Splice!In, Splice!Own, Splice!ClosedInside
  <1> HIDE DEF start, end, piece
  <1>6. /\ head \in Seq(Splice!LineType) /\ tail \in Seq(Splice!LineType)
        /\ \A i \in 1..n : i < start => original[i].names \subseteq Splice!In(head)
        /\ \A i \in 1..n : i > end => original[i].names \subseteq Splice!In(tail)
        /\ Splice!Own(original) => Splice!Own(head) /\ Splice!Own(tail)
        /\ Splice!ClosedInside(head) /\ Splice!ClosedInside(tail)
        /\ Splice!Open(head) => start = n + 1 /\ Splice!Open(original)
    BY <1>3, SplicePart
  <1> HIDE DEF head, tail, inner, text
  <1>7. /\ inner \in Seq(Splice!LineType)
        /\ Splice!In(head) \subseteq Splice!In(inner) /\ Splice!In(piece) \subseteq Splice!In(inner)
        /\ Splice!Own(head) /\ ~Splice!Open(head) => Splice!Own(inner)
        /\ Splice!ClosedInside(inner)
        /\ ~Splice!Open(inner)
    BY <1>4, <1>5, <1>6, SpliceJoined DEF inner
  <1>8. /\ text \in Seq(Splice!LineType)
        /\ Splice!In(inner) \subseteq Splice!In(text) /\ Splice!In(tail) \subseteq Splice!In(text)
        /\ Splice!Own(inner) /\ Splice!Own(tail) => Splice!Own(text)
        /\ Splice!ClosedInside(text)
    BY <1>6, <1>7, SpliceJoined DEF text
  <1>9. ASSUME NEW i \in 1..n, i \notin Splice!Named(at, original)
        PROVE  original[i].names \subseteq Splice!In(text)
    <2>1. i < start \/ i > end
      BY <1>2, <1>3, <1>9 DEF Splice!Named
    <2>2. QED
      BY <1>6, <1>7, <1>8, <2>1
  <1>10. ASSUME Splice!Own(original), ~Splice!AppendsTo(at, original) PROVE Splice!Own(text)
    <2>1. ~Splice!Open(head)
      BY <1>3, <1>6, <1>10 DEF Splice!AppendsTo
    <2>2. QED
      BY <1>6, <1>7, <1>8, <1>10, <2>1
  <1>11. QED
    BY <1>1, <1>5, <1>7, <1>8, <1>9, <1>10

\* The size of a set is the same operator in the part.
LEMMA SpliceSize == ASSUME NEW S PROVE Splice!Cardinality(S) = Cardinality(S)
  BY DEF Splice!Cardinality, Cardinality

\* A file whose lines are all its own, and calls that have not begun.
LEMMA SpliceInit == Splice!Init => Splice!IInv
  <1> SUFFICES ASSUME Splice!Init PROVE Splice!IInv
    OBVIOUS
  <1> DEFINE n == Splice!Cardinality(Files)
  <1>1. n \in Nat
    BY SettingsAssumption, SpliceSize, FS_CardinalityType
  <1>2. PICK s \in Splice!Orders, closed \in BOOLEAN :
           v1 = [i \in 1..n |-> Splice!Line(s[i], i < n \/ closed)]
    BY DEF Splice!Init
  <1>3. s \in [1..n -> Files] /\ \A line \in Files : \E i \in 1..n : s[i] = line
    BY DEF Splice!Orders
  <1> HIDE DEF n
  <1>4. \A i \in 1..n : /\ v1[i] \in Splice!LineType
                        /\ v1[i].names = {s[i]}
                        /\ v1[i].closed = (i < n \/ closed)
    <2> SUFFICES ASSUME NEW i \in 1..n
                 PROVE v1[i] \in Splice!LineType /\ v1[i].names = {s[i]} /\ v1[i].closed = (i < n \/ closed)
      OBVIOUS
    <2>1. v1[i] = [names |-> {s[i]}, closed |-> (i < n \/ closed)]
      BY <1>2 DEF Splice!Line
    <2>2. (i < n \/ closed) \in BOOLEAN
      BY <1>2
    <2>3. {s[i]} \in SUBSET (Files \cup Clients)
      BY <1>3
    <2>4. QED
      BY <2>1, <2>2, <2>3 DEF Splice!LineType
  <1>5. v1 \in Seq(Splice!LineType) /\ Len(v1) = n /\ DOMAIN v1 = 1..n
    <2>1. v1 \in [1..n -> Splice!LineType]
      BY <1>2, <1>4
    <2>2. QED
      BY <1>1, <2>1
  <1>6. Splice!ClosedInside(v1)
    <2>1. ASSUME NEW i \in 1..n - 1 PROVE v1[i].closed
      <3>1. i \in 1..n /\ i < n
        BY <1>1
      <3>2. QED
        BY <1>4, <3>1
    <2>2. Len(v1) - 1 = n - 1
      BY <1>5
    <2>3. \A i \in 1..Len(v1) - 1 : v1[i].closed
      BY <2>1, <2>2
    <2>4. QED
      BY <2>3 DEF Splice!ClosedInside
  <1>7. Splice!Own(v1)
    BY <1>4, <1>5 DEF Splice!Own
  <1>8. Files \subseteq Splice!In(v1)
    BY <1>3, <1>4, <1>5 DEF Splice!In
  <1>9. /\ v2 = [c \in Clients |-> [pc |-> "new", at |-> Splice!Everything, content |-> <<>>, original |-> <<>>]]
        /\ v3 = {} /\ v4 = FALSE /\ v5 = FALSE /\ v6 = FALSE
    BY DEF Splice!Init
  <1>10. /\ \A c \in Clients : v2[c].pc = "new"
         /\ v2 \in [Clients -> [pc : {"new", "read", "unread", "written", "failed"}, at : Splice!Places,
                                content : Seq(Splice!LineType), original : Seq(Splice!LineType)]]
    <2>1. Splice!Everything \in Splice!Places
      BY DEF Splice!Places
    <2>2. <<>> \in Seq(Splice!LineType)
      OBVIOUS
    <2>3. QED
      BY <1>9, <2>1, <2>2
  <1>11. Splice!TypeOK
    BY <1>5, <1>9, <1>10 DEF Splice!TypeOK
  <1>12. Splice!Reads
    BY <1>10 DEF Splice!Reads
  <1>13. Splice!LinesKept
    BY <1>8, <1>10 DEF Splice!LinesKept, Splice!Written
  <1>14. Splice!OwnLines
    BY <1>7 DEF Splice!OwnLines
  <1>15. QED
    BY <1>6, <1>11, <1>12, <1>13, <1>14 DEF Splice!IInv

\* A call reads the file, writes it or fails to, or nothing happens.
LEMMA SpliceStep == Splice!IInv /\ [Splice!Next]_(Splice!vars) => Splice!IInv'
  <1> SUFFICES ASSUME Splice!IInv, [Splice!Next]_(Splice!vars) PROVE Splice!IInv'
    OBVIOUS
  <1>1. /\ Splice!TypeOK /\ Splice!ClosedInside(v1) /\ Splice!Reads /\ Splice!LinesKept /\ Splice!OwnLines
    BY DEF Splice!IInv
  <1> DEFINE Call == [pc : {"new", "read", "unread", "written", "failed"}, at : Splice!Places,
                      content : Seq(Splice!LineType), original : Seq(Splice!LineType)]
  <1>2. /\ v1 \in Seq(Splice!LineType)
        /\ v2 \in [Clients -> Call]
        /\ v3 \subseteq Files \cup Clients
        /\ v4 \in BOOLEAN /\ v5 \in BOOLEAN /\ v6 \in BOOLEAN
    BY <1>1 DEF Splice!TypeOK
  <1>3. ASSUME NEW c \in Clients, Splice!Read(c) PROVE Splice!IInv'
    <2>1. PICK at \in Splice!Places, closed \in BOOLEAN :
             \/ v2' = [v2 EXCEPT ![c] = [pc |-> "read", at |-> at,
                                          content |-> <<Splice!Line(c, closed)>>, original |-> v1]]
             \/ v2' = [v2 EXCEPT ![c] = [pc |-> "unread", at |-> at,
                                          content |-> <<Splice!Line(c, closed)>>, original |-> <<>>]]
      BY <1>3 DEF Splice!Read
    <2>2. v2[c].pc = "new" /\ v1' = v1 /\ v3' = v3 /\ v4' = v4 /\ v5' = v5 /\ v6' = v6
      BY <1>3 DEF Splice!Read
    <2> DEFINE Called(pc, t) == [pc |-> pc, at |-> at, content |-> <<Splice!Line(c, closed)>>, original |-> t]
    <2>3. Splice!Line(c, closed) \in Splice!LineType
      BY DEF Splice!Line, Splice!LineType
    <2>4. <<Splice!Line(c, closed)>> \in Seq(Splice!LineType)
      BY <2>3
    <2>5. PICK call : /\ call \in Call /\ call.pc # "written"
                      /\ Splice!ClosedInside(call.original) /\ (v4 \/ Splice!Own(call.original))
                      /\ call.content = <<Splice!Line(c, closed)>>
                      /\ v2' = [v2 EXCEPT ![c] = call]
      <3>1. CASE v2' = [v2 EXCEPT ![c] = Called("read", v1)]
        <4>1. /\ Called("read", v1) \in Call /\ Called("read", v1).pc # "written"
              /\ Called("read", v1).original = v1
              /\ Called("read", v1).content = <<Splice!Line(c, closed)>>
          BY <1>2, <2>4
        <4>2. Splice!ClosedInside(v1) /\ (v4 \/ Splice!Own(v1))
          BY <1>1 DEF Splice!OwnLines
        <4> HIDE DEF Called, Call
        <4>3. QED
          BY <3>1, <4>1, <4>2
      <3>2. CASE v2' = [v2 EXCEPT ![c] = Called("unread", <<>>)]
        <4>1. /\ Called("unread", <<>>) \in Call /\ Called("unread", <<>>).pc # "written"
              /\ Called("unread", <<>>).original = <<>>
              /\ Called("unread", <<>>).content = <<Splice!Line(c, closed)>>
          <5>1. <<>> \in Seq(Splice!LineType)
            OBVIOUS
          <5>2. QED
            BY <2>4, <5>1
        <4>2. Splice!ClosedInside(<<>>) /\ Splice!Own(<<>>)
          BY DEF Splice!ClosedInside, Splice!Own
        <4> HIDE DEF Called, Call
        <4>3. QED
          BY <3>2, <4>1, <4>2
      <3>3. QED
        BY <2>1, <3>1, <3>2
    <2> HIDE DEF Call
    <2>6. v2' \in [Clients -> Call] /\ v2'[c] = call /\ \A d \in Clients : d # c => v2'[d] = v2[d]
      BY <1>2, <2>5
    <2>7. Splice!TypeOK'
      BY <1>2, <2>2, <2>6 DEF Splice!TypeOK, Call
    <2>8. Splice!Reads'
      <3> SUFFICES ASSUME NEW d \in Clients, v2'[d].pc \in {"read", "unread"}
                   PROVE  /\ Splice!ClosedInside(v2'[d].original)
                          /\ v4' \/ Splice!Own(v2'[d].original)
                          /\ \E b \in BOOLEAN : v2'[d].content = <<Splice!Line(d, b)>>
        BY DEF Splice!Reads
      <3>1. CASE d = c
        BY <2>2, <2>5, <2>6, <3>1
      <3>2. CASE d # c
        BY <1>1, <2>2, <2>6, <3>2 DEF Splice!Reads
      <3>3. QED
        BY <3>1, <3>2
    <2>9. Splice!Written' = Splice!Written
      BY <2>2, <2>5, <2>6 DEF Splice!Written
    <2>10. Splice!LinesKept'
      BY <1>1, <2>2, <2>9 DEF Splice!LinesKept
    <2>11. Splice!OwnLines' /\ Splice!ClosedInside(v1)'
      BY <1>1, <2>2 DEF Splice!OwnLines
    <2>12. QED
      BY <2>7, <2>8, <2>10, <2>11 DEF Splice!IInv
  <1>4. ASSUME NEW c \in Clients, Splice!Write(c) PROVE Splice!IInv'
    <2> DEFINE at       == v2[c].at
               content  == v2[c].content
               original == v2[c].original
    <2>1. /\ v2[c].pc = "read"
          /\ v1' = IF at = Splice!Everything THEN content ELSE Splice!Combined(at, content, original)
          /\ v3' = v3 \cup UNION {original[i].names : i \in Splice!Named(at, original)}
          /\ v4' = (v4 \/ Splice!AppendsTo(at, original))
          /\ v5' = (v5 \/ v1 # original)
          /\ v2' = [v2 EXCEPT ![c].pc = "written"]
          /\ v6' = v6
      BY <1>4 DEF Splice!Write
    <2>2. at \in Splice!Places /\ original \in Seq(Splice!LineType) /\ content \in Seq(Splice!LineType)
      BY <1>2
    <2>3. Splice!ClosedInside(original) /\ (v4 \/ Splice!Own(original))
      BY <1>1, <2>1 DEF Splice!Reads
    <2>4. PICK closed \in BOOLEAN : content = <<Splice!Line(c, closed)>>
      BY <1>1, <2>1 DEF Splice!Reads
    <2>5. /\ v2' \in [Clients -> Call]
          /\ v2'[c].pc = "written"
          /\ \A d \in Clients : d # c => v2'[d] = v2[d]
      BY <1>2, <2>1
    <2> HIDE DEF at, content, original, Call
    <2>6. DOMAIN original = 1..Len(original) /\ \A i \in 1..Len(original) : original[i] \in Splice!LineType
      BY <2>2
    <2>7. /\ v1' \in Seq(Splice!LineType)
          /\ c \in Splice!In(v1')
          /\ \A i \in 1..Len(original) :
                i \notin Splice!Named(at, original) => original[i].names \subseteq Splice!In(v1')
          /\ Splice!ClosedInside(v1')
          /\ Splice!Own(original) /\ ~Splice!AppendsTo(at, original) => Splice!Own(v1')
      <3>1. CASE at = Splice!Everything
        <4>1. v1' = content
          BY <2>1, <3>1
        <4>2. content[1] = Splice!Line(c, closed) /\ Len(content) = 1 /\ DOMAIN content = {1}
          BY <2>4
        <4>3. content[1].names = {c}
          BY <4>2 DEF Splice!Line
        <4>4. Splice!In(content) = {c} /\ Splice!ClosedInside(content) /\ Splice!Own(content)
          BY <4>2, <4>3 DEF Splice!In, Splice!ClosedInside, Splice!Own
        <4>5. \A i \in 1..Len(original) : i \in Splice!Named(at, original)
          BY <2>6, <3>1 DEF Splice!Named
        <4>6. QED
          BY <2>2, <4>1, <4>4, <4>5
      <3>2. CASE at # Splice!Everything
        <4>1. v1' = Splice!Combined(at, <<Splice!Line(c, closed)>>, original)
          BY <2>1, <2>4, <3>2
        <4>2. QED
          BY <2>2, <2>3, <3>2, <4>1, SpliceCombined
      <3>3. QED
        BY <3>1, <3>2
    <2>8. v3' \subseteq Files \cup Clients
      <3>1. \A i \in Splice!Named(at, original) : original[i].names \subseteq Files \cup Clients
        BY <2>6 DEF Splice!Named, Splice!LineType
      <3>2. QED
        BY <1>2, <2>1, <3>1
    <2>9. v4' \in BOOLEAN /\ v5' \in BOOLEAN /\ v6' \in BOOLEAN
      BY <1>2, <2>1
    <2>10. Splice!TypeOK'
      BY <2>5, <2>7, <2>8, <2>9 DEF Splice!TypeOK, Call
    <2>11. Splice!Reads'
      <3> SUFFICES ASSUME NEW d \in Clients, v2'[d].pc \in {"read", "unread"}
                   PROVE  /\ Splice!ClosedInside(v2'[d].original)
                          /\ v4' \/ Splice!Own(v2'[d].original)
                          /\ \E b \in BOOLEAN : v2'[d].content = <<Splice!Line(d, b)>>
        BY DEF Splice!Reads
      <3>1. d # c
        BY <2>5
      <3>2. v4 => v4'
        BY <1>2, <2>1
      <3>3. QED
        BY <1>1, <2>5, <3>1, <3>2 DEF Splice!Reads
    <2>12. Splice!LinesKept'
      <3> SUFFICES ASSUME ~v5', ~v6' PROVE (Files \cup Splice!Written') \subseteq Splice!In(v1') \cup v3'
        BY DEF Splice!LinesKept
      <3>1. ~v5 /\ ~v6 /\ v1 = original
        BY <1>2, <2>1
      <3>2. Splice!Written' \subseteq Splice!Written \cup {c}
        BY <2>5 DEF Splice!Written
      <3>3. (Files \cup Splice!Written) \subseteq Splice!In(original) \cup v3
        BY <1>1, <3>1 DEF Splice!LinesKept
      <3>4. ASSUME NEW x \in Splice!In(original) PROVE x \in Splice!In(v1') \cup v3'
        <4>1. PICK i \in 1..Len(original) : x \in original[i].names
          BY <2>6 DEF Splice!In
        <4>2. CASE i \in Splice!Named(at, original)
          BY <2>1, <4>1, <4>2
        <4>3. CASE i \notin Splice!Named(at, original)
          BY <2>7, <4>1, <4>3
        <4>4. QED
          BY <4>2, <4>3
      <3>5. v3 \subseteq v3' /\ c \in Splice!In(v1')
        BY <2>1, <2>7
      <3>6. QED
        BY <3>2, <3>3, <3>4, <3>5
    <2>13. Splice!OwnLines'
      <3> SUFFICES ASSUME ~v4' PROVE Splice!Own(v1')
        BY DEF Splice!OwnLines
      <3>1. ~v4 /\ ~Splice!AppendsTo(at, original)
        BY <2>1
      <3>2. QED
        BY <2>3, <2>7, <3>1
    <2>14. Splice!ClosedInside(v1)'
      BY <2>7
    <2>15. QED
      BY <2>10, <2>11, <2>12, <2>13, <2>14 DEF Splice!IInv
  <1>5. ASSUME NEW c \in Clients, Splice!WriteFails(c) PROVE Splice!IInv'
    <2>1. /\ v2[c].pc # "written" /\ v2' = [v2 EXCEPT ![c].pc = "failed"]
          /\ v1' = v1 /\ v3' = v3 /\ v4' = v4 /\ v5' = v5 /\ v6' = v6
      BY <1>5 DEF Splice!WriteFails
    <2>2. /\ v2' \in [Clients -> Call]
          /\ v2'[c].pc = "failed"
          /\ \A d \in Clients : d # c => v2'[d] = v2[d]
      BY <1>2, <2>1
    <2> HIDE DEF Call
    <2>3. Splice!TypeOK'
      BY <1>2, <2>1, <2>2 DEF Splice!TypeOK, Call
    <2>4. Splice!Reads'
      BY <1>1, <2>1, <2>2 DEF Splice!Reads
    <2>5. Splice!Written' = Splice!Written
      BY <2>1, <2>2 DEF Splice!Written
    <2>6. Splice!LinesKept'
      BY <1>1, <2>1, <2>5 DEF Splice!LinesKept
    <2>7. Splice!OwnLines' /\ Splice!ClosedInside(v1)'
      BY <1>1, <2>1 DEF Splice!OwnLines
    <2>8. QED
      BY <2>3, <2>4, <2>6, <2>7 DEF Splice!IInv
  <1>6. ASSUME UNCHANGED Splice!vars PROVE Splice!IInv'
    <2>1. v1' = v1 /\ v2' = v2 /\ v3' = v3 /\ v4' = v4 /\ v5' = v5 /\ v6' = v6
      BY <1>6 DEF Splice!vars
    <2>2. Splice!Written' = Splice!Written
      BY <2>1 DEF Splice!Written
    <2>3. Splice!TypeOK' /\ Splice!ClosedInside(v1)'
      BY <1>1, <2>1 DEF Splice!TypeOK
    <2>4. Splice!Reads'
      BY <1>1, <2>1 DEF Splice!Reads
    <2>5. Splice!LinesKept' /\ Splice!OwnLines'
      BY <1>1, <2>1, <2>2 DEF Splice!LinesKept, Splice!OwnLines
    <2>6. QED
      BY <2>3, <2>4, <2>5 DEF Splice!IInv
  <1>7. ASSUME NEW c \in Clients, Splice!WriteUnread(c) PROVE Splice!IInv'
    <2>1. /\ v2[c].pc = "unread" /\ v1' = v2[c].content
          /\ IF v2[c].at = Splice!Everything
             THEN v3' = v3 \cup Splice!In(v1) /\ v6' = v6
             ELSE v6' = TRUE /\ v3' = v3
          /\ v2' = [v2 EXCEPT ![c].pc = "written"]
          /\ v4' = v4 /\ v5' = v5
      BY <1>7 DEF Splice!WriteUnread
    <2>2. PICK closed \in BOOLEAN : v1' = <<Splice!Line(c, closed)>>
      BY <1>1, <2>1 DEF Splice!Reads
    <2>3. /\ v2' \in [Clients -> Call]
          /\ v2'[c].pc = "written"
          /\ \A d \in Clients : d # c => v2'[d] = v2[d]
      BY <1>2, <2>1
    <2> HIDE DEF Call
    <2>4. /\ v1' \in Seq(Splice!LineType)
          /\ Splice!In(v1') = {c} /\ Splice!ClosedInside(v1') /\ Splice!Own(v1')
      <3>1. Splice!Line(c, closed) \in Splice!LineType /\ Splice!Line(c, closed).names = {c}
        BY DEF Splice!Line, Splice!LineType
      <3>2. v1'[1] = Splice!Line(c, closed) /\ Len(v1') = 1 /\ DOMAIN v1' = {1}
        BY <2>2
      <3>3. v1' \in Seq(Splice!LineType)
        BY <2>2, <3>1
      <3>4. QED
        BY <3>1, <3>2, <3>3 DEF Splice!In, Splice!ClosedInside, Splice!Own
    <2>5. v3' \subseteq Files \cup Clients /\ v6' \in BOOLEAN
      <3>1. \A i \in DOMAIN v1 : v1[i].names \subseteq Files \cup Clients
        <4>1. \A i \in DOMAIN v1 : v1[i] \in Splice!LineType
          BY <1>2
        <4>2. QED
          BY <4>1 DEF Splice!LineType
      <3>2. Splice!In(v1) \subseteq Files \cup Clients
        BY <3>1 DEF Splice!In
      <3>3. QED
        BY <1>2, <2>1, <3>2
    <2>6. Splice!TypeOK'
      BY <1>2, <2>1, <2>3, <2>4, <2>5 DEF Splice!TypeOK, Call
    <2>7. Splice!Reads'
      <3> SUFFICES ASSUME NEW d \in Clients, v2'[d].pc \in {"read", "unread"}
                   PROVE  /\ Splice!ClosedInside(v2'[d].original)
                          /\ v4' \/ Splice!Own(v2'[d].original)
                          /\ \E b \in BOOLEAN : v2'[d].content = <<Splice!Line(d, b)>>
        BY DEF Splice!Reads
      <3>1. d # c
        BY <2>3
      <3>2. QED
        BY <1>1, <2>1, <2>3, <3>1 DEF Splice!Reads
    <2>8. Splice!LinesKept'
      <3> SUFFICES ASSUME ~v5', ~v6' PROVE (Files \cup Splice!Written') \subseteq Splice!In(v1') \cup v3'
        BY DEF Splice!LinesKept
      <3>1. ~v5 /\ ~v6 /\ v3' = v3 \cup Splice!In(v1)
        BY <1>2, <2>1
      <3>2. Splice!Written' \subseteq Splice!Written \cup {c}
        BY <2>3 DEF Splice!Written
      <3>3. (Files \cup Splice!Written) \subseteq Splice!In(v1) \cup v3
        BY <1>1, <3>1 DEF Splice!LinesKept
      <3>4. QED
        BY <2>4, <3>1, <3>2, <3>3
    <2>9. Splice!OwnLines' /\ Splice!ClosedInside(v1)'
      BY <2>4 DEF Splice!OwnLines
    <2>10. QED
      BY <2>6, <2>7, <2>8, <2>9 DEF Splice!IInv
  <1>8. QED
    BY <1>3, <1>4, <1>5, <1>6, <1>7 DEF Splice!Next

-----------------------------------------------------------------------------
(***************************************************************************)
(* The module that runs the tools                                          *)
(***************************************************************************)
\* What is unchanged for all tools is unchanged for each.
LEMMA Stutters ==
  UNCHANGED vars =>
    /\ UNCHANGED part
    /\ UNCHANGED Commit!vars
    /\ UNCHANGED Search!vars
    /\ UNCHANGED Grep!vars
    /\ UNCHANGED Host!vars
    /\ UNCHANGED Queue!vars
    /\ UNCHANGED Copilot!vars
    /\ UNCHANGED Chat!vars
    /\ UNCHANGED Panel!vars
    /\ UNCHANGED Pages!vars
    /\ UNCHANGED Splice!vars
  BY DEF vars, Commit!vars, Search!vars, Grep!vars, Host!vars, Queue!vars,
         Copilot!vars, Chat!vars, Panel!vars, Pages!vars, Splice!vars

\* The tool is chosen at the start, and only that tool takes steps.
LEMMA StepIsOfPart ==
  ASSUME [Next]_vars
  PROVE  /\ part' = part
         /\ part = "Commit" => [Commit!Next]_(Commit!vars)
         /\ part = "Search" => [Search!Next]_(Search!vars)
         /\ part = "Grep" => [Grep!Next]_(Grep!vars)
         /\ part = "Host" => [Host!Next]_(Host!vars)
         /\ part = "Queue" => [Queue!Next]_(Queue!vars)
         /\ part = "Copilot" => [Copilot!Next]_(Copilot!vars)
         /\ part = "Chat" => [Chat!Next]_(Chat!vars)
         /\ part = "Panel" => [Panel!Next]_(Panel!vars)
         /\ part = "Pages" => [Pages!Next]_(Pages!vars)
         /\ part = "Splice" => [Splice!Next]_(Splice!vars)
  BY Stutters
     DEF Next, CommitRuns, SearchRuns, GrepRuns, HostRuns, PagesRuns, SpliceRuns, QueueRuns,
         CopilotRuns, ChatRuns, PanelRuns

\* An apply has the token of a dry_run of its own tree that began in time, and a
\* tree is bound to a mirror that is allowed, for any trees, files and calls under
\* way together.
THEOREM CommitsStayPreviewed == Spec => []CommitIsPreviewed
  <1> DEFINE Inv == part = "Commit" => Commit!IInv
  <1>1. Init => Inv
    BY CommitInit DEF Init
  <1>2. Inv /\ [Next]_vars => Inv'
    BY CommitStep, StepIsOfPart
  <1>3. Inv => CommitIsPreviewed
    BY DEF CommitIsPreviewed, Commit!IInv, Commit!CallsOK, Commit!HasToken, Commit!BindingsOK,
           Commit!AppliedWasPreviewed
  <1>4. QED
    BY <1>1, <1>2, <1>3, PTL DEF Spec

\* A commit of some files takes another file only if another call has staged it,
\* for any files and calls under way together.
THEOREM CommitsStayPartial == Spec => PartialScope
  <1> DEFINE Inv == part = "Commit" => Commit!IInv
  <1>1. Init => Inv
    BY CommitInit DEF Init
  <1>2. Inv /\ [Next]_vars => Inv'
    BY CommitStep, StepIsOfPart
  <1>3. Inv /\ [Next]_vars => [part = "Commit" => Commit!PartialStep]_vars
    BY CommitStep, StepIsOfPart
  <1>4. QED
    BY <1>1, <1>2, <1>3, PTL DEF Spec, PartialScope

\* A chain of chunks that was not told to begin anew has looked at every file of
\* its first list, and a kept list of the current epoch has every file that the
\* scan of that epoch found, for any numbers of files, links, scans and chunks.
THEOREM ChunksStayWhole == Spec => []ChunksCover
  <1> DEFINE Inv == part = "Search" => Search!IInv
  <1>1. Init => Inv
    BY SearchInit DEF Init
  <1>2. Inv /\ [Next]_vars => Inv'
    BY SearchStep, StepIsOfPart
  <1>3. Inv => ChunksCover
    BY DEF ChunksCover, Search!IInv, Search!ScopeOK, Search!ChainOK, Search!ChainCovers
  <1>4. QED
    BY <1>1, <1>2, <1>3, PTL DEF Spec

\* What a complete search said stays true and is all of its matches, a handle
\* lives until its end or until MaxHandles were given after it; a process on the
\* host has somebody who ends it, their number is bounded, and a wait that ran out
\* heard nothing; for any jobs, matches, processes, calls and settings.
THEOREM HostJobsStayTrue == Spec => []HostJobsAreTrue
  <1> DEFINE Inv == /\ part = "Grep" => Grep!IInv
                    /\ part = "Host" => Host!IInv
  <1>1. Init => Inv
    BY GrepInit, HostInit DEF Init
  <1>2. Inv /\ [Next]_vars => Inv'
    BY GrepStep, HostStep, StepIsOfPart
  <1>3. Inv => HostJobsAreTrue
    BY GrepTells, HostTells DEF HostJobsAreTrue
  <1>4. QED
    BY <1>1, <1>2, <1>3, PTL DEF Spec

\* A record that says queued is in the queue, and one that says running is what
\* the worker works on, for any projects and calls under way together.
THEOREM RecordsStayTrue == Spec => []RecordIsTrue
  <1> DEFINE Inv == part = "Queue" => Queue!IInv
  <1>1. Init => Inv
    BY QueueInit DEF Init
  <1>2. Inv /\ [Next]_vars => Inv'
    BY QueueStep, StepIsOfPart
  <1>3. Inv => RecordIsTrue
    BY DEF RecordIsTrue, Queue!IInv
  <1>4. QED
    BY <1>1, <1>2, <1>3, PTL DEF Spec

\* No entry of the log is lost to a repair, however often it runs and wherever it
\* is stopped, unless the editor wrote between its reads or two runs shared a
\* second.
THEOREM OriginalStaysKept == Spec => []OriginalKept
  <1> DEFINE Inv == part = "Copilot" => Copilot!IInv
  <1>1. Init => Inv
    BY CopilotInit DEF Init
  <1>2. Inv /\ [Next]_vars => Inv'
    BY CopilotStep, StepIsOfPart
  <1>3. Inv => OriginalKept
    BY DEF OriginalKept, Copilot!IInv
  <1>4. QED
    BY <1>1, <1>2, <1>3, PTL DEF Spec

\* The tab shows posts of the chat it has selected and lacks none without a
\* reason, for any chats, posts, clicks and answers on their way.
THEOREM TabStaysTrue == Spec => []TabShowsItsChat
  <1> DEFINE Inv == part = "Chat" => Chat!IInv
  <1>1. Init => Inv
    BY ChatInit DEF Init
  <1>2. Inv /\ [Next]_vars => Inv'
    BY ChatStep, StepIsOfPart
  <1>3. Inv => TabShowsItsChat
    BY DEF TabShowsItsChat, Chat!IInv
  <1>4. QED
    BY <1>1, <1>2, <1>3, PTL DEF Spec

\* The panel at rest shows the selected project with every change it was told of,
\* and the session has that project, for any projects, clicks and changes.
THEOREM PanelRestsTrue == Spec => []RestIsSelected
  <1> DEFINE Inv == part = "Panel" => Panel!IInv
  <1>1. Init => Inv
    BY PanelInit DEF Init
  <1>2. Inv /\ [Next]_vars => Inv'
    BY PanelStep, StepIsOfPart
  <1>3. Inv => RestIsSelected
    BY PanelRests DEF RestIsSelected
  <1>4. QED
    BY <1>1, <1>2, <1>3, PTL DEF Spec

\* A line named alone, or first of a page, is cut only if one character more would
\* make it too wide, a page ends only where the next line would make it too long,
\* and nothing is longer than its budget, for any lengths, widths, budgets and
\* marks.
THEOREM PagesStayLongest == Spec => []PageFits
  <1> DEFINE Inv == part = "Pages" => Pages!IInv
  <1>1. Init => Inv
    BY PagesInit DEF Init
  <1>2. Inv /\ [Next]_vars => Inv'
    BY PagesStep, StepIsOfPart
  <1>3. Inv => PageFits
    BY DEF PageFits, Pages!IInv
  <1>4. QED
    BY <1>1, <1>2, <1>3, PTL DEF Spec

\* What was in the file, or was put there, is there until a call names its line, and
\* stays on a line of its own, for any numbers of calls of any processes and lines;
\* but for calls that another one overtook and content put after an open last line.
THEOREM LinesStayKept == Spec => []LinesKept
  <1> DEFINE Inv == part = "Splice" => Splice!IInv
  <1>1. Init => Inv
    BY SpliceInit DEF Init
  <1>2. Inv /\ [Next]_vars => Inv'
    BY SpliceStep, StepIsOfPart
  <1>3. Inv => LinesKept
    BY DEF LinesKept, Splice!IInv
  <1>4. QED
    BY <1>1, <1>2, <1>3, PTL DEF Spec

=============================================================================
