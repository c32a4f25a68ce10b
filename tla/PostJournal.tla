---------------------------- MODULE PostJournal ----------------------------
(***************************************************************************)
(* How the posts of one chat reach its clients: the table posts, the       *)
(* journal of changes that PostManager keeps in memory for the chat        *)
(* (agent/managers/posts.py), and the long polls of GET /chat/get, which   *)
(* read and clear it (agent/routes/chat_routes.py).                        *)
(*                                                                         *)
(* Requests that write run on the event loop, one after another; polls run *)
(* get_history in threads beside it.  All clients of a chat share its one  *)
(* journal.  A post is its number of writes: 0 before it is added.         *)
(***************************************************************************)
EXTENDS Integers, Sequences, Functions

CONSTANTS
    Posts,      \* post ids
    Clients,    \* open tabs and MCP clients
    NoPost,     \* not a post id
    MaxWrites,  \* bound: writes of one post
    MaxLogged,  \* bound: changes of all posts
    MaxFaults   \* bound: database errors, lost responses, restarts

ASSUME JournalAssumption ==
    /\ NoPost \notin Posts
    /\ MaxWrites \in Nat \ {0}
    /\ MaxLogged \in Nat
    /\ MaxFaults \in Nat

VARIABLES
    rows,     \* the table posts: writes so far, and whether deleted_at is NULL
    journal,  \* changes_history of the chat; the code stores -id for a deletion
    logged,   \* history: changes ever added to the journal
    logging,  \* the change a request has written and not yet added
    poll,     \* program state of each client's poll
    seen,     \* what responses have told each client of each post
    missed,   \* history: posts with a change the client was never told of
    faults    \* faults so far

vars == <<rows, journal, logged, logging, poll, seen, missed, faults>>

Change == [post : Posts, deleted : BOOLEAN]
NoChange == [post |-> NoPost, deleted |-> FALSE]
NoPoll == [pc |-> "idle", changes |-> <<>>, upto |-> 0, history |-> {}]

\* What a client should know of p: nothing, its text, or that it is gone.
Absent == 0
Removed == MaxWrites + 1
Shown(p) == IF rows[p].live \/ rows[p].writes = 0 THEN rows[p].writes ELSE Removed

PostsOf(changes) == {d.post : d \in Range(changes)}
Faulty == faults < MaxFaults /\ faults' = faults + 1

(***************************************************************************)
(* add_post, edit_post and delete_post: a statement, then add_change.      *)
(* edit_post and delete_post take deleted posts too.                       *)
(***************************************************************************)
Write(p, live, deleted) ==
    /\ logging = NoChange
    /\ rows[p].writes < MaxWrites /\ logged < MaxLogged
    /\ rows' = [rows EXCEPT ![p] = [writes |-> @.writes + 1, live |-> live]]
    /\ logging' = [post |-> p, deleted |-> deleted]
    /\ UNCHANGED <<journal, logged, poll, seen, missed, faults>>

add_post(p) == rows[p].writes = 0 /\ Write(p, TRUE, FALSE)
edit_post(p) == rows[p].writes > 0 /\ Write(p, rows[p].live, FALSE)
delete_post(p) == rows[p].writes > 0 /\ Write(p, FALSE, TRUE)

add_change ==
    /\ logging # NoChange
    /\ journal' = Append(journal, logging)
    /\ logged' = logged + 1
    /\ logging' = NoChange
    /\ UNCHANGED <<rows, poll, seen, missed, faults>>

(***************************************************************************)
(* GET /chat/get?wait_changes=1: get_history with only_changes, in steps   *)
(* of its thread.  A client has one poll at a time.                        *)
(***************************************************************************)
\* The changes are sorted out into post_ids and deleted_ids.
PollRead(c) ==
    /\ poll[c].pc = "idle"
    /\ journal # <<>>
    /\ poll' = [poll EXCEPT ![c] = [NoPoll EXCEPT !.pc = "select", !.changes = journal,
                                                 !.upto = logged]]
    /\ UNCHANGED <<rows, journal, logged, logging, seen, missed, faults>>

post_ids(c) == {d.post : d \in {e \in Range(poll[c].changes) : ~e.deleted}}
deleted_ids(c) == {d.post : d \in {e \in Range(poll[c].changes) : e.deleted}}

Selected(c, history) ==
    /\ poll[c].pc = "select"
    /\ poll' = IF history = {} THEN [poll EXCEPT ![c] = NoPoll]
               ELSE [poll EXCEPT ![c].pc = "clear", ![c].history = history]
    /\ missed' = [missed EXCEPT ![c] = @ \ {told.post : told \in history}]
    /\ UNCHANGED <<rows, journal, logged, logging, seen, faults>>

As(p, state) == [post |-> p, state |-> state]
Texts(ids) == {As(p, rows[p].writes) : p \in {q \in ids : rows[q].live}}
\* Mutants: every id is looked up as a post; deleted_at is not looked at.
PollSelect_abs(c) == Selected(c, Texts(post_ids(c) \cup deleted_ids(c)))
PollSelect_tombs(c) ==
    Selected(c, {As(p, rows[p].writes) : p \in post_ids(c) \ deleted_ids(c)}
                  \cup {As(p, Removed) : p \in deleted_ids(c)})

\* The rows of the posts; deleted ones are skipped.  With nothing to tell, the
\* journal is not cleared.
PollSelect(c) ==
    Selected(c, Texts(post_ids(c)) \cup {As(p, Removed) : p \in deleted_ids(c)})

\* Entries of the journal that a poll of d has not read.
UnreadAt(d) == IF poll[d].pc = "idle" THEN DOMAIN journal
               ELSE {k \in DOMAIN journal : k > Len(journal) - (logged - poll[d].upto)}
Unread(d) == {journal[k].post : k \in UnreadAt(d)}

\* clear_changes forgets what was added since the read, and what other clients
\* have not read.
PollClear(c) ==
    /\ poll[c].pc = "clear"
    /\ journal' = <<>>
    /\ missed' = [d \in Clients |-> missed[d] \cup Unread(d)]
    /\ poll' = [poll EXCEPT ![c].pc = "answer"]
    /\ UNCHANGED <<rows, logged, logging, seen, faults>>

PollAnswer(c) ==
    /\ poll[c].pc = "answer"
    /\ seen' = [seen EXCEPT ![c] = [p \in Posts |->
                  IF \E h \in poll[c].history : h.post = p
                  THEN (CHOOSE h \in poll[c].history : h.post = p).state ELSE @[p]]]
    /\ poll' = [poll EXCEPT ![c] = NoPoll]
    /\ UNCHANGED <<rows, journal, logged, logging, missed, faults>>

\* How many of the changes of a poll were cleared since it read them.
Cleared(c) == (logged - Len(journal)) - (poll[c].upto - Len(poll[c].changes))

\* The SELECT fails: {"error": ...}, which clients ignore.  Entries that another
\* poll has cleared meanwhile are lost.
PollFails(c) ==
    /\ Faulty
    /\ poll[c].pc = "select"
    /\ missed' = [missed EXCEPT ![c] = @ \cup
          {poll[c].changes[i].post : i \in {k \in DOMAIN poll[c].changes : k <= Cleared(c)}}]
    /\ poll' = [poll EXCEPT ![c] = NoPoll]
    /\ UNCHANGED <<rows, journal, logged, logging, seen>>

\* The response is lost on its way: a gateway error, or the client's timeout.
PollLost(c) ==
    /\ Faulty
    /\ poll[c].pc = "answer"
    /\ missed' = [missed EXCEPT ![c] = @ \cup PostsOf(poll[c].changes)]
    /\ poll' = [poll EXCEPT ![c] = NoPoll]
    /\ UNCHANGED <<rows, journal, logged, logging, seen>>

\* GET /chat/get without wait_changes: the whole history, on the event loop.
Fetch(c) ==
    /\ logging = NoChange
    /\ poll[c].pc = "idle"
    /\ seen' = [seen EXCEPT ![c] = [p \in Posts |-> Shown(p)]]
    /\ missed' = [missed EXCEPT ![c] = {}]
    /\ UNCHANGED <<rows, journal, logged, logging, poll, faults>>

\* The core restarts: the journal was in its memory.
Restart ==
    /\ Faulty
    /\ journal' = <<>>
    /\ logging' = NoChange
    /\ poll' = [c \in Clients |-> NoPoll]
    /\ missed' = [c \in Clients |-> missed[c] \cup PostsOf(journal) \cup PostsOf(poll[c].changes)
                                     \cup ({logging.post} \cap Posts)]
    /\ UNCHANGED <<rows, logged, seen>>
-----------------------------------------------------------------------------
Init ==
    /\ rows = [p \in Posts |-> [writes |-> 0, live |-> FALSE]]
    /\ journal = <<>>
    /\ logged = 0
    /\ logging = NoChange
    /\ poll = [c \in Clients |-> NoPoll]
    /\ seen = [c \in Clients |-> [p \in Posts |-> Absent]]
    /\ missed = [c \in Clients |-> {}]
    /\ faults = 0

Next ==
    \/ \E p \in Posts : add_post(p) \/ edit_post(p) \/ delete_post(p)
    \/ add_change
    \/ \E c \in Clients : \/ PollRead(c) \/ PollSelect(c) \/ PollClear(c) \/ PollAnswer(c)
                          \/ PollFails(c) \/ PollLost(c) \/ Fetch(c)
    \/ Restart

Spec == Init /\ [][Next]_vars
-----------------------------------------------------------------------------
States == Absent..Removed

TypeOK ==
    /\ rows \in [Posts -> [writes : 0..MaxWrites, live : BOOLEAN]]
    /\ journal \in Seq(Change) /\ logged \in Nat
    /\ logging \in Change \cup {NoChange}
    /\ poll \in [Clients -> [pc : {"idle", "select", "clear", "answer"}, changes : Seq(Change),
                             upto : Nat, history : SUBSET [post : Posts, state : States]]]
    /\ seen \in [Clients -> [Posts -> States]]
    /\ missed \in [Clients -> SUBSET Posts]
    /\ faults \in 0..MaxFaults

\* A client that polls is behind the table only in posts whose change is on its
\* way to it, or was cleared from the shared journal unread, or went down with a
\* response or with the core (posts.py:405-456).
StaleExplained ==
    \A c \in Clients, p \in Posts :
        seen[c][p] # Shown(p) =>
            p \in PostsOf(journal) \cup {logging.post} \cup PostsOf(poll[c].changes) \cup missed[c]

\* What a client is told never goes back: no older text after a newer one, and
\* no text after a deletion, though edit_post writes deleted posts and a poll's
\* SELECT, clear and answer are apart (posts.py:431-456).
NoGoingBack == [][\A c \in Clients, p \in Posts : seen'[c][p] >= seen[c][p]]_vars
=============================================================================
