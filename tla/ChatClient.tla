------------------------------ MODULE ChatClient ------------------------------
(***************************************************************************)
(* One tab of the frontend and the chats it shows: the store chatStore     *)
(* (frontend/src/stores/chat.js), its long poll of GET /chat/get, chat     *)
(* switches by a click and by the list of chats, and the side of the core  *)
(* that answers them (agent/routes/chat_routes.py, managers/chats.py).     *)
(*                                                                         *)
(* The journal of a chat is the set of posts with an unread change; how    *)
(* several polls race for it is the module PostJournal.  A post is its     *)
(* chat and a number.  Chats have no parent, and every user may read them. *)
(***************************************************************************)
EXTENDS Integers, FiniteSets

CONSTANTS
    Chats,       \* chat ids
    None,        \* no chat
    PerChat,     \* bound: posts of one chat
    MaxChanges,  \* bound: posts added or deleted
    MaxClicks,   \* bound: clicks on a chat
    MaxLists,    \* bound: fetches of the list of chats
    MaxFaults    \* bound: failed requests, posts taken by the polls of other tabs

VARIABLES
    live,      \* the table posts: rows with deleted_at NULL
    gone,      \* the table posts: deleted rows
    journal,   \* changes_history of each chat
    active,    \* active_chat of the tab's session
    elsewhere, \* active_chat of another session of its user
    sel,       \* selectedChatId
    shown,     \* history: the posts in the store
    full,      \* need_full_history
    awaited,   \* awaited_to_del
    poll,      \* fetchHistory in progress (isPolling) and the request it waits for
    clicks,    \* setChatId in progress: the chats whose notify_switch is on its way or done
    list,      \* fetchChats in progress: the active chat the answer tells
    asking,    \* posts whose deletion is requested
    mixed,     \* history: a list moved the selection and the store was not emptied since
    cutShort,  \* history: need_full_history was taken back before a full answer came
    missed,    \* history: changes that were read from the journal and not shown here
    used       \* how much of each bound is spent

vars == <<live, gone, journal, active, elsewhere, sel, shown, full, awaited, poll, clicks, list,
          asking, mixed, cutShort, missed, used>>
server == <<live, gone, journal, active, elsewhere>>
store == <<sel, shown, full, awaited>>
flights == <<poll, clicks, list, asking>>
history == <<mixed, cutShort, missed>>

Posts == Chats \X (1..PerChat)
ChatOf(p) == p[1]
Of(c) == {p \in Posts : ChatOf(p) = c}
NoPoll == [pc |-> "idle", chat |-> None, full |-> FALSE, active |-> None, kind |-> "none",
           adds |-> {}, dels |-> {}]
Spend(what, max) == used[what] < max /\ used' = [used EXCEPT ![what] = @ + 1]
Fault == Spend("faults", MaxFaults)

(***************************************************************************)
(* The posts.                                                              *)
(***************************************************************************)
AddPost(p) ==
    /\ p \notin live \cup gone
    /\ Spend("changes", MaxChanges)
    /\ live' = live \cup {p}
    /\ journal' = [journal EXCEPT ![ChatOf(p)] = @ \cup {p}]
    /\ UNCHANGED <<gone, active, elsewhere, store, flights, history>>

DeletePost(p) ==
    /\ gone' = gone \cup {p} /\ live' = live \ {p}
    /\ journal' = [journal EXCEPT ![ChatOf(p)] = @ \cup {p}]

DeleteElsewhere(p) ==
    /\ p \in live
    /\ Spend("changes", MaxChanges)
    /\ DeletePost(p)
    /\ UNCHANGED <<active, elsewhere, store, flights, history>>

\* deletePost: the post is awaited before the request is sent.
DeleteAsk(p) ==
    /\ p \in (shown \cap live) \ asking
    /\ Spend("changes", MaxChanges)
    /\ awaited' = awaited \cup {p} /\ asking' = asking \cup {p}
    /\ UNCHANGED <<server, sel, shown, full, poll, clicks, list, history>>

DeleteDone(p) ==
    /\ p \in asking
    /\ DeletePost(p)
    /\ asking' = asking \ {p}
    /\ UNCHANGED <<active, elsewhere, store, poll, clicks, list, history, used>>

\* An exception or a refusal takes the post off the list; a gateway error does not.
DeleteFails(p) ==
    /\ p \in asking
    /\ Fault
    /\ asking' = asking \ {p}
    /\ awaited' \in {awaited, awaited \ {p}}
    /\ UNCHANGED <<server, sel, shown, full, poll, clicks, list, history>>

\* The poll of another tab reads the journal of c and empties it.
OtherPoll(c) ==
    /\ journal[c] # {}
    /\ Fault
    /\ missed' = missed \cup journal[c]
    /\ journal' = [journal EXCEPT ![c] = {}]
    /\ UNCHANGED <<live, gone, active, elsewhere, store, flights, mixed, cutShort>>

(***************************************************************************)
(* The clicks and the list.                                                *)
(***************************************************************************)
\* setChatId: the server is told before the store changes.
Click(c) ==
    /\ sel # c
    /\ <<c, "sent">> \notin clicks /\ <<c, "noted">> \notin clicks
    /\ Spend("clicks", MaxClicks)
    /\ clicks' = clicks \cup {<<c, "sent">>}
    /\ UNCHANGED <<server, store, poll, list, asking, history>>

Noted(c) ==
    /\ <<c, "sent">> \in clicks
    /\ clicks' = (clicks \ {<<c, "sent">>}) \cup {<<c, "noted">>}

notify_switch(c) ==
    /\ Noted(c)
    /\ active' = c
    /\ UNCHANGED <<live, gone, journal, elsewhere, store, poll, list, asking, history, used>>

\* An error of notify_switch is logged.
NotifyFails(c) ==
    /\ Noted(c)
    /\ Fault
    /\ UNCHANGED <<server, store, poll, list, asking, history>>

\* Mutant: the whole history is not asked for.
NeedsFull_no == full
NeedsFull == TRUE

setChatId(c) ==
    /\ <<c, "noted">> \in clicks
    /\ clicks' = clicks \ {<<c, "noted">>}
    /\ sel' = c /\ shown' = {} /\ full' = NeedsFull
    /\ mixed' = FALSE /\ cutShort' = FALSE
    /\ UNCHANGED <<server, awaited, poll, list, asking, missed, used>>

\* list_chats takes the active chat of any row the user has in sessions.
ListAsk ==
    /\ list = None
    /\ Spend("lists", MaxLists)
    /\ list' \in {active, elsewhere} \ {None}
    /\ UNCHANGED <<server, store, poll, clicks, asking, history>>

\* fetchChats selects that chat and keeps the posts of the one before.
fetchChats ==
    /\ list # None
    /\ list' = None
    /\ IF list = sel THEN UNCHANGED <<sel, full, mixed, cutShort>>
       ELSE /\ sel' = list /\ full' = TRUE
            /\ mixed' = (mixed \/ shown # {}) /\ cutShort' = FALSE
    /\ UNCHANGED <<server, shown, awaited, poll, clicks, asking, missed, used>>

(***************************************************************************)
(* fetchHistory: called every second, after a click, and after a message.  *)
(***************************************************************************)
Ask ==
    /\ sel # None /\ poll.pc = "idle"
    /\ poll' = [NoPoll EXCEPT !.pc = "asked", !.chat = sel, !.full = full]
    /\ UNCHANGED <<server, store, clicks, list, asking, history, used>>

Answered(kind, about, adds, dels) ==
    poll' = [poll EXCEPT !.pc = "answered", !.kind = kind, !.chat = about, !.adds = adds, !.dels = dels]

\* The whole history; the journal stays.
AnswerFull ==
    /\ poll.pc = "asked" /\ poll.full
    /\ Answered("posts", poll.chat, live \cap Of(poll.chat), {})
    /\ UNCHANGED <<server, store, clicks, list, asking, history, used>>

\* A turn of the long poll: the active chat is read, then the journal.
PollActive ==
    /\ poll.pc = "asked" /\ ~poll.full
    /\ active' = IF active = None THEN poll.chat ELSE active
    /\ poll' = [poll EXCEPT !.pc = "looked", !.active = active']
    /\ UNCHANGED <<live, gone, journal, elsewhere, store, clicks, list, asking, history, used>>

PollPosts ==
    /\ poll.pc = "looked" /\ journal[poll.chat] # {}
    /\ Answered("posts", poll.chat, journal[poll.chat] \cap live, journal[poll.chat] \cap gone)
    /\ journal' = [journal EXCEPT ![poll.chat] = {}]
    /\ UNCHANGED <<live, gone, active, elsewhere, store, clicks, list, asking, history, used>>

PollSwitch ==
    /\ poll.pc = "looked" /\ journal[poll.chat] = {} /\ poll.active # poll.chat
    /\ Answered("switch", poll.active, {}, {})
    /\ UNCHANGED <<server, store, clicks, list, asking, history, used>>

\* Nothing yet: another turn, or after 15 seconds (1 if the chat is busy) "no changes".
PollWaits ==
    /\ poll.pc = "looked" /\ journal[poll.chat] = {} /\ poll.active = poll.chat
    /\ \/ poll' = [poll EXCEPT !.pc = "asked"]
       \/ Answered("nothing", poll.chat, {}, {})
    /\ UNCHANGED <<server, store, clicks, list, asking, history, used>>

\* get_history catches a database error and answers {"error": ...} as the posts.
PollError ==
    /\ poll.pc = "looked" \/ (poll.pc = "asked" /\ poll.full)
    /\ Fault
    /\ Answered("error", poll.chat, {}, {})
    /\ UNCHANGED <<server, store, clicks, list, asking, history>>

\* A gateway error, or the 25 seconds of the tab are over.
PollLost ==
    /\ poll.pc # "idle"
    /\ Fault
    /\ missed' = missed \cup poll.adds \cup poll.dels
    /\ poll' = NoPoll
    /\ UNCHANGED <<server, store, clicks, list, asking, mixed, cutShort>>

\* Mutant: whatever chat the answer is about.
Current_any == TRUE
Current == poll.chat = sel

TakeOther ==
    /\ poll.pc = "answered" /\ ~Current
    /\ missed' = missed \cup poll.adds \cup poll.dels
    /\ poll' = NoPoll
    /\ UNCHANGED <<server, store, clicks, list, asking, mixed, cutShort, used>>

\* $patch merges: posts are added to the store and never leave it.
TakePosts ==
    /\ poll.pc = "answered" /\ poll.kind = "posts" /\ Current
    /\ shown' = shown \cup poll.adds
    /\ awaited' = awaited \ poll.dels
    /\ full' = FALSE
    /\ missed' = missed \ (poll.adds \cup poll.dels)
    /\ cutShort' = (~poll.full /\ (cutShort \/ full))
    /\ poll' = NoPoll
    /\ UNCHANGED <<server, sel, clicks, list, asking, mixed, used>>

TakeSwitch ==
    /\ poll.pc = "answered" /\ poll.kind = "switch" /\ Current
    /\ full' = TRUE
    /\ poll' = NoPoll
    /\ UNCHANGED <<server, sel, shown, awaited, clicks, list, asking, history, used>>

\* "no changes": need_full_history falls, unless deletions are awaited.
TakeNothing ==
    /\ poll.pc = "answered" /\ poll.kind = "nothing" /\ Current
    /\ full' = (full /\ awaited # {})
    /\ cutShort' = (cutShort \/ (full /\ awaited = {}))
    /\ poll' = NoPoll
    /\ UNCHANGED <<server, sel, shown, awaited, clicks, list, asking, mixed, missed, used>>

\* The error is taken for an answer with posts.
TakeError ==
    /\ poll.pc = "answered" /\ poll.kind = "error" /\ Current
    /\ full' = FALSE
    /\ cutShort' = (cutShort \/ full)
    /\ poll' = NoPoll
    /\ UNCHANGED <<server, sel, shown, awaited, clicks, list, asking, mixed, missed, used>>
-----------------------------------------------------------------------------
Init ==
    /\ live = {} /\ gone = {}
    /\ journal = [c \in Chats |-> {}]
    /\ active = None
    /\ elsewhere \in Chats \cup {None}
    /\ sel = None /\ shown = {} /\ full = TRUE /\ awaited = {}
    /\ poll = NoPoll /\ clicks = {} /\ list = None /\ asking = {}
    /\ mixed = FALSE /\ cutShort = FALSE /\ missed = {}
    /\ used = [changes |-> 0, clicks |-> 0, lists |-> 0, faults |-> 0]

Next ==
    \/ \E p \in Posts : \/ AddPost(p) \/ DeleteElsewhere(p)
                        \/ DeleteAsk(p) \/ DeleteDone(p) \/ DeleteFails(p)
    \/ \E c \in Chats : OtherPoll(c) \/ Click(c) \/ notify_switch(c) \/ NotifyFails(c) \/ setChatId(c)
    \/ ListAsk \/ fetchChats
    \/ Ask \/ AnswerFull \/ PollActive \/ PollPosts \/ PollSwitch \/ PollWaits
    \/ PollError \/ PollLost
    \/ TakeOther \/ TakePosts \/ TakeSwitch \/ TakeNothing \/ TakeError

Spec == Init /\ [][Next]_vars
-----------------------------------------------------------------------------
\* The store shows posts of the selected chat only, however answers, clicks and
\* lists cross; the exception is a selection that the list of chats moved, which
\* does not empty the store (chat.js:49-53, 99-102, 355-360).
OnlyOfSelected == mixed \/ \A p \in shown : ChatOf(p) = sel

\* Once the tab stops asking for the whole history it lacks a post of its chat
\* only if the change is in the journal, on its way, or was read by a poll that
\* could not show it; or if the answer to a poll from before the last switch, or
\* an error, made it stop too early (chat.js:99-150, posts.py:405-456).
CompleteOrExplained ==
    sel # None /\ ~full /\ ~cutShort =>
        \A p \in live \cap Of(sel) : p \in shown \cup journal[sel] \cup poll.adds \cup missed
-----------------------------------------------------------------------------
(***************************************************************************)
(* The inductive invariant behind OnlyOfSelected and CompleteOrExplained (ClientsProofs)*)
(***************************************************************************)

\* A row is live or deleted, and the journal of a chat has its own posts.
RowsAreApart ==
    /\ live \subseteq Posts /\ gone \subseteq Posts /\ live \cap gone = {}
    /\ \A c \in Chats : journal[c] \subseteq Of(c)

\* Only an answer carries posts, those of its chat; a deletion it tells is done.
\* A turn of the long poll knows the active chat and is not for the whole history.
AnswersOfTheirChat ==
    /\ poll.pc # "answered" \/ poll.kind # "posts" => poll.adds = {} /\ poll.dels = {}
    /\ poll.adds \subseteq Of(poll.chat) /\ poll.dels \subseteq gone
    /\ poll.pc # "idle" => poll.chat \in Chats
    /\ poll.pc = "looked" => ~poll.full /\ poll.active \in Chats

\* What a full answer lacks was added after it was read.
FullIsComplete ==
    poll.pc = "answered" /\ poll.kind = "posts" /\ poll.full =>
        \A p \in live \cap Of(poll.chat) : p \in poll.adds \cup journal[poll.chat] \cup missed

Polls == [pc : {"idle", "asked", "looked", "answered"}, chat : Chats \cup {None}, full : BOOLEAN,
          active : Chats \cup {None}, kind : {"none", "posts", "switch", "nothing", "error"},
          adds : SUBSET Posts, dels : SUBSET Posts]
TypeOK ==
    /\ journal \in [Chats -> SUBSET Posts] /\ poll \in Polls
    /\ active \in Chats \cup {None} /\ elsewhere \in Chats \cup {None}
    /\ sel \in Chats \cup {None} /\ list \in Chats \cup {None}
    /\ clicks \subseteq Chats \X {"sent", "noted"}
    /\ full \in BOOLEAN /\ mixed \in BOOLEAN /\ cutShort \in BOOLEAN

IInv == /\ TypeOK /\ RowsAreApart /\ AnswersOfTheirChat /\ FullIsComplete
        /\ OnlyOfSelected /\ CompleteOrExplained
=============================================================================
