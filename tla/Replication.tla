---------------------------- MODULE Replication ----------------------------
(***************************************************************************)
(* One chat: what becomes of a posted message.  A handler (POST /chat/post *)
(* and PostManager.process_post) stores it, shows a progress post for an   *)
(* LLM it names, lets the agent run its commands and starts a dialogue:    *)
(* ReplicationManager.replicate_to_llm, one coroutine, which starts        *)
(* _recursive_replicate for every LLM the message is addressed to; an LLM  *)
(* whose answer names others starts it for them, max_rql levels deep.      *)
(*                                                                         *)
(* All of it runs on one event loop: an action is what a coroutine does    *)
(* between two awaits.  A coroutine that finds the chat's lock free goes   *)
(* on at once; here others may run before it does, as they may when it had *)
(* to wait.                                                                *)
(***************************************************************************)
EXTENDS Integers, Sequences, FiniteSets

CONSTANTS
    Actors,     \* user names of the LLMs
    All,        \* the name in "@all"
    Messages,   \* messages users send
    UserTexts,  \* what each of them may say
    LlmTexts,   \* what an LLM may answer, or an editor write
    Replies,    \* what the agent may add to a post in the dialogue of each
    MaxRql,     \* session option llm_max_rql
    MaxEvents   \* bound: LLM calls that fail, posts that users edit or delete

\* A text is what the code looks for in it: the names it contains behind an @,
\* in any case and as a part of a longer word too (has_replication_trigger),
\* the names that @(\w+)\s finds (_broadcast), and whether it begins with the
\* hourglass of a progress post.  (A progress post names its own author only,
\* whom _broadcast leaves out.)
Text == [named : SUBSET (Actors \cup {All}), refs : SUBSET (Actors \cup {All}), stub : BOOLEAN]
Stub == [named |-> {}, refs |-> {}, stub |-> TRUE]
Saying(names) == [named |-> names, refs |-> names, stub |-> FALSE]

ASSUME ReplicationAssumption ==
    /\ All \notin Actors /\ "agent" \notin Actors \cup Messages
    /\ Actors \cap Messages = {}
    /\ UserTexts \in [Messages -> SUBSET Text]
    /\ LlmTexts \subseteq Text
    /\ Replies \in [Messages -> SUBSET {"none", "plain", "named"}]
    /\ MaxRql \in Nat \ {0}
    /\ MaxEvents \in Nat

VARIABLES
    posts,    \* the posts of each author, oldest first
    line,     \* the asyncio.Lock of the chat: the holder, then those who wait
    busy,     \* chats_busy of the chat: the names GET /chat/get reports
    active,   \* the chat is in active_replications
    dialogue, \* replicate_to_llm for each message
    proc,     \* the coroutines: path -> program state
    events    \* bounded events so far

vars == <<posts, line, busy, active, dialogue, proc, events>>

\* The path of the handler of m is <<m>>; the path of a coroutine that p
\* started for actor a, in its first (1) or second (2) _broadcast, is
\* Append(p, <<1, a>>).  The rql of a coroutine is the depth of its path.
Handler(m) == <<m>>
Tasks == {p \in DOMAIN proc : Len(p) > 1}
Actor(t) == t[Len(t)][2]
\* Mutant: rql counts from 0.
rql_fromZero(t) == Len(t) - 2
rql(t) == Len(t) - 1
Children(p, round) ==
    {t \in Tasks : Len(t) = Len(p) + 1 /\ SubSeq(t, 1, Len(p)) = p /\ t[Len(t)][1] = round}
MessageOf(p) == p[1]

NoPost == <<>>
Idle == [pc |-> "new", post |-> NoPost, stub |-> NoPost, text |-> Stub,
         reply |-> FALSE, round |-> 0]

Bounded == events < MaxEvents /\ events' = events + 1

(***************************************************************************)
(* Posts.  A user's message is an author of its own: the code asks for the *)
(* latest post of an LLM or of the agent only, and never compares posts of *)
(* different authors.  The n-th post of an author has the id <<author, n>>.*)
(* edit_post does not look at deleted_at.                                  *)
(***************************************************************************)
Authors == Messages \cup Actors \cup {"agent"}

NewId(by) == <<by, Len(posts[by]) + 1>>
Added(ps, by, text) == [ps EXCEPT ![by] = Append(ps[by], [text |-> text, live |-> TRUE])]
Edited(ps, i, text) == [ps EXCEPT ![i[1]][i[2]].text = text]
Post(ps, i) == ps[i[1]][i[2]]

\* The agent's reply to a post of name: none, or one that may name its author.
Replied(ps, reply, name) ==
    CASE reply = "none" -> ps
      [] reply = "plain" -> Added(ps, "agent", Saying({}))
      [] reply = "named" -> Added(ps, "agent", Saying({name} \cap Actors))

latest_post(ps, by) ==
    LET shown == {n \in DOMAIN ps[by] : ps[by][n].live}
    IN IF shown = {} THEN NoPost ELSE <<by, CHOOSE n \in shown : \A k \in shown : k <= n>>

Triggers(text) == {a \in Actors : a \in text.named \/ All \in text.named}

\* The LLMs _broadcast starts a coroutine for.  "@all" from an LLM is no one.
Addressed(ps, i) ==
    IF i = NoPost \/ ~Post(ps, i).live THEN {}
    ELSE {a \in Actors \ {i[1]} :
             \/ a \in Post(ps, i).text.refs
             \/ All \in Post(ps, i).text.refs /\ i[1] \notin Actors}

(***************************************************************************)
(* ChatLocker.                                                             *)
(***************************************************************************)
Enqueue(p) == line' = Append(line, p)
NameOf(p) == IF proc[p].pc = "llm" THEN Actor(p) ELSE "agent"

\* Mutant: the lock is not waited for.
Enter_barging(p, from, to, name) ==
    /\ proc[p].pc = from
    /\ busy' = busy \cup {name}
    /\ proc' = [proc EXCEPT ![p].pc = to]

Enter(p, from, to, name) ==
    /\ proc[p].pc = from
    /\ line # <<>> /\ line[1] = p
    /\ busy' = busy \cup {name}
    /\ proc' = [proc EXCEPT ![p].pc = to]

Leave(p) ==
    /\ busy' = busy \ {NameOf(p)}
    /\ line' = Tail(line)

(***************************************************************************)
(* The handler.                                                            *)
(***************************************************************************)
\* POST /chat/post: add_post, and 0.2 s of sleep.
Send(m, text) ==
    /\ Handler(m) \notin DOMAIN proc
    /\ posts' = Added(posts, m, text)
    /\ proc' = [p \in DOMAIN proc \cup {Handler(m)} |->
                  IF p = Handler(m)
                  THEN [Idle EXCEPT !.pc = "sent", !.post = NewId(m), !.text = text]
                  ELSE proc[p]]
    /\ UNCHANGED <<line, busy, active, dialogue, events>>

\* process_post up to the lock in _hands_work.  The early progress post is by
\* the first LLM the trigger matches, in the order of the table users.
Process(m) ==
    LET h == Handler(m)
        named == Triggers(proc[h].text)
    IN /\ proc[h].pc = "sent"
       /\ \/ /\ named = {}
             /\ proc' = [proc EXCEPT ![h].pc = "wait"]
             /\ UNCHANGED posts
          \/ \E a \in named :
                /\ posts' = Added(posts, a, Stub)
                /\ proc' = [proc EXCEPT ![h].pc = "wait", ![h].stub = NewId(a)]
       /\ Enqueue(h)
       /\ UNCHANGED <<busy, active, dialogue, events>>

\* Handlers and LLM coroutines: the agent runs the commands of a post.
HandsEnter(p) ==
    /\ Enter(p, "wait", "hands", "agent")
    /\ UNCHANGED <<posts, line, active, dialogue, events>>

\* The rest of process_post: the text is text now and the agent may reply;
\* check_start_replication looks at the processed text.  If it starts no
\* dialogue the early progress post is to be deleted, in the name of the agent,
\* who is not its author nor an admin: delete_post refuses.
Processed(m, text, reply) ==
    LET h == Handler(m)
        edited == IF text = proc[h].text THEN posts ELSE Edited(posts, proc[h].post, text)
    IN /\ proc[h].pc = "hands"
       /\ posts' = Replied(edited, reply, m)
       /\ Leave(h)
       /\ proc' = [proc EXCEPT ![h].pc = "done"]
       /\ dialogue' = [dialogue EXCEPT ![m] = IF Triggers(text) = {} THEN "none" ELSE "scheduled"]
       /\ UNCHANGED <<active, events>>

(***************************************************************************)
(* replicate_to_llm.                                                       *)
(***************************************************************************)
\* proc with coroutines that p has started in a round for the LLMs in R.
Spawned(p, round, R) ==
    LET new == {Append(p, <<round, a>>) : a \in R}
    IN [q \in DOMAIN proc \cup new |-> IF q \in new THEN Idle ELSE proc[q]]

\* A dialogue of the chat runs already: this one is dropped.
Drop(m) ==
    /\ dialogue[m] = "scheduled"
    /\ active
    /\ dialogue' = [dialogue EXCEPT ![m] = "dropped"]
    /\ UNCHANGED <<posts, line, busy, active, proc, events>>

\* Mutant: replicate_to_llm does not look at active_replications.
Replicate_again(m) ==
    LET R == Addressed(posts, proc[Handler(m)].post)
    IN /\ dialogue[m] = "scheduled"
       /\ active' = (R # {})
       /\ dialogue' = [dialogue EXCEPT ![m] = IF R = {} THEN "over" ELSE "running"]
       /\ proc' = Spawned(Handler(m), 1, R)
       /\ UNCHANGED <<posts, line, busy, events>>

Replicate(m) ==
    LET R == Addressed(posts, proc[Handler(m)].post)
    IN /\ dialogue[m] = "scheduled"
       /\ ~active
       /\ active' = (R # {})
       /\ dialogue' = [dialogue EXCEPT ![m] = IF R = {} THEN "over" ELSE "running"]
       /\ proc' = Spawned(Handler(m), 1, R)
       /\ UNCHANGED <<posts, line, busy, events>>

\* asyncio.gather is over when all branches are, or when the first one raises;
\* the other branches go on then.
AllEnded(p, round) == \A t \in Children(p, round) : proc[t].pc = "ended"
OneRaised(p, round) == \E t \in Children(p, round) : proc[t].pc = "raised"

DialogueOver(m) ==
    /\ dialogue[m] = "running"
    /\ AllEnded(Handler(m), 1)
    /\ active' = FALSE
    /\ dialogue' = [dialogue EXCEPT ![m] = "over"]
    /\ UNCHANGED <<posts, line, busy, proc, events>>

\* check_exceptions posts the error.
DialogueRaised(m) ==
    /\ dialogue[m] = "running"
    /\ OneRaised(Handler(m), 1)
    /\ active' = FALSE
    /\ dialogue' = [dialogue EXCEPT ![m] = "over"]
    /\ posts' = Added(posts, "agent", Saying({}))
    /\ UNCHANGED <<line, busy, proc, events>>

(***************************************************************************)
(* _recursive_replicate.                                                   *)
(***************************************************************************)
\* The LLM's latest post is taken for the answer if it is a progress post, of
\* whomever; otherwise there is a new one.
Start(t) ==
    LET last == latest_post(posts, Actor(t))
        reuse == last # NoPost /\ Post(posts, last).text.stub
    IN /\ proc[t].pc = "new"
       /\ posts' = IF reuse THEN posts ELSE Added(posts, Actor(t), Stub)
       /\ proc' = [proc EXCEPT ![t].pc = "turn",
                               ![t].post = IF reuse THEN last ELSE NewId(Actor(t))]
       /\ Enqueue(t)
       /\ UNCHANGED <<busy, active, dialogue, events>>

\* The lock is taken, interact is started and the first heartbeat written.
Ask(t) ==
    /\ Enter(t, "turn", "llm", Actor(t))
    /\ posts' = Edited(posts, proc[t].post, Stub)
    /\ UNCHANGED <<line, active, dialogue, events>>

\* A later heartbeat, if the post is not what the last one left.
Heartbeat(t) ==
    /\ proc[t].pc = "llm"
    /\ ~Post(posts, proc[t].post).text.stub
    /\ posts' = Edited(posts, proc[t].post, Stub)
    /\ UNCHANGED <<line, busy, active, dialogue, proc, events>>

\* interact has returned an answer: the lock is released, the answer replaces
\* the progress post and process_post waits for the lock again.
Answer(t, text) ==
    /\ proc[t].pc = "llm"
    /\ posts' = Edited(posts, proc[t].post, text)
    /\ busy' = busy \ {NameOf(t)}
    /\ line' = Append(Tail(line), t)
    /\ proc' = [proc EXCEPT ![t].pc = "wait", ![t].text = text]
    /\ UNCHANGED <<active, dialogue, events>>

\* The provider failed: interact posts the error as the agent and returns it.
ProviderFails(t) ==
    /\ Bounded
    /\ proc[t].pc = "llm"
    /\ posts' = Edited(Added(posts, "agent", Saying({})), proc[t].post, Saying({}))
    /\ busy' = busy \ {NameOf(t)}
    /\ line' = Append(Tail(line), t)
    /\ proc' = [proc EXCEPT ![t].pc = "wait", ![t].text = Saying({})]
    /\ UNCHANGED <<active, dialogue>>

\* The answer is empty.
NoAnswer(t) ==
    /\ Bounded
    /\ proc[t].pc = "llm"
    /\ posts' = Added(Edited(posts, proc[t].post, Saying({})), "agent", Saying({}))
    /\ Leave(t)
    /\ proc' = [proc EXCEPT ![t] = [Idle EXCEPT !.pc = "ended"]]
    /\ UNCHANGED <<active, dialogue>>

\* interact raised, say for a context above the token limit.
Raise(t) ==
    /\ Bounded
    /\ proc[t].pc = "llm"
    /\ Leave(t)
    /\ proc' = [proc EXCEPT ![t] = [Idle EXCEPT !.pc = "raised"]]
    /\ UNCHANGED <<posts, active, dialogue>>

\* t goes on with the coroutines for R, or is over.
Gathering(t, round, R, reply) ==
    proc' = [Spawned(t, round, R) EXCEPT
               ![t] = IF R = {} THEN [Idle EXCEPT !.pc = "ended"]
                      ELSE [Idle EXCEPT !.pc = "gather", !.round = round, !.reply = reply]]

\* Mutant: the answer is spread before the agent's lock is released.
Spread_locked(t, text, reply) ==
    LET edited == IF text = proc[t].text THEN posts ELSE Edited(posts, proc[t].post, text)
        ps == Replied(edited, reply, Actor(t))
        first == IF rql(t) < MaxRql THEN Addressed(ps, proc[t].post) ELSE {}
    IN /\ proc[t].pc = "hands"
       /\ posts' = ps
       /\ IF first = {} THEN Leave(t) ELSE UNCHANGED <<line, busy>>
       /\ Gathering(t, 1, first, reply # "none")
       /\ UNCHANGED <<active, dialogue, events>>

\* The rest of process_post, and _broadcast for the answer; if that starts no
\* one, _broadcast for the agent's latest post.
Spread(t, text, reply) ==
    LET edited == IF text = proc[t].text THEN posts ELSE Edited(posts, proc[t].post, text)
        ps == Replied(edited, reply, Actor(t))
        deeper == rql(t) < MaxRql
        first == IF deeper THEN Addressed(ps, proc[t].post) ELSE {}
        second == IF deeper /\ reply # "none"
                  THEN Addressed(ps, latest_post(ps, "agent")) ELSE {}
    IN /\ proc[t].pc = "hands"
       /\ posts' = ps
       /\ Leave(t)
       /\ IF first # {} THEN Gathering(t, 1, first, reply # "none")
          ELSE Gathering(t, 2, second, FALSE)
       /\ UNCHANGED <<active, dialogue, events>>

\* The branches are over; if the agent had replied, its latest post is spread.
Joined(t) ==
    /\ proc[t].pc = "gather"
    /\ AllEnded(t, proc[t].round)
    /\ Gathering(t, 2, IF proc[t].reply THEN Addressed(posts, latest_post(posts, "agent")) ELSE {},
                 FALSE)
    /\ UNCHANGED <<posts, line, busy, active, dialogue, events>>

BranchRaised(t) ==
    /\ proc[t].pc = "gather"
    /\ OneRaised(t, proc[t].round)
    /\ proc' = [proc EXCEPT ![t] = [Idle EXCEPT !.pc = "raised"]]
    /\ UNCHANGED <<posts, line, busy, active, dialogue, events>>

(***************************************************************************)
(* Other requests: a user edits or deletes his post, an admin any post.    *)
(***************************************************************************)
EditPost(by, n, text) ==
    /\ Bounded
    /\ posts' = Edited(posts, <<by, n>>, text)
    /\ UNCHANGED <<line, busy, active, dialogue, proc>>

DeletePost(by, n) ==
    /\ Bounded
    /\ posts[by][n].live
    /\ posts' = [posts EXCEPT ![by][n].live = FALSE]
    /\ UNCHANGED <<line, busy, active, dialogue, proc>>
-----------------------------------------------------------------------------
Init ==
    /\ posts = [by \in Authors |-> <<>>]
    /\ line = <<>>
    /\ busy = {}
    /\ active = FALSE
    /\ dialogue = [m \in Messages |-> "none"]
    /\ proc = [p \in {} |-> Idle]
    /\ events = 0

\* What the agent makes of a text: its commands are replaced by their results.
Results(text) == {text, Saying({})}

HandlerStep(m) ==
    /\ Handler(m) \in DOMAIN proc
    /\ \/ Process(m)
       \/ HandsEnter(Handler(m))
       \/ \E text \in Results(proc[Handler(m)].text), reply \in Replies[m] : Processed(m, text, reply)

DialogueStep(m) == Drop(m) \/ Replicate(m) \/ DialogueOver(m) \/ DialogueRaised(m)

TaskStep(t) ==
    \/ Start(t) \/ Ask(t) \/ Heartbeat(t) \/ HandsEnter(t)
    \/ \E text \in LlmTexts : Answer(t, text)
    \/ \E text \in Results(proc[t].text), reply \in Replies[MessageOf(t)] : Spread(t, text, reply)
    \/ Joined(t) \/ BranchRaised(t)

Step == \/ \E m \in Messages : HandlerStep(m) \/ DialogueStep(m)
        \/ \E t \in Tasks : TaskStep(t)

Next ==
    \/ \E m \in Messages : \E text \in UserTexts[m] : Send(m, text)
    \/ Step
    \/ \E t \in Tasks : ProviderFails(t) \/ NoAnswer(t) \/ Raise(t)
    \/ \E by \in Authors : \E n \in DOMAIN posts[by] :
          DeletePost(by, n) \/ \E text \in LlmTexts : EditPost(by, n, text)

Spec == Init /\ [][Next]_vars

\* The event loop runs what is ready, and a call of a provider ends: at its
\* timeout, if not before.
FairSpec == Spec /\ WF_vars(Step)
-----------------------------------------------------------------------------
Pcs == {"new", "sent", "turn", "wait", "llm", "hands", "gather", "ended", "raised", "done"}

TypeOK ==
    /\ posts \in [Authors -> Seq([text : Text, live : BOOLEAN])]
    /\ busy \subseteq Actors \cup {"agent"}
    /\ active \in BOOLEAN
    /\ dialogue \in [Messages -> {"none", "scheduled", "dropped", "running", "over"}]
    /\ \A p \in DOMAIN proc :
          /\ p[1] \in Messages /\ Len(p) <= MaxRql + 1
          /\ proc[p].pc \in Pcs
          /\ \A i \in {proc[p].post, proc[p].stub} \ {NoPost} : i[2] \in DOMAIN posts[i[1]]
          /\ proc[p].text \in Text
    /\ events \in 0..MaxEvents

\* One coroutine at a time talks to an LLM or runs the agent's commands in the
\* chat, it is the one that holds the lock, and GET /chat/get reports it and no
\* one else (chats.py:118-151, 162-200).
Inside == {p \in DOMAIN proc : proc[p].pc \in {"llm", "hands"}}
OneInside ==
    /\ \A p \in Inside : line # <<>> /\ line[1] = p
    /\ busy = {NameOf(p) : p \in Inside}

\* Two dialogues go on in the chat at once only after a branch has raised
\* (replication.py:422-426 and 445): the one that raised is no longer in
\* active_replications while its other branches go on.
Going == {t \in Tasks : proc[t].pc \notin {"ended", "raised"}}
OneDialogue ==
    \A s, t \in Going : MessageOf(s) # MessageOf(t) =>
        \E u \in Tasks : proc[u].pc = "raised" /\ MessageOf(u) \in {MessageOf(s), MessageOf(t)}

\* A dialogue ends, so the chat can take the next one: no coroutine waits for
\* the lock while it, or a coroutine that waits for it, holds it, and mutual
\* mentions stop at max_rql (replication.py:148-155, 182-196, 251-258).
DialoguesEnd == []<>~active
-----------------------------------------------------------------------------
(***************************************************************************)
(* The inductive invariant behind TypeOK, OneInside and OneDialogue        *)
(* (ReplicationProofs)                                                     *)
(***************************************************************************)

Paths == Seq(Messages \cup ({1, 2} \X Actors))
Prefix(p, n) == SubSeq(p, 1, n)

\* Every coroutine was started by one that is there, and by a handler once.
PathsOK ==
    \A p \in DOMAIN proc :
        /\ p \in Paths /\ Len(p) \in 1..MaxRql + 1 /\ p[1] \in Messages
        /\ \A i \in 2..Len(p) : p[i] \in {1, 2} \X Actors
        /\ \A n \in 1..Len(p) : Prefix(p, n) \in DOMAIN proc

Ids == Authors \X Nat
Known(i) == i \in Ids /\ i[2] \in DOMAIN posts[i[1]]
Records ==
    [pc : Pcs, post : Ids \cup {NoPost}, stub : Ids \cup {NoPost}, text : Text,
     reply : BOOLEAN, round : {0, 1, 2}]
RecordOK(p, r) ==
    /\ r \in Records
    /\ r.post = NoPost \/ Known(r.post)
    /\ r.stub = NoPost \/ Known(r.stub)
    /\ r.pc \in {"sent", "turn", "llm", "wait", "hands"} => Known(r.post)
    /\ r.pc \in {"sent", "done"} => Len(p) = 1
    /\ r.pc \in {"new", "turn", "llm", "gather", "ended", "raised"} => Len(p) > 1
    /\ r.pc = "gather" => Len(p) <= MaxRql /\ r.round # 0 /\ (r.round = 2 => ~r.reply)
StateOK ==
    /\ posts \in [Authors -> Seq([text : Text, live : BOOLEAN])]
    /\ busy \subseteq Actors \cup {"agent"} /\ active \in BOOLEAN
    /\ dialogue \in [Messages -> {"none", "scheduled", "dropped", "running", "over"}]
    /\ events \in 0..MaxEvents
    /\ \A p \in DOMAIN proc : RecordOK(p, proc[p])

\* Those who wait for the lock or hold it are in its line, once each.
LineOK ==
    /\ line \in Seq(Paths)
    /\ \A i, j \in DOMAIN line : line[i] = line[j] => i = j
    /\ \A i \in DOMAIN line :
          line[i] \in DOMAIN proc /\ proc[line[i]].pc \in {"wait", "turn", "llm", "hands"}
    /\ \A p \in DOMAIN proc : proc[p].pc \in {"wait", "turn", "llm", "hands"} =>
          \E i \in DOMAIN line : line[i] = p

\* A round is started once, by the handler whose dialogue runs or by a coroutine
\* that then waits for it.
RoundsOK ==
    /\ \A m \in Messages :
          \/ Handler(m) \in DOMAIN proc /\ proc[Handler(m)].pc = "done"
          \/ dialogue[m] = "none"
    /\ \A t \in Tasks :
          IF Len(t) = 2 THEN t[2][1] = 1 /\ dialogue[t[1]] \in {"running", "over"}
          ELSE LET r == proc[Prefix(t, Len(t) - 1)] IN
               /\ r.pc \in {"gather", "ended", "raised"}
               /\ r.pc = "gather" /\ t[Len(t)][1] = 2 => r.round = 2

HasRaised(m) == \E u \in Tasks : proc[u].pc = "raised" /\ MessageOf(u) = m

\* Unless a branch has raised, whoever is at work is waited for by all above.
Awaited ==
    \A t \in Going : HasRaised(MessageOf(t)) \/
        \A n \in 2..Len(t) - 1 :
            proc[Prefix(t, n)].pc = "gather" /\ proc[Prefix(t, n)].round = t[n + 1][1]

\* One dialogue runs, and only there is someone at work unless a branch has raised.
DialoguesOK ==
    /\ active <=> \E m \in Messages : dialogue[m] = "running"
    /\ \A m, n \in Messages : dialogue[m] = "running" /\ dialogue[n] = "running" => m = n
    /\ \A t \in Going : dialogue[MessageOf(t)] = "running" \/ HasRaised(MessageOf(t))

IInv == StateOK /\ PathsOK /\ LineOK /\ OneInside /\ RoundsOK /\ Awaited /\ DialoguesOK
=============================================================================
