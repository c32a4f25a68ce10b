---------------------------- MODULE ProjectContext ----------------------------
(***************************************************************************)
(* Which project a post works on: the row of a session, the registry of    *)
(* ProjectManager objects, and the context variable that a post's task     *)
(* hands on to the task of the answer to it.                               *)
(* agent/routes/auth_routes.py, agent/routes/project_routes.py,            *)
(* agent/managers/project.py, chats.py, posts.py, agent/post_processor.py, *)
(* agent/server.py.                                                        *)
(*                                                                         *)
(* A session belongs to one user; the actors of the model's answers have   *)
(* no session.  A post is its task, from POST /chat/post to the answer.    *)
(***************************************************************************)
EXTENDS Integers, FiniteSets

CONSTANTS
    Sessions,    \* session cookies
    Names,       \* names of projects and of their directories
    MaxProjects, \* bound: projects created (their ids are 1..MaxProjects)
    Postgres,    \* CORE_DB is PostgreSQL (insert_or_replace keeps the columns it is not given)
    None,
    MaxPosts,    \* bound: posts sent
    MaxSelects,  \* bound: projects selected
    MaxPolls,    \* bound: polls that move the active chat
    MaxUpdates,  \* bound: projects renamed
    MaxStops     \* bound: restarts of the core

VARIABLES
    rows,      \* the table projects: id -> project_name
    dirs,      \* the directories below /app/projects
    sessions,  \* the table sessions: active_project and active_chat of each row
    registry,  \* project_registry: id -> project_name of the manager
    default,   \* globals.project_manager: its project_id
    posts,     \* the tasks of posts
    picked,    \* history: the project the user of each session selected last
    spent      \* how much of each bound is spent

vars == <<rows, dirs, sessions, registry, default, posts, picked, spent>>

Ids == 1..MaxProjects
Spend(what, max) == spent[what] < max /\ spent' = [spent EXCEPT ![what] = @ + 1]
NoRow == [here |-> FALSE, project |-> None, chat |-> FALSE]
Known == {p \in Ids : rows[p] # None}
NoPost == [pc |-> "none", session |-> None, took |-> None, project |-> None, since |-> {}, did |-> None, answer |-> None]

(***************************************************************************)
(* Sessions.  Logging out forgets what was selected.                       *)
(***************************************************************************)
login(s) ==
    /\ ~ sessions[s].here
    /\ \A n \in 1..MaxPosts : posts[n].session # s \/ posts[n].pc = "done"   \* a cookie never used
    /\ sessions' = [sessions EXCEPT ![s] = [NoRow EXCEPT !.here = TRUE]]
    /\ picked' = [picked EXCEPT ![s] = None]
    /\ UNCHANGED <<rows, dirs, registry, default, posts, spent>>

\* Mutant: the upsert is the INSERT OR REPLACE of SQLite.
insert_or_replace_empties(row, given) ==
    [here    |-> TRUE,
     project |-> IF "project" \in DOMAIN given THEN given.project ELSE None,
     chat    |-> IF "chat" \in DOMAIN given THEN given.chat ELSE FALSE]

\* INSERT OR REPLACE of SQLite empties the columns that are not given, the upsert of
\* PostgreSQL keeps them.
insert_or_replace(row, given) ==
    [here    |-> TRUE,
     project |-> IF "project" \in DOMAIN given THEN given.project ELSE IF Postgres THEN row.project ELSE None,
     chat    |-> IF "chat" \in DOMAIN given THEN given.chat ELSE Postgres /\ row.chat]

\* The posts under way see what is selected from now on.
Noticed(s, p) == [n \in 1..MaxPosts |->
    IF posts[n].session = s /\ posts[n].pc = "sent" THEN [posts[n] EXCEPT !.since = @ \cup {p}] ELSE posts[n]]

logout(s) ==
    /\ sessions[s].here
    /\ sessions' = [sessions EXCEPT ![s] = NoRow]
    /\ posts' = Noticed(s, None)
    /\ UNCHANGED <<rows, dirs, registry, default, picked, spent>>

\* POST /project/select takes any number, and the empty choice.
select_project(s, p) ==
    /\ sessions[s].here
    /\ Spend("selects", MaxSelects)
    /\ sessions' = [sessions EXCEPT ![s] = insert_or_replace(@, [project |-> p])]
    /\ picked' = [picked EXCEPT ![s] = p]
    /\ posts' = Noticed(s, p)
    /\ UNCHANGED <<rows, dirs, registry, default>>

\* A poll of GET /chat/get or a switch writes the active chat into the same row.
select_chat(s) ==
    /\ sessions[s].here /\ Spend("polls", MaxPolls)
    /\ sessions' = [sessions EXCEPT ![s] = insert_or_replace(@, [chat |-> TRUE])]
    /\ UNCHANGED <<rows, dirs, registry, default, posts, picked>>

(***************************************************************************)
(* Projects and their managers.                                            *)
(***************************************************************************)
\* ProjectManager.create_project: the directory is made first; the UNIQUE name refuses the
\* row of a second project.
Created(name) ==
    /\ dirs' = dirs \cup {name}
    /\ \/ /\ \A p \in Known : rows[p] # name
          /\ \E p \in Ids \ Known :
                /\ \A q \in Ids : q < p => q \in Known
                /\ rows' = [rows EXCEPT ![p] = name]
       \/ \E p \in Known : rows[p] = name /\ UNCHANGED rows

create_project(name) ==
    /\ Created(name)
    /\ <<rows', dirs'>> # <<rows, dirs>>
    /\ UNCHANGED <<sessions, registry, default, posts, picked, spent>>

\* load: the name a new manager reads
Loaded(p) == rows[p]

\* ProjectManager.get: the registry afterwards, and the id of the manager it returns
Got(p) ==
    IF p = default \/ registry[p] # None THEN [of |-> p, registry |-> registry]
    ELSE IF p \in Known THEN [of |-> p, registry |-> [registry EXCEPT ![p] = Loaded(p)]]
    ELSE [of |-> None, registry |-> registry]

\* Mutant: only the row takes the name.
Renamed_rowOnly(p, name) ==
    /\ \A q \in Known : rows[q] # name
    /\ rows' = [rows EXCEPT ![p] = name]
    /\ registry' = Got(p).registry

\* ProjectManager.update: the row and the manager take the name; the directory keeps its own.
Renamed(p, name) ==
    /\ \A q \in Known : rows[q] # name
    /\ rows' = [rows EXCEPT ![p] = name]
    /\ registry' = [Got(p).registry EXCEPT ![p] = name]

update_project(p, name) ==
    /\ Spend("updates", MaxUpdates)
    /\ p \in Known
    /\ Renamed(p, name)
    /\ UNCHANGED <<dirs, sessions, default, posts, picked>>

(***************************************************************************)
(* Posts.                                                                  *)
(***************************************************************************)
post_message(s, n) ==
    /\ sessions[s].here
    /\ posts[n].pc = "none" /\ \A m \in 1..MaxPosts : m < n => posts[m].pc # "none"
    /\ posts' = [posts EXCEPT ![n] = [NoPost EXCEPT !.pc = "sent", !.session = s, !.since = {picked[s]}]]
    /\ UNCHANGED <<rows, dirs, sessions, registry, default, picked, spent>>

\* Mutant: the row is looked up by its session alone.
active_project_ofSession(s, own) == sessions[s].project

\* What the table says of a user and a session; only the user of the session has a row.
active_project(s, own) == IF own THEN sessions[s].project ELSE None

\* process_post: the task of the post takes the project of its session.
process_post(n) ==
    /\ posts[n].pc = "sent"
    /\ LET p == active_project(posts[n].session, TRUE) IN
       IF p = None
       THEN posts' = [posts EXCEPT ![n].pc = "working"] /\ UNCHANGED registry
       ELSE /\ posts' = [posts EXCEPT ![n].pc = "working", ![n].took = p, ![n].project = Got(p).of]
            /\ registry' = Got(p).registry
    /\ UNCHANGED <<rows, dirs, sessions, default, picked, spent>>

\* What a block processor works on: the project of its task, else the default of the core
Manager(p) == IF p # None THEN p ELSE default

\* process_response waits for the lock of the chat; each command of the post then runs in the
\* directory of its project, or is refused without one.
handle_block(n, asks) ==
    /\ posts[n].pc = "working"
    /\ posts' = [posts EXCEPT ![n].pc = IF asks THEN "asking" ELSE "done",
                              ![n].did = Manager(posts[n].project)]
    /\ UNCHANGED <<rows, dirs, sessions, registry, default, picked, spent>>

\* The answer of a model is a post of a task that copied the context: the actor has no
\* row of its own, so the project stays.
process_answer(n) ==
    /\ posts[n].pc = "asking"
    /\ LET p == active_project(posts[n].session, FALSE)
           q == IF p = None THEN posts[n].project ELSE Got(p).of IN
       /\ posts' = [posts EXCEPT ![n].pc = "done", ![n].answer = Manager(q)]
       /\ registry' = IF p = None THEN registry ELSE Got(p).registry
    /\ UNCHANGED <<rows, dirs, sessions, default, picked, spent>>

\* A restart: the tasks are gone; the first row in the order of the database is the default.
Start ==
    /\ Spend("stops", MaxStops)
    /\ posts' = [n \in 1..MaxPosts |-> IF posts[n].pc = "none" THEN NoPost ELSE [posts[n] EXCEPT !.pc = "done"]]
    /\ \E p \in IF Known = {} THEN {None} ELSE Known :
          /\ default' = p
          /\ registry' = [q \in Ids |-> IF q = p THEN rows[q] ELSE None]
    /\ UNCHANGED <<rows, dirs, sessions, picked>>

Init ==
    /\ rows = [p \in Ids |-> None] /\ dirs = {}
    /\ sessions = [s \in Sessions |-> NoRow]
    /\ registry = [p \in Ids |-> None] /\ default = None
    /\ posts = [n \in 1..MaxPosts |-> NoPost]
    /\ picked = [s \in Sessions |-> None]
    /\ spent = [w \in {"selects", "polls", "updates", "stops"} |-> 0]

Next ==
    \/ \E s \in Sessions : login(s) \/ logout(s) \/ select_chat(s)
    \/ \E s \in Sessions, p \in Ids \cup {None} : select_project(s, p)
    \/ \E name \in Names : create_project(name)
    \/ \E p \in Ids, name \in Names : update_project(p, name)
    \/ \E s \in Sessions, n \in 1..MaxPosts : post_message(s, n)
    \/ \E n \in 1..MaxPosts : process_post(n) \/ process_answer(n)
    \/ \E n \in 1..MaxPosts, asks \in BOOLEAN : handle_block(n, asks)
    \/ Start

Spec == Init /\ [][Next]_vars

(***************************************************************************)
(* The context of a post: the project was selected by the user of its      *)
(* session at some moment from sending to processing, whatever polls and   *)
(* other sessions wrote meanwhile (posts.py:180-183, chats.py:86-118).     *)
(* It need not be the one selected when the post was sent.                 *)
(***************************************************************************)
WorksWhereSelected ==
    \A n \in 1..MaxPosts : posts[n].pc = "working" => posts[n].took \in posts[n].since

(***************************************************************************)
(* The edits in a model's answer go to the project that the post it        *)
(* answers was processed in, though the user has selected another since    *)
(* (posts.py:180-183, the context copied with the task).                   *)
(***************************************************************************)
AnswerFollowsPost ==
    \A n \in 1..MaxPosts : posts[n].answer # None => posts[n].answer = posts[n].did

(***************************************************************************)
(* Every manager in memory has the name of the row, so that two sessions   *)
(* with one project work in one directory (project.py:149-215).            *)
(***************************************************************************)
OneDirectory == \A p \in Ids : registry[p] # None => registry[p] = rows[p]
-----------------------------------------------------------------------------
(***************************************************************************)
(* The inductive invariant behind WorksWhereSelected, AnswerFollowsPost    *)
(* and OneDirectory (CoreProofs)                                           *)
(***************************************************************************)
TypeOK ==
    /\ rows \in [Ids -> Names \cup {None}] /\ registry \in [Ids -> Names \cup {None}]
    /\ sessions \in [Sessions -> [here : BOOLEAN, project : Ids \cup {None}, chat : BOOLEAN]]
    /\ default \in Ids \cup {None}
    /\ posts \in [1..MaxPosts -> [pc : {"none", "sent", "working", "asking", "done"},
                                  session : Sessions \cup {None}, took : Ids \cup {None},
                                  project : Ids \cup {None}, since : SUBSET (Ids \cup {None}),
                                  did : Ids \cup {None}, answer : Ids \cup {None}]]
    /\ picked \in [Sessions -> Ids \cup {None}]

\* A session's row has the project its user selected.
RowIsPicked == \A s \in Sessions : sessions[s].here => sessions[s].project = picked[s]

\* A post that waits has noticed what its session's row says; one that waits for
\* its answer has worked where the answer will.
PostsFollow ==
    \A n \in 1..MaxPosts :
        /\ posts[n].pc = "sent" => /\ posts[n].session \in Sessions /\ posts[n].took = None
                                  /\ sessions[posts[n].session].project \in posts[n].since
        /\ posts[n].pc = "asking" => posts[n].did = Manager(posts[n].project)
        /\ posts[n].pc \in {"none", "sent", "working", "asking"} => posts[n].answer = None

IInv == TypeOK /\ RowIsPicked /\ PostsFollow /\ WorksWhereSelected /\ AnswerFollowsPost /\ OneDirectory
=============================================================================
