------------------------------- MODULE FilePanel ------------------------------
(***************************************************************************)
(* The panel of projects and files of one tab and the routes that answer   *)
(* it: the selection, the tree of the selected project, the requests in    *)
(* flight that makeRequest shares, the notices of the tab's own changes.   *)
(* frontend/src/components/RightPanel.vue, stores/files.js,                *)
(* utils/requests.js; agent/routes/project_routes.py, file_routes.py.      *)
(*                                                                         *)
(* A tree is the project it is of and the number of changes to the files   *)
(* of that project that it shows.                                          *)
(***************************************************************************)
EXTENDS Integers, FiniteSets, Sequences

CONSTANTS
    Projects,   \* ids of projects
    None,       \* no project
    MaxClicks,  \* bound: selections, pages opened, projects created
    MaxChanges, \* bound: changes to files
    MaxFaults   \* bound: requests that fail or run into their 25 s

VARIABLES
    projects,   \* the table projects
    files,      \* how often the files of each project were changed
    active,     \* active_project of the session
    selected,   \* selectedProject
    fileTrees,  \* the tree shown
    pendingRequests, \* the requests for trees, and what the core has read for them
    selecting,  \* selectProject in progress: its POSTs in the order of the clicks
    creating,   \* createProject in progress
    changing,   \* own changes to files: requested or done, not yet told to the panel
    debounce,   \* debounceLoadFiles is set
    told,       \* history: the change of each project that the panel was told of last
    doubt,      \* history: why the panel may show something else
    spent

vars == <<projects, files, active, selected, fileTrees, pendingRequests, selecting, creating,
          changing, debounce, told, doubt, spent>>
core == <<projects, files, active>>
panel == <<selected, fileTrees>>
flights == <<pendingRequests, selecting, creating, changing, debounce>>

Spend(what, max) == spent[what] < max /\ spent' = [spent EXCEPT ![what] = @ + 1]
NoTree == [of |-> None, version |-> 0]
Asked == -1     \* read: the core has not looked at the index yet
NotCreating == [project |-> None, pc |-> "idle"]
Doubts(ds) == doubt' = doubt \cup ds

(***************************************************************************)
(* Requests.                                                               *)
(***************************************************************************)
Requests(p) == {r \in pendingRequests : r.of = p}

\* Mutant: every call asks anew.
makeRequest_again(p) ==
    pendingRequests' = pendingRequests \cup {[of |-> p, read |-> Asked]} /\ UNCHANGED <<fileTrees, doubt>>

\* makeRequest: a call with the key of a request in flight waits for that one's answer,
\* which may have been read before the change it is to show.
makeRequest(p) ==
    IF Requests(p) = {}
    THEN pendingRequests' = pendingRequests \cup {[of |-> p, read |-> Asked]} /\ UNCHANGED <<fileTrees, doubt>>
    ELSE /\ UNCHANGED <<pendingRequests, fileTrees>>
         /\ Doubts(IF \E r \in Requests(p) : r.read # Asked THEN {"joined"} ELSE {})

\* loadProjectTree(): the call of a handler that leaves sel selected
loadProjectTree(sel) ==
    IF sel = None THEN fileTrees' = NoTree /\ UNCHANGED <<pendingRequests, doubt>>
    ELSE makeRequest(sel)

\* The core builds the tree in a thread, from the index as it is.
file_tree(r) ==
    /\ r.read = Asked
    /\ pendingRequests' = (pendingRequests \ {r}) \cup {[r EXCEPT !.read = files[r.of]]}
    /\ UNCHANGED <<core, panel, selecting, creating, changing, debounce, told, doubt, spent>>

\* The answer is shown, whatever is selected by now.
ShowTree(r) ==
    /\ r.read # Asked
    /\ pendingRequests' = pendingRequests \ {r}
    /\ fileTrees' = [of |-> r.of, version |-> r.read]
    /\ Doubts(IF r.of = selected THEN {} ELSE {"crossed"})
    /\ UNCHANGED <<core, selected, selecting, creating, changing, debounce, told, spent>>

\* No answer within 25 s, an error, or no connection
TreeFails(r) ==
    /\ Spend("faults", MaxFaults)
    /\ pendingRequests' = pendingRequests \ {r}
    /\ Doubts({"failed"})
    /\ UNCHANGED <<core, panel, selecting, creating, changing, debounce, told>>

(***************************************************************************)
(* The selection.  A page that was opened shows no project, though the     *)
(* session may have one.                                                   *)
(***************************************************************************)
Sent == SelectSeq(selecting, LAMBDA s : s.pc # "answered")   \* POSTs the core has not seen

mounted ==
    /\ Spend("clicks", MaxClicks)
    /\ selected' = None /\ fileTrees' = NoTree /\ pendingRequests' = {}
    /\ selecting' = [i \in DOMAIN Sent |-> [Sent[i] EXCEPT !.pc = "left"]]
    /\ creating' = NotCreating /\ changing' = {} /\ debounce' = FALSE
    /\ doubt' = IF active = None /\ Sent = <<>> THEN {} ELSE {"opened"}
    /\ UNCHANGED <<core, told>>

\* A click when nothing is under way settles the doubts about the session.
selectProject(p) ==
    /\ Spend("clicks", MaxClicks)
    /\ creating.project # p     \* the panel does not list it yet
    /\ selected' = p
    /\ selecting' = Append(selecting, [project |-> p, pc |-> "out"])
    /\ doubt' = IF selecting = <<>> /\ pendingRequests = {} THEN {} ELSE doubt
    /\ UNCHANGED <<core, fileTrees, pendingRequests, creating, changing, debounce, told>>

Without(s, i) == [j \in 1..Len(s) - 1 |-> IF j < i THEN s[j] ELSE s[j + 1]]

\* POST /project/select is answered; an earlier one may still be on its way.
select_project(i) ==
    /\ selecting[i].pc # "answered"
    /\ active' = selecting[i].project
    /\ selecting' = IF selecting[i].pc = "left" THEN Without(selecting, i)
                    ELSE [selecting EXCEPT ![i].pc = "answered"]
    /\ Doubts(IF \A j \in DOMAIN selecting : j < i => selecting[j].pc = "answered" THEN {} ELSE {"swapped"})
    /\ UNCHANGED <<projects, files, panel, pendingRequests, creating, changing, debounce, told, spent>>

\* The handler goes on with what is selected now.
Selected(i) ==
    /\ selecting[i].pc = "answered"
    /\ selecting' = Without(selecting, i)
    /\ loadProjectTree(selected)
    /\ UNCHANGED <<core, selected, creating, changing, debounce, told, spent>>

\* Without a connection the handler ends; a refusal it takes for an answer.
SelectFails(i) ==
    /\ Spend("faults", MaxFaults)
    /\ \/ selecting' = Without(selecting, i)
       \/ selecting[i].pc = "out" /\ selecting' = [selecting EXCEPT ![i].pc = "answered"]
    /\ Doubts({"failed"})
    /\ UNCHANGED <<core, panel, pendingRequests, creating, changing, debounce, told>>

create_project(p) ==
    /\ creating = NotCreating /\ p \notin projects
    /\ Spend("clicks", MaxClicks)
    /\ projects' = projects \cup {p}
    /\ creating' = [project |-> p, pc |-> "asked"]
    /\ UNCHANGED <<files, active, panel, pendingRequests, selecting, changing, debounce, told, doubt>>

\* The new project is selected in the panel; nothing tells the session.
createProject ==
    /\ creating.pc = "asked"
    /\ creating' = [creating EXCEPT !.pc = "listing"]
    /\ selected' = creating.project
    /\ Doubts({"created"})
    /\ UNCHANGED <<core, fileTrees, pendingRequests, selecting, changing, debounce, told, spent>>

\* The list of projects is answered.
fetchProjects ==
    /\ creating.pc = "listing"
    /\ creating' = NotCreating
    /\ loadProjectTree(selected)
    /\ UNCHANGED <<core, selected, selecting, changing, debounce, told, spent>>

(***************************************************************************)
(* Changes to files: by the tab, which tells its panel when the answer is  *)
(* there, and by everyone else, who does not.                              *)
(***************************************************************************)
OwnChange(p) ==
    /\ p \in projects /\ \A c \in changing : c.project # p
    /\ Spend("changes", MaxChanges)
    /\ files' = [files EXCEPT ![p] = files[p] + 1]
    /\ changing' = changing \cup {[project |-> p, version |-> files[p] + 1]}
    /\ UNCHANGED <<projects, active, panel, pendingRequests, selecting, creating, debounce, told, doubt>>

OtherChange(p) ==
    /\ p \in projects
    /\ Spend("changes", MaxChanges)
    /\ files' = [files EXCEPT ![p] = files[p] + 1]
    /\ UNCHANGED <<projects, active, panel, flights, told, doubt>>

\* Mutant: a notice is dropped while a request is in flight.
file_tree_changed_busy(c) ==
    /\ c \in changing
    /\ changing' = changing \ {c}
    /\ told' = [told EXCEPT ![c.project] = c.version]
    /\ debounce' = (debounce \/ pendingRequests = {})
    /\ UNCHANGED <<core, panel, pendingRequests, selecting, creating, doubt, spent>>

\* The answer is there: 'file-tree-changed' sets the timer of 100 ms, again if it is set.
file_tree_changed(c) ==
    /\ c \in changing
    /\ changing' = changing \ {c}
    /\ told' = [told EXCEPT ![c.project] = c.version]
    /\ debounce' = TRUE
    /\ UNCHANGED <<core, panel, pendingRequests, selecting, creating, doubt, spent>>

debounceLoadFiles ==
    /\ debounce
    /\ debounce' = FALSE
    /\ loadProjectTree(selected)
    /\ UNCHANGED <<core, selected, selecting, creating, changing, told, spent>>

Init ==
    /\ \E p \in Projects : projects = Projects \ {p}
    /\ files = [p \in Projects |-> 0]
    /\ active = None /\ selected = None /\ fileTrees = NoTree
    /\ pendingRequests = {}
    /\ selecting = <<>> /\ creating = NotCreating /\ changing = {} /\ debounce = FALSE
    /\ told = [p \in Projects |-> 0]
    /\ doubt = {}
    /\ spent = [w \in {"clicks", "changes", "faults"} |-> 0]

Next ==
    \/ mounted \/ createProject \/ fetchProjects \/ debounceLoadFiles
    \/ \E r \in pendingRequests : file_tree(r) \/ ShowTree(r) \/ TreeFails(r)
    \/ \E p \in Projects : create_project(p) \/ OwnChange(p) \/ OtherChange(p)
    \/ \E p \in projects \cup {None} : selectProject(p)
    \/ \E i \in DOMAIN selecting : select_project(i) \/ Selected(i) \/ SelectFails(i)
    \/ \E c \in changing : file_tree_changed(c)

Spec == Init /\ [][Next]_vars

AtRest == /\ pendingRequests = {}
          /\ selecting = <<>> /\ creating = NotCreating /\ changing = {} /\ ~ debounce

(***************************************************************************)
(* When nothing is under way the panel shows the selected project with     *)
(* every change it was told of, and the session has that project, unless   *)
(* answers crossed, a request failed, a reload joined an older request, a  *)
(* page was opened or a project created (RightPanel.vue:170-204).          *)
(***************************************************************************)
RestIsSelected ==
    AtRest /\ doubt = {} =>
        /\ active = selected /\ fileTrees.of = selected
        /\ selected # None => fileTrees.version >= told[selected]
-----------------------------------------------------------------------------
(***************************************************************************)
(* The inductive invariant behind RestIsSelected (ClientsProofs)           *)
(***************************************************************************)

TypeOK ==
    /\ projects \subseteq Projects /\ selected \in Projects \cup {None}
    /\ files \in [Projects -> Nat] /\ told \in [Projects -> Nat]
    /\ \A p \in Projects : told[p] <= files[p]
    /\ pendingRequests \subseteq [of : Projects, read : Nat \cup {Asked}]
    /\ \A c \in changing : c.project \in Projects /\ c.version \in 0..files[c.project]
    /\ creating.pc # "idle" => creating.project \in Projects

\* The session is told of the clicks in their order, the selected project last.
PostsInOrder ==
    doubt = {} =>
        /\ selecting \in Seq([project : Projects \cup {None}, pc : {"out", "answered"}])
        /\ \A i, j \in DOMAIN selecting :
              i < j /\ selecting[j].pc = "answered" => selecting[i].pc = "answered"
        /\ \A i \in DOMAIN selecting :
              i = Len(selecting) /\ selecting[i].pc = "out" => selecting[i].project = selected
        /\ (\A i \in DOMAIN selecting : selecting[i].pc = "answered") => active = selected

\* The tree of the selected project is shown or asked for, or a handler that
\* asks for it is still to run.
Fresh(r) == r.read = Asked \/ r.read >= told[r.of]
TreeComes ==
    doubt = {} =>
        \/ selecting # <<>> \/ creating.pc = "listing" \/ debounce
        \/ /\ \A r \in Requests(selected) : Fresh(r)
           /\ \/ Requests(selected) # {}
              \/ /\ fileTrees.of = selected
                 /\ selected # None => fileTrees.version >= told[selected]

IInv == TypeOK /\ PostsInOrder /\ TreeComes
===============================================================================
