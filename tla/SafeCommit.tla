------------------------------ MODULE SafeCommit ------------------------------
(***************************************************************************)
(* git_safe_commit of the bridge mcp_gitbash_stdio: dry_run and apply run  *)
(* commit_prepare.py on a runtime tree, apply copies it to the bound       *)
(* public mirror and needs the token of the last dry_run; commit is        *)
(* `git add ... && git commit` in a runtime tree or in an allowed mirror.  *)
(* One process, one event loop: calls interleave where they wait for a     *)
(* child process.  git_repo_status drops bindings too; git_write_file and   *)
(* git_bash_exec change the same trees.                                    *)
(*                                                                         *)
(* commit_prepare.py is not in the repository: it exits 0 or not, copies   *)
(* the tree, all of it when it exits 0, and leaves a report that names the *)
(* mirror.  The user's approval comes before all of this.                  *)
(***************************************************************************)
EXTENDS Integers, FiniteSets, Sequences

CONSTANTS
    Repos,         \* runtime trees
    Mirrors,       \* checkouts under PUBLIC_MIRROR_ROOT
    Files,
    Temp,          \* .git_write_tmp_PID.{new,orig} of a directory
    Slots,         \* calls at a time
    None,
    Ttl,           \* _APPLY_DRY_RUN_TTL_SEC
    MaxCalls, MaxEdits, MaxNow   \* bounds of the model

VARIABLES
    git,        \* by tree and file: the text in the tree, in the index, in HEAD
    dryTs,      \* _LAST_DRY_RUN_TS_BY_REPO
    dryToken,   \* _LAST_DRY_RUN_TOKEN_BY_REPO
    repoMap,    \* _REPO_MAP
    pubRepos,   \* _PUB_REPOS
    call,       \* the calls in progress
    now,        \* time.monotonic
    issued,     \* history: repository and start of the dry_run of each token
    staged,     \* history: what git add staged and no commit took: call, tree, file
    calls, edits   \* calls and edits so far

bindings == <<dryTs, dryToken, repoMap, pubRepos>>
vars == <<git, dryTs, dryToken, repoMap, pubRepos, call, now, issued, staged, calls, edits>>

Trees == Repos \cup Mirrors
Entries == Files \cup {Temp}
\* 0: the text, or the absence of the temporary file, that all start from.
Clean == [tree |-> 0, index |-> 0, head |-> 0]
Idle == [id |-> 0, mode |-> None, pc |-> "idle", tree |-> None, files |-> {}, ts |-> 0,
         token |-> 0, pub |-> None]

Init ==
    /\ git = [t \in Trees |-> [f \in Entries |-> Clean]]
    /\ dryTs = [r \in Repos |-> None] /\ dryToken = [r \in Repos |-> None]
    /\ repoMap = [r \in Repos |-> None] /\ pubRepos = {}
    /\ call = [c \in Slots |-> Idle]
    /\ now = 0 /\ issued = <<>> /\ staged = {} /\ calls = 0 /\ edits = 0

\* git status --porcelain of a tree is empty.
git_is_clean(t) == \A f \in Entries : git[t][f].tree = git[t][f].index /\ git[t][f].index = git[t][f].head

CanStart(c) == call[c] = Idle /\ calls < MaxCalls
Begin(mode, pc, t) ==
    [id |-> calls + 1, mode |-> mode, pc |-> pc, tree |-> t, files |-> {}, ts |-> now,
     token |-> 0, pub |-> None]
Goes(c, record) == call' = [call EXCEPT ![c] = record]
End(c) == Goes(c, Idle)

(***************************************************************************)
(* dry_run and apply                                                       *)
(***************************************************************************)
StartDryRun(c, r) ==
    /\ CanStart(c)
    /\ calls' = calls + 1
    /\ Goes(c, Begin("dry_run", "prepare", r))
    /\ UNCHANGED <<git, bindings, now, issued, staged, edits>>

Expired(r) == now - dryTs[r] > Ttl

\* The guard of apply: a dry_run not too old, and its token.
StartApply(c, r, token) ==
    /\ CanStart(c)
    /\ dryTs[r] # None /\ ~Expired(r) /\ dryToken[r] = token
    /\ calls' = calls + 1
    /\ Goes(c, [Begin("apply", "prepare", r) EXCEPT !.token = token])
    /\ UNCHANGED <<git, bindings, now, issued, staged, edits>>

\* A token that is too old goes, its time stays.
RefuseExpired(r) ==
    /\ dryTs[r] # None /\ Expired(r) /\ dryToken[r] # None
    /\ dryToken' = [dryToken EXCEPT ![r] = None]
    /\ UNCHANGED <<git, dryTs, repoMap, pubRepos, call, now, issued, staged, calls, edits>>

\* The report binds the runtime tree to a mirror.
Bind(r, m) ==
    /\ repoMap' = [repoMap EXCEPT ![r] = m]
    /\ pubRepos' = pubRepos \cup {m}

\* Mutant: the time is that of the answer, not of the start.
DryRunEnds_answered(c, m) ==
    /\ call[c].mode = "dry_run" /\ call[c].pc = "prepare"
    /\ LET r == call[c].tree IN
       /\ dryTs' = [dryTs EXCEPT ![r] = now]
       /\ dryToken' = [dryToken EXCEPT ![r] = Len(issued) + 1]
       /\ issued' = Append(issued, [repo |-> r, ts |-> call[c].ts])
       /\ Bind(r, m)
    /\ End(c)
    /\ UNCHANGED <<git, now, staged, calls, edits>>

DryRunEnds(c, m) ==
    /\ call[c].mode = "dry_run" /\ call[c].pc = "prepare"
    /\ LET r == call[c].tree IN
       /\ dryTs' = [dryTs EXCEPT ![r] = call[c].ts]
       /\ dryToken' = [dryToken EXCEPT ![r] = Len(issued) + 1]
       /\ issued' = Append(issued, [repo |-> r, ts |-> call[c].ts])
       /\ Bind(r, m)
    /\ End(c)
    /\ UNCHANGED <<git, now, staged, calls, edits>>

\* commit_prepare copies the runtime tree to the mirror.
Copied(r, m, S) ==
    [git EXCEPT ![m] = [f \in Entries |->
        IF f \in S THEN [git[m][f] EXCEPT !.tree = git[r][f].tree] ELSE git[m][f]]]

\* apply: the report binds again; after exit 0 the state of the bound mirror is asked.
ApplyEnds(c, m) ==
    /\ call[c].mode = "apply" /\ call[c].pc = "prepare"
    /\ LET r == call[c].tree IN
       /\ git' = Copied(r, m, Files)
       /\ Bind(r, m)
       /\ Goes(c, [call[c] EXCEPT !.pc = "status", !.pub = m])
    /\ UNCHANGED <<dryTs, dryToken, now, issued, staged, calls, edits>>

\* commit_prepare fails or is killed by the watchdog: a dry_run leaves nothing,
\* an apply part of the copy and the binding.
PrepareFails(c, m) ==
    /\ call[c].pc = "prepare"
    /\ IF call[c].mode = "apply"
          THEN /\ \E S \in SUBSET Files : git' = Copied(call[c].tree, m, S)
               /\ Bind(call[c].tree, m)
          ELSE UNCHANGED <<git, repoMap, pubRepos>>
    /\ End(c)
    /\ UNCHANGED <<dryTs, dryToken, now, issued, staged, calls, edits>>

\* git status of the bound mirror, and the answer used a moment later.
ApplyStatus(c) ==
    /\ call[c].pc = "status"
    /\ IF git_is_clean(call[c].pub) THEN Goes(c, [call[c] EXCEPT !.pc = "drop"]) ELSE End(c)
    /\ UNCHANGED <<git, bindings, now, issued, staged, calls, edits>>

\* Mutant: the mirror is no longer allowed, the keys of its runtime trees stay.
drop_binding_keepsKeys(pub) ==
    /\ pubRepos' = pubRepos \ {pub}
    /\ UNCHANGED <<dryTs, dryToken, repoMap>>

\* _drop_binding_for_public_repo: of every runtime tree bound to the mirror.
drop_binding(pub) ==
    LET bound == {r \in Repos : repoMap[r] = pub} IN
    /\ repoMap' = [r \in Repos |-> IF r \in bound THEN None ELSE repoMap[r]]
    /\ dryTs' = [r \in Repos |-> IF r \in bound THEN None ELSE dryTs[r]]
    /\ dryToken' = [r \in Repos |-> IF r \in bound THEN None ELSE dryToken[r]]
    /\ pubRepos' = pubRepos \ {pub}

DropBinding(c) ==
    /\ call[c].pc = "drop"
    /\ drop_binding(call[c].pub)
    /\ End(c)
    /\ UNCHANGED <<git, now, issued, staged, calls, edits>>

(***************************************************************************)
(* git_repo_status                                                         *)
(***************************************************************************)
git_repo_status(c, t) ==
    /\ CanStart(c)
    /\ calls' = calls + 1
    /\ Goes(c, Begin("status", "porcelain", t))
    /\ UNCHANGED <<git, bindings, now, issued, staged, edits>>

StatusAsked(c) ==
    /\ call[c].pc = "porcelain"
    /\ IF git_is_clean(call[c].tree) THEN Goes(c, [call[c] EXCEPT !.pc = "known"]) ELSE End(c)
    /\ UNCHANGED <<git, bindings, now, issued, staged, calls, edits>>

\* A clean mirror loses its bindings, a clean runtime tree asks for its mirror.
StatusKnown(c) ==
    /\ call[c].pc = "known"
    /\ LET t == call[c].tree IN
       IF t \in pubRepos
          THEN drop_binding(t) /\ End(c)
          ELSE /\ IF t \in Repos /\ repoMap[t] # None
                     THEN Goes(c, [call[c] EXCEPT !.pc = "status", !.pub = repoMap[t]])
                     ELSE End(c)
               /\ UNCHANGED bindings
    /\ UNCHANGED <<git, now, issued, staged, calls, edits>>

(***************************************************************************)
(* commit                                                                  *)
(***************************************************************************)
\* A runtime tree, or a mirror that a report named; with no report at all, a
\* mirror that is not clean (asked of git, with a warning).
StartCommit(c, t, S) ==
    /\ CanStart(c)
    /\ t \in Repos \/ pubRepos = {} \/ t \in pubRepos
    /\ calls' = calls + 1
    /\ Goes(c, [Begin("commit", IF t \in Mirrors /\ pubRepos = {} THEN "ask" ELSE "add", t)
                   EXCEPT !.files = S])
    /\ UNCHANGED <<git, bindings, now, issued, staged, edits>>

AskClean(c) ==
    /\ call[c].pc = "ask"
    /\ IF git_is_clean(call[c].tree) THEN End(c) ELSE Goes(c, [call[c] EXCEPT !.pc = "add"])
    /\ UNCHANGED <<git, bindings, now, issued, staged, calls, edits>>

Add(t, S) ==
    [git EXCEPT ![t] = [f \in Entries |->
        IF f \in S THEN [git[t][f] EXCEPT !.index = git[t][f].tree] ELSE git[t][f]]]

\* Mutant: the list is forgotten.
ToAdd_all(S) == Entries

\* git add -- files, or -A without a list.
ToAdd(S) == IF S = {} THEN Entries ELSE S

GitAdd(c) ==
    /\ call[c].pc = "add"
    /\ LET t == call[c].tree
           S == ToAdd(call[c].files) IN
       /\ git' = Add(t, S)
       /\ staged' = staged \cup {<<call[c].id, t, f>> : f \in {g \in S : git[t][g].tree # git[t][g].index}}
    /\ Goes(c, [call[c] EXCEPT !.pc = "commit"])
    /\ UNCHANGED <<bindings, now, issued, calls, edits>>

\* git commit takes the whole index.
GitCommit(c) ==
    /\ call[c].pc = "commit"
    /\ LET t == call[c].tree IN
       /\ git' = [git EXCEPT ![t] = [f \in Entries |->
              [git[t][f] EXCEPT !.head = git[t][f].index]]]
       /\ staged' = {e \in staged : e[2] # t}
    /\ End(c)
    /\ UNCHANGED <<bindings, now, issued, calls, edits>>

\* git refuses, a hook does, or the watchdog kills the shell: what git has done stays.
CommitFails(c) ==
    /\ call[c].pc \in {"add", "commit"}
    /\ End(c)
    /\ UNCHANGED <<git, bindings, now, issued, staged, calls, edits>>

(***************************************************************************)
(* The other tools on the trees                                            *)
(***************************************************************************)
\* g with another text of the file f in the tree t
Written(g, t, f, text) == [g EXCEPT ![t] = [g[t] EXCEPT ![f] = [g[t][f] EXCEPT !.tree = text]]]

\* git_write_file: the file, then two temporary files beside it while git diff runs.
git_write_file(c, t, f) ==
    /\ CanStart(c) /\ edits < MaxEdits
    /\ calls' = calls + 1 /\ edits' = edits + 1
    /\ git' = Written(Written(git, t, f, edits + 1), t, Temp, 1)
    /\ Goes(c, Begin("write", "diff", t))
    /\ UNCHANGED <<bindings, now, issued, staged>>

run_git_diff_ends(c) ==
    /\ call[c].pc = "diff"
    /\ git' = Written(git, call[c].tree, Temp, 0)
    /\ End(c)
    /\ UNCHANGED <<bindings, now, issued, staged, calls, edits>>

\* git_bash_exec: a command that changes a file, or is killed before it does.
git_bash_exec(t, f) ==
    /\ edits < MaxEdits
    /\ edits' = edits + 1
    /\ git' = Written(git, t, f, edits + 1)
    /\ UNCHANGED <<bindings, call, now, issued, staged, calls>>

Tick ==
    /\ now < MaxNow
    /\ now' = now + 1
    /\ UNCHANGED <<git, bindings, call, issued, staged, calls, edits>>

Next ==
    \/ \E c \in Slots :
        \/ \E r \in Repos :
            \/ StartDryRun(c, r)
            \/ \E token \in DOMAIN issued : StartApply(c, r, token)
        \/ \E m \in Mirrors : DryRunEnds(c, m) \/ ApplyEnds(c, m) \/ PrepareFails(c, m)
        \/ ApplyStatus(c) \/ DropBinding(c)
        \/ \E t \in Trees : git_repo_status(c, t)
        \/ StatusAsked(c) \/ StatusKnown(c)
        \/ \E t \in Trees : \E S \in SUBSET Files : StartCommit(c, t, S)
        \/ AskClean(c) \/ GitAdd(c) \/ GitCommit(c) \/ CommitFails(c)
        \/ \E t \in Trees : \E f \in Files : git_write_file(c, t, f)
        \/ run_git_diff_ends(c)
    \/ \E r \in Repos : RefuseExpired(r)
    \/ \E t \in Trees : \E f \in Files : git_bash_exec(t, f)
    \/ Tick

Spec == Init /\ [][Next]_vars

(***************************************************************************)
(* Properties                                                              *)
(***************************************************************************)
\* An apply that runs was preceded by a dry_run of its runtime tree that
\* succeeded and started at most Ttl before it: whatever dry_runs ended in
\* another order, expired or were dropped with the binding.
AppliedWasPreviewed ==
    \A c \in Slots : call[c].mode = "apply" =>
        /\ issued[call[c].token].repo = call[c].tree
        /\ call[c].ts - issued[call[c].token].ts <= Ttl

\* A runtime tree is bound to an allowed mirror, or to none: the two maps are
\* changed by different calls, across their waits.
BoundIsAllowed == \A r \in Repos : repoMap[r] # None => repoMap[r] \in pubRepos

\* A commit with a list of files takes another file only if another call had
\* staged it and not committed it: one cut short, or one at the same time.
PartialStep ==
    \A c \in Slots : call[c].pc = "commit" /\ call[c].files # {} /\ git' # git /\ call'[c] = Idle =>
        \A f \in Entries \ call[c].files :
            git'[call[c].tree][f].head # git[call[c].tree][f].head =>
                \E e \in staged : e[1] # call[c].id /\ e[2] = call[c].tree /\ e[3] = f
PartialScope == [][PartialStep]_vars
-----------------------------------------------------------------------------
(***************************************************************************)
(* The inductive invariant behind AppliedWasPreviewed, BoundIsAllowed and  *)
(* PartialStep (ClientsProofs)                                             *)
(***************************************************************************)

Modes == {"dry_run", "apply", "status", "commit", "write"}
Pcs == {"idle", "prepare", "status", "drop", "porcelain", "known", "ask", "add", "commit", "diff"}
Calls ==
    [id : Nat, mode : Modes \cup {None}, pc : Pcs, tree : Trees \cup {None},
     files : SUBSET Files, ts : Nat, token : Nat, pub : Mirrors \cup {None}]
CallOK(r, n) ==
    /\ r \in Calls /\ r.id <= n
    /\ r.pc # "idle" => r.id # 0 /\ r.tree \in Trees
    /\ r.mode \in {"dry_run", "apply"} => r.tree \in Repos
    /\ r.pc \in {"status", "drop"} => r.pub \in Mirrors
    /\ r.pc \in {"ask", "add", "commit"} => r.mode = "commit"

\* An apply has a token of its runtime tree, and began in time.
HasToken(r, tokens) ==
    r.mode = "apply" =>
        /\ r.token \in DOMAIN tokens /\ tokens[r.token].repo = r.tree
        /\ r.ts - tokens[r.token].ts <= Ttl

\* What HEAD lacks of the index was staged, and a call stages in its own files.
GitOK ==
    /\ git \in [Trees -> [Entries -> [tree : Nat, index : Nat, head : Nat]]] /\ edits \in Nat
    /\ \A t \in Trees : \A f \in Entries :
          git[t][f].index # git[t][f].head => \E e \in staged : e[2] = t /\ e[3] = f
StagedIsOwn ==
    \A e \in staged : \A c \in Slots : call[c].id = e[1] =>
        /\ call[c].pc = "commit"
        /\ call[c].files # {} => e[3] \in call[c].files

\* A binding's token is that of a dry_run of its tree, begun at its time.
BindingsOK ==
    /\ dryTs \in [Repos -> Nat \cup {None}] /\ dryToken \in [Repos -> Nat \cup {None}]
    /\ repoMap \in [Repos -> Mirrors \cup {None}] /\ pubRepos \subseteq Mirrors
    /\ issued \in Seq([repo : Repos, ts : Nat])
    /\ \A r \in Repos : dryToken[r] # None =>
          /\ dryToken[r] \in DOMAIN issued
          /\ issued[dryToken[r]] = [repo |-> r, ts |-> dryTs[r]]
    /\ BoundIsAllowed

CallsOK ==
    /\ calls \in Nat /\ DOMAIN call = Slots
    /\ \A c \in Slots : CallOK(call[c], calls) /\ HasToken(call[c], issued)
    /\ \A c, d \in Slots : call[c].id = call[d].id /\ call[c].id # 0 => c = d
    /\ \A e \in staged : e[1] \in 1..calls
    /\ StagedIsOwn

IInv == now \in Nat /\ GitOK /\ BindingsOK /\ CallsOK
=============================================================================
