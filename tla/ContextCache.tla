---------------------------- MODULE ContextCache ----------------------------
(***************************************************************************)
(* What an LLM is told of a chat: replication.collect_blocks takes the     *)
(* posts and files, LLMInteractor.interact builds the context in a worker  *)
(* thread, LLMCachedInteractor decides whether it is FULL or DELTA_SAFE    *)
(* against the snapshot of the session's last context (Layer A) and, with  *)
(* CQDS_CONTEXT_PREFIX_REUSE on, takes the text of that context again      *)
(* (Layer B) in place of packing all blocks.  Meanwhile the event loop     *)
(* edits and deletes posts, evicts both layers, and runs the dialogues of  *)
(* other chats on the same ReplicationManager.                             *)
(*                                                                         *)
(* One chat, one LLM, several HTTP sessions; the chat's lock lets one turn *)
(* in at a time.  A post is the text of one of a few kinds; one file is    *)
(* attached by post 1; relevance is the window of the newest Window posts  *)
(* past the anchor (60 in the code, for posts that are neither pinned nor  *)
(* cited).  A context is what it shows of posts and file, not its layout;  *)
(* which blocks the token limit leaves out of it is any that it can be.    *)
(***************************************************************************)
EXTENDS Integers, Sequences, FiniteSets

CONSTANTS
    Sessions,
    None,
    Window,        \* posts past the anchor that are still relevant
    MaxPosts, MaxEdits, MaxTurns, MaxFaults   \* bounds of the model

VARIABLES
    posts,      \* posts of the chat by id: text, and whether it is live
    file,       \* attached_files: content and ts of the file
    snap,       \* ContextReferenceStore._snapshots of the LLM and the chat, by session
    mp,         \* _materialized_prefixes, by session
    anchor,     \* relevance_window_anchor._anchors, by session
    pending,    \* the LLM and the chat are in _pending_full_reasons
    prompt,     \* whose pre-prompt ReplicationManager.pre_prompt is
    fresh,      \* the file is in ReplicationManager.fresh_files
    turn,       \* the turn in progress
    deleting,   \* where delete_post is
    seen,       \* history: the digests of the posts that the session's last committed
                \* fingerprint counts as shown
    dropped,    \* history: since its last packed context, a session lost a patch to the limit
    left        \* what the bounds leave: edits, turns, faults and cuts of the token limit

loop == <<posts, file, deleting>>
cache == <<snap, mp, anchor, pending>>
shared == <<prompt, fresh>>
history == <<seen, dropped>>
vars == <<posts, file, snap, mp, anchor, pending, prompt, fresh, turn, deleting,
          seen, dropped, left>>

Waiting == {"wait1", "wait2"}     \* two heartbeats of a progress post
\* What a post's text may become: heartbeats, then an answer or a warning; an edit.
NextTexts(t) ==
    CASE t = "wait1" -> {"wait2", "warning", "said"}
      [] t = "wait2" -> {"warning", "said"}
      [] t = "said" -> {"edited"}
      [] OTHER -> {}
Own == "own"
Other == "other"
Idle == [pc |-> "idle", s |-> None, posts |-> <<>>, file |-> None, cut |-> 0, passed |-> None,
         prev |-> None, prefix |-> None, fp |-> None, patches |-> {}, lost |-> FALSE, body |-> None]

PostMax(S) == IF S = {} THEN 0 ELSE CHOOSE m \in S : \A n \in S : n <= m

Init ==
    /\ posts = <<[text |-> "said", live |-> TRUE]>>
    /\ file = [text |-> 0, ts |-> 0]
    /\ snap = [s \in Sessions |-> None] /\ mp = [s \in Sessions |-> None]
    /\ anchor = [s \in Sessions |-> 0]
    /\ pending = FALSE
    /\ prompt = Own /\ fresh = FALSE
    /\ turn = Idle /\ deleting = "no"
    /\ seen = [s \in Sessions |-> None]
    /\ dropped = [s \in Sessions |-> FALSE]
    /\ left = [edits |-> MaxEdits, turns |-> MaxTurns, faults |-> MaxFaults]

(***************************************************************************)
(* Posts and file                                                          *)
(***************************************************************************)
\* A turn works on the blocks it collected: what the database takes in while it
\* goes on could as well be taken in before it or after, a deletion apart.
AddPost(t) ==
    /\ deleting = "no" /\ turn = Idle /\ Len(posts) < MaxPosts
    /\ posts' = Append(posts, [text |-> t, live |-> TRUE])
    /\ UNCHANGED <<file, cache, shared, turn, deleting, history, left>>

EditPost(p, t) ==
    /\ deleting = "no" /\ turn = Idle /\ left.edits > 0
    /\ posts[p].live
    /\ posts' = [posts EXCEPT ![p] = [posts[p] EXCEPT !.text = t]]
    /\ left' = [left EXCEPT !.edits = left.edits - 1]
    /\ UNCHANGED <<file, cache, shared, turn, deleting, history>>

\* The file changes, in the second of its last change or later.
EditFile ==
    /\ deleting = "no" /\ turn = Idle /\ left.edits > 0
    /\ \E later \in {0, 1} : file' = [text |-> file.text + 1, ts |-> file.ts + later]
    /\ left' = [left EXCEPT !.edits = left.edits - 1]
    /\ UNCHANGED <<posts, cache, shared, turn, deleting, history>>

\* delete_post marks the row, evict_scope drops both layers of every session,
\* and the reason of the next FULL is left: one handler, between whose
\* statements the worker thread of a turn goes on.
DeletePost(p) ==
    /\ deleting = "no" /\ left.edits > 0 /\ posts[p].live
    /\ posts' = [posts EXCEPT ![p] = [posts[p] EXCEPT !.live = FALSE]]
    /\ deleting' = "marked"
    /\ left' = [left EXCEPT !.edits = left.edits - 1]
    /\ UNCHANGED <<file, cache, shared, turn, history>>

evict_scope ==
    /\ deleting = "marked"
    /\ snap' = [s \in Sessions |-> None] /\ mp' = [s \in Sessions |-> None]
    /\ deleting' = "evicted"
    /\ UNCHANGED <<posts, file, anchor, pending, shared, turn, history, left>>

invalidate_context ==
    /\ deleting = "evicted"
    /\ pending' = TRUE
    /\ deleting' = "no"
    /\ UNCHANGED <<posts, file, snap, mp, anchor, shared, turn, history, left>>

(***************************************************************************)
(* The event loop's part of a turn, and other chats                        *)
(***************************************************************************)
Live == {p \in DOMAIN posts : posts[p].live}
Attached == 1 \in Live

\* assemble_posts: what the anchor covers, and the newest posts past it.
Relevant(s) ==
    {p \in Live : p <= anchor[s] \/ Cardinality({q \in Live : q > p}) < Window}

collect_blocks(s) ==
    /\ deleting = "no" /\ turn.pc = "idle" /\ left.turns > 0 /\ Relevant(s) # {}
    /\ turn' = [Idle EXCEPT !.pc = "collected", !.s = s,
                            !.posts = [p \in Relevant(s) |-> posts[p].text],
                            !.file = IF Attached THEN file ELSE None]
    /\ fresh' = Attached
    /\ left' = [left EXCEPT !.turns = left.turns - 1]
    /\ UNCHANGED <<loop, cache, prompt, history>>

\* interact loads the LLM's own pre-prompt into the shared attribute.
interact ==
    /\ deleting = "no" /\ turn.pc = "collected"
    /\ prompt' = Own
    /\ turn' = [turn EXCEPT !.pc = "building"]
    /\ UNCHANGED <<loop, cache, fresh, history, left>>

\* A dialogue of another chat: its own interact and assemble_posts, where
\* they are not overwritten before they are read.
OtherInteracts ==
    /\ deleting = "no" /\ turn.pc \in {"building", "built"} /\ prompt # Other
    /\ prompt' = Other
    /\ UNCHANGED <<loop, cache, fresh, turn, history, left>>

OtherCollects ==
    /\ deleting = "no" /\ turn.pc = "collected" /\ fresh
    /\ fresh' = FALSE
    /\ UNCHANGED <<loop, cache, prompt, turn, history, left>>

\* The request goes out with the pre-prompt the attribute holds by then.
Send ==
    /\ deleting = "no" /\ turn.pc = "built"
    /\ turn' = Idle
    /\ UNCHANGED <<loop, cache, shared, history, left>>

(***************************************************************************)
(* build_context, in a worker thread                                       *)
(***************************************************************************)
\* The blocks run from the newest post back, then the files: at the first that
\* would reach the token limit the loop breaks, so the posts up to `cut` are left
\* out (0: none), and with any of them the file.
filtered_posts(t) == {p \in DOMAIN t.posts : p > t.cut}
Last(t) == PostMax(filtered_posts(t))
post_digest(text) == IF text \in Waiting THEN "waiting" ELSE text
Answered(old, new) == old = "waiting" /\ new \notin {"waiting", "warning"}

\* The bound on how often the limit leaves something out.
Cuts(something) ==
    IF something THEN left.faults > 0 /\ left' = [left EXCEPT !.faults = left.faults - 1]
    ELSE UNCHANGED left

\* Files that another chat's assembly took out of fresh_files are left out as well.
Filter ==
    /\ turn.pc = "building"
    /\ \E cut \in {0} \cup DOMAIN turn.posts :
       \E passed \in IF cut = 0 /\ fresh THEN {turn.file, None} ELSE {None} :
           /\ turn' = [turn EXCEPT !.pc = "filtered", !.prev = snap[turn.s],
                                   !.cut = cut, !.passed = passed]
           /\ Cuts(cut # 0 \/ (fresh /\ passed # turn.file))
    /\ UNCHANGED <<loop, cache, shared, history>>

\* get_mp, then _cleanup_mp: a prefix is dropped after a FULL, but still in hand.
GetPrefix ==
    /\ turn.pc = "filtered"
    /\ turn' = [turn EXCEPT !.pc = "read", !.prefix = mp[turn.s]]
    /\ mp' = IF turn.prev # None /\ turn.prev.mode = "FULL"
                THEN [mp EXCEPT ![turn.s] = None] ELSE mp
    /\ UNCHANGED <<loop, snap, anchor, pending, shared, history, left>>

Deleted(p) == <<p, "deleted">>

\* What a session is told of a file or post twice: append_incremental_patches.
Changed(prev, t) ==
    {p \in DOMAIN t.posts \cap DOMAIN prev.post_digest :
        LET new == post_digest(t.posts[p]) IN
        new # prev.post_digest[p] /\ ~Answered(prev.post_digest[p], new)}
Gone(prev, t) == DOMAIN prev.post_digest \ DOMAIN t.posts
post_patches(prev, t) ==
    IF prev = None THEN {}
    ELSE {<<p, t.posts[p]>> : p \in Changed(prev, t)} \cup {Deleted(p) : p \in Gone(prev, t)}
\* Mutant: a change is seen only when it is more than a second later.
file_patches_late(prev, t) ==
    IF prev # None /\ t.file # None /\ prev.file_rev_ts # None /\ t.file.ts > prev.file_rev_ts + 1
        THEN {t.file} ELSE {}

file_patches(prev, t) ==
    IF prev # None /\ t.file # None /\ prev.file_rev_ts # None /\ t.file.ts > prev.file_rev_ts
        THEN {t.file} ELSE {}

\* The patches that fit, posts' before tombstones and newest first in both: at the
\* first that would reach the token limit the loop breaks.
Sooner(e, d) ==
    IF (e[2] = "deleted") = (d[2] = "deleted") THEN e[1] > d[1] ELSE d[2] = "deleted"
Fitting(patches) ==
    {fit \in SUBSET patches : \A e \in fit : \A d \in patches \ fit : Sooner(e, d)}

HeadOf(t, upto) == {p \in filtered_posts(t) : p <= upto}

\* Mutant: the posts of the previous context are not compared.
decide_cache_mode_anyHead(prev, t, whose) ==
    IF /\ prev # None
       /\ prev.pre_prompt = whose
       /\ prev.index = (t.file # None)
       /\ \A p \in Changed(prev, t) : p > prev.last_post_id
       /\ prev.non_post = (t.passed # None)
       /\ Last(t) > prev.last_post_id
    THEN "DELTA_SAFE" ELSE "FULL"

\* _decide_cache_mode without a pending reason.  The index lists files, not
\* their texts (SandwichPack's, as append_incremental_patches takes it).
decide_cache_mode(prev, t, whose) ==
    IF /\ prev # None
       /\ prev.pre_prompt = whose
       /\ prev.index = (t.file # None)
       /\ HeadOf(t, prev.last_post_id) = prev.head_posts
       /\ \A p \in Changed(prev, t) : p > prev.last_post_id
       /\ prev.non_post = (t.passed # None)
       /\ Last(t) > prev.last_post_id
    THEN "DELTA_SAFE" ELSE "FULL"

Fingerprint(t, whose, mode) ==
    [mode |-> mode, pre_prompt |-> whose, index |-> t.file # None,
     head_posts |-> filtered_posts(t), last_post_id |-> Last(t),
     non_post |-> t.passed # None,
     post_digest |-> [p \in DOMAIN t.posts |-> post_digest(t.posts[p])],
     file_rev_ts |-> IF t.file = None THEN None ELSE t.file.ts]

\* The patches are those of the snapshot in hand, the file's last; the decision
\* reads the snapshot again and takes the pending reason.  A FULL drops Layer B
\* and moves the anchor, if a post got in.
Decide ==
    /\ turn.pc = "read"
    /\ LET mode == IF pending THEN "FULL" ELSE decide_cache_mode(snap[turn.s], turn, prompt)
           patches == post_patches(turn.prev, turn) IN
       /\ \E fit \in Fitting(patches) :
          \E lost \in IF file_patches(turn.prev, turn) = {} THEN {FALSE}
                      ELSE IF fit = patches THEN BOOLEAN ELSE {TRUE} :
              /\ turn' = [turn EXCEPT !.pc = "decided", !.patches = fit, !.lost = lost,
                                      !.fp = Fingerprint(turn, prompt, mode)]
              /\ Cuts(fit # patches \/ lost)
       /\ anchor' = IF mode = "FULL" /\ Last(turn) > 0
                       THEN [anchor EXCEPT ![turn.s] = Last(turn)] ELSE anchor
       /\ mp' = IF mode = "FULL" THEN [mp EXCEPT ![turn.s] = None] ELSE mp
    /\ pending' = FALSE
    /\ UNCHANGED <<loop, snap, shared, history>>

\* The digests of the posts a fingerprint counts as shown.
Counted(fp) == [p \in fp.head_posts |-> fp.post_digest[p]]

Put ==
    /\ turn.pc = "decided"
    /\ snap' = [snap EXCEPT ![turn.s] = turn.fp]
    /\ seen' = [seen EXCEPT ![turn.s] = Counted(turn.fp)]
    /\ turn' = [turn EXCEPT !.pc = "committed"]
    /\ UNCHANGED <<loop, mp, anchor, pending, shared, dropped, left>>

FilePatches(t) == IF t.lost THEN {} ELSE file_patches(t.prev, t)

\* packer.pack(filtered_blocks)
Packed(t) ==
    [posts |-> [p \in filtered_posts(t) |-> t.posts[p]], patches |-> t.patches,
     files |-> (IF t.passed = None THEN {} ELSE {t.passed}) \cup FilePatches(t)]

can_reuse_mp(t) ==
    LET p_prev == IF t.prev = None THEN 0 ELSE t.prev.last_post_id IN
    /\ t.fp.mode = "DELTA_SAFE" /\ t.prefix # None
    /\ t.prefix.pre_prompt = t.fp.pre_prompt /\ t.prefix.index = t.fp.index
    /\ t.prefix.head_posts = HeadOf(t, p_prev) /\ t.prefix.last_post_id = p_prev

\* Mutant: the kept text stays as it is.
replace_post_blocks_not(body, t) == body

\* _replace_post_blocks on the kept text.
replace_post_blocks(body, t) ==
    [p \in DOMAIN body |-> IF p \in HeadOf(t, t.prev.last_post_id) THEN t.posts[p] ELSE body[p]]

\* _build_pd_body: the kept text with its posts replaced, and the new posts and patches.
build_pd_body(t) ==
    LET kept == replace_post_blocks(t.prefix.body.posts, t)
        tail == {p \in filtered_posts(t) : p > t.prev.last_post_id} IN
    [posts |-> [p \in DOMAIN kept \cup tail |-> IF p \in tail THEN t.posts[p] ELSE kept[p]],
     patches |-> t.prefix.body.patches \cup t.patches,
     files |-> t.prefix.body.files \cup FilePatches(t)]

\* The text of the context, and Layer B for the next DELTA_SAFE.
Assemble ==
    /\ turn.pc = "committed"
    /\ LET s == turn.s
           reused == can_reuse_mp(turn)
           body == IF reused THEN build_pd_body(turn) ELSE Packed(turn) IN
       /\ turn' = [turn EXCEPT !.pc = "built", !.body = body]
       /\ dropped' = [dropped EXCEPT ![s] = reused /\ (dropped[s] \/ turn.lost)]
       /\ mp' = IF turn.fp.mode = "DELTA_SAFE"
                   THEN [mp EXCEPT ![s] =
                            [pre_prompt |-> turn.fp.pre_prompt, index |-> turn.fp.index,
                             head_posts |-> turn.fp.head_posts,
                             last_post_id |-> turn.fp.last_post_id, body |-> body]]
                   ELSE mp
    /\ UNCHANGED <<loop, snap, anchor, pending, shared, seen, left>>

\* The reuse raises: the context is packed as after a FULL.
ReuseFails ==
    /\ turn.pc = "committed" /\ left.faults > 0 /\ can_reuse_mp(turn)
    /\ mp' = [mp EXCEPT ![turn.s] = None]
    /\ snap' = [snap EXCEPT ![turn.s] = [turn.fp EXCEPT !.mode = "FULL"]]
    /\ anchor' = [anchor EXCEPT ![turn.s] = Last(turn)]
    /\ dropped' = [dropped EXCEPT ![turn.s] = FALSE]
    /\ turn' = [turn EXCEPT !.pc = "built", !.body = Packed(turn)]
    /\ left' = [left EXCEPT !.faults = left.faults - 1]
    /\ UNCHANGED <<loop, pending, shared, seen>>

\* build_context raises after the fingerprint is stored: nothing is sent.
BuildFails ==
    /\ turn.pc = "committed" /\ left.faults > 0
    /\ turn' = Idle
    /\ left' = [left EXCEPT !.faults = left.faults - 1]
    /\ UNCHANGED <<loop, cache, shared, history>>

\* Everything but the database is in memory.
Restart ==
    /\ left.faults > 0
    /\ snap' = [s \in Sessions |-> None] /\ mp' = [s \in Sessions |-> None]
    /\ anchor' = [s \in Sessions |-> 0]
    /\ pending' = FALSE /\ fresh' = FALSE /\ turn' = Idle /\ deleting' = "no"
    /\ seen' = [s \in Sessions |-> None]
    /\ left' = [left EXCEPT !.faults = left.faults - 1]
    /\ UNCHANGED <<posts, file, prompt, dropped>>

Next ==
    \/ \E t \in {"wait1", "said"} : AddPost(t)
    \/ \E p \in DOMAIN posts : \E t \in NextTexts(posts[p].text) : EditPost(p, t)
    \/ EditFile
    \/ \E p \in DOMAIN posts : DeletePost(p)
    \/ evict_scope \/ invalidate_context
    \/ \E s \in Sessions : collect_blocks(s)
    \/ interact \/ OtherInteracts \/ OtherCollects \/ Send
    \/ Filter \/ GetPrefix \/ Decide \/ Put \/ Assemble \/ ReuseFails \/ BuildFails
    \/ Restart

Spec == Init /\ [][Next]_vars

(***************************************************************************)
(* Properties                                                              *)
(***************************************************************************)
\* A context shows the posts its turn collected, from the newest back to where the
\* token limit cut and no others, each with the text it was collected with, and
\* no patch contradicts them: whatever Layer B keeps of earlier texts, of posts
\* that were deleted, that left the window or that an earlier limit left out.
ShownIsCollected ==
    turn.pc = "built" =>
        LET body == turn.body IN
        /\ DOMAIN body.posts = {p \in DOMAIN turn.posts : p > turn.cut}
        /\ \A p \in DOMAIN body.posts : body.posts[p] = turn.posts[p]
        /\ \A e \in body.patches : e[1] \in DOMAIN body.posts => e[2] = turn.posts[e[1]]

\* The newest copy of the file in a context is of the second the turn
\* collected it from, unless the token limit cost the session a patch since
\* its context was last packed (docs/llm_pre_prompt.md: the copy with the
\* highest revision_ts counts).
FileIsCollected ==
    turn.pc = "built" /\ turn.file # None /\ turn.body.files # {} /\ ~dropped[turn.s] =>
        PostMax({c.ts : c \in turn.body.files}) = turn.file.ts

\* DELTA_SAFE means that the session's previous context was extended: all posts
\* it showed are shown again, none has another text but a wait that was answered,
\* and a later post is shown.
DeltaStep ==
    \A s \in Sessions :
        seen[s] # None /\ turn.s = s /\ turn.pc = "decided" /\ turn.fp.mode = "DELTA_SAFE"
        /\ seen'[s] # seen[s] /\ turn'.pc = "committed" =>
            /\ DOMAIN seen[s] \subseteq filtered_posts(turn)
            /\ \E q \in filtered_posts(turn) : \A p \in DOMAIN seen[s] : p < q
            /\ \A p \in DOMAIN seen[s] :
                  \/ post_digest(turn.posts[p]) = seen[s][p]
                  \/ seen[s][p] = "waiting" /\ turn.posts[p] # "warning"
DeltaExtends == [][DeltaStep]_vars
-----------------------------------------------------------------------------
(***************************************************************************)
(* The inductive invariant behind ShownIsCollected, FileIsCollected and    *)
(* DeltaStep (CoreProofs)                                                  *)
(***************************************************************************)
PostTexts == {"wait1", "wait2", "said", "edited", "warning"}
Digests == {"waiting", "said", "edited", "warning"}
Files == [text : Nat, ts : Nat]
\* Functions of post ids.
OfPosts(T) == UNION {[D -> T] : D \in SUBSET Nat}
Bodies ==
    [posts : OfPosts(PostTexts), patches : SUBSET (Nat \X (PostTexts \cup {"deleted"})),
     files : SUBSET Files]
Prefixes ==
    [pre_prompt : {Own, Other}, index : BOOLEAN, head_posts : SUBSET Nat, last_post_id : Nat,
     body : Bodies]
Fingerprints ==
    [mode : {"FULL", "DELTA_SAFE"}, pre_prompt : {Own, Other}, index : BOOLEAN,
     head_posts : SUBSET Nat, last_post_id : Nat, non_post : BOOLEAN,
     post_digest : OfPosts(Digests), file_rev_ts : Nat \cup {None}]
Places == {"idle", "collected", "building", "filtered", "read", "decided", "committed", "built"}
Turns ==
    [pc : Places, s : Sessions \cup {None}, posts : OfPosts(PostTexts), file : Files \cup {None},
     cut : Nat, passed : Files \cup {None}, prev : Fingerprints \cup {None},
     prefix : Prefixes \cup {None}, fp : Fingerprints \cup {None},
     patches : SUBSET (Nat \X (PostTexts \cup {"deleted"})), lost : BOOLEAN,
     body : Bodies \cup {None}]
TypeOK ==
    /\ posts \in Seq([text : PostTexts, live : BOOLEAN]) /\ file \in Files
    /\ snap \in [Sessions -> Fingerprints \cup {None}]
    /\ mp \in [Sessions -> Prefixes \cup {None}]
    /\ seen \in [Sessions -> OfPosts(Digests) \cup {None}]
    /\ dropped \in [Sessions -> BOOLEAN]
    /\ turn \in Turns /\ prompt \in {Own, Other}

\* A fingerprint is of posts and a file that have only gone on since: a post that
\* waits has always waited.
FingerprintOK(fp, ps, f) ==
    /\ fp.head_posts \subseteq DOMAIN fp.post_digest /\ DOMAIN fp.post_digest \subseteq DOMAIN ps
    /\ \A p \in fp.head_posts : p <= fp.last_post_id
    /\ \A p \in DOMAIN fp.post_digest : ps[p].text \in Waiting => fp.post_digest[p] = "waiting"
    /\ fp.index <=> fp.file_rev_ts # None
    /\ fp.index => fp.file_rev_ts <= f.ts

\* The patches of a kept text agree with its posts, never show one that waits, and
\* none is of a post that may still be shown as a later one.
Dead(p, ps) == p \in DOMAIN ps /\ ~ps[p].live
PrefixOK(m, ps) ==
    /\ m.head_posts = DOMAIN m.body.posts
    /\ \A p \in m.head_posts : p <= m.last_post_id
    /\ \A e \in m.body.patches :
          /\ e[1] <= m.last_post_id \/ Dead(e[1], ps)
          /\ e[2] \notin Waiting
          /\ e[1] \in m.head_posts => e[2] = m.body.posts[e[1]]

\* A kept text that goes up to the last post of a fingerprint is of the same turn.
SameTurn(m, fp, d) ==
    /\ m.index = fp.index
    /\ \A p \in m.head_posts :
          p \in fp.head_posts /\ fp.post_digest[p] = post_digest(m.body.posts[p])
    /\ fp.index => /\ \A c \in m.body.files : c.ts <= fp.file_rev_ts
                   /\ m.body.files # {} /\ ~d => \E c \in m.body.files : c.ts = fp.file_rev_ts
Follows(m, fp, d) ==
    /\ m.last_post_id <= fp.last_post_id
    /\ m.last_post_id = fp.last_post_id => SameTurn(m, fp, d)

LayersOK ==
    \A s \in Sessions :
        /\ snap[s] # None => FingerprintOK(snap[s], posts, file) /\ seen[s] = Counted(snap[s])
        /\ mp[s] # None => PrefixOK(mp[s], posts)
        /\ snap[s] # None /\ mp[s] # None => Follows(mp[s], snap[s], dropped[s])

\* What the turn has in hand.
Extends(t, prev) ==
    /\ prev # None /\ prev.index = (t.file # None)
    /\ HeadOf(t, prev.last_post_id) = prev.head_posts
    /\ \A p \in Changed(prev, t) : p > prev.last_post_id
    /\ Last(t) > prev.last_post_id
CollectedOK ==
    turn.pc # "idle" =>
        /\ turn.s \in Sessions
        /\ DOMAIN turn.posts \subseteq DOMAIN posts /\ DOMAIN turn.posts # {}
        /\ \A p \in DOMAIN turn.posts : turn.posts[p] = posts[p].text
        /\ \A p \in DOMAIN posts : (\A q \in DOMAIN turn.posts : q < p) => Dead(p, posts)
        /\ turn.file # None => turn.file = file
PreviousOK ==
    turn.pc \in {"filtered", "read", "decided", "committed"} =>
        /\ turn.passed \in {turn.file, None}
        /\ turn.prev # None => FingerprintOK(turn.prev, posts, file)
        /\ turn.prev # None /\ turn.pc # "committed" => seen[turn.s] = Counted(turn.prev)
\* A post that is dead to a kept text was not collected.
Past(m, t) == \A e \in m.body.patches : e[1] > m.last_post_id => e[1] \notin DOMAIN t.posts
PrefixInHandOK ==
    /\ turn.pc \in {"collected", "building", "filtered"} /\ mp[turn.s] # None =>
          Past(mp[turn.s], turn)
    /\ turn.pc = "filtered" =>
          snap[turn.s] = turn.prev \/ (snap[turn.s] = None /\ mp[turn.s] = None)
    /\ turn.pc = "read" => snap[turn.s] \in {turn.prev, None}
    /\ turn.pc \in {"read", "decided", "committed"} /\ turn.prefix # None =>
          /\ PrefixOK(turn.prefix, posts) /\ Past(turn.prefix, turn)
          /\ turn.prev # None => Follows(turn.prefix, turn.prev, dropped[turn.s])
    /\ turn.pc = "read" /\ turn.prev # None /\ mp[turn.s] # None =>
          mp[turn.s].last_post_id <= turn.prev.last_post_id
    /\ turn.pc \in {"decided", "committed"} /\ mp[turn.s] # None =>
          mp[turn.s].last_post_id < turn.fp.last_post_id
DecidedOK ==
    /\ turn.pc \in {"decided", "committed"} =>
          /\ turn.fp \in Fingerprints
          /\ turn.fp = Fingerprint(turn, turn.fp.pre_prompt, turn.fp.mode)
          /\ turn.fp.mode = "DELTA_SAFE" => Extends(turn, turn.prev)
          /\ turn.patches \subseteq post_patches(turn.prev, turn)
    /\ turn.pc = "committed" =>
          snap[turn.s] \in {turn.fp, None} /\ seen[turn.s] = Counted(turn.fp)

IInv == /\ TypeOK /\ LayersOK /\ CollectedOK /\ PreviousOK /\ PrefixInHandOK /\ DecidedOK
        /\ ShownIsCollected /\ FileIsCollected

\* The text of a context that a turn builds, where d says that a patch was dropped.
Shows(t, b, d) ==
    /\ b \in Bodies /\ b.posts = [p \in filtered_posts(t) |-> t.posts[p]]
    /\ \A e \in b.patches :
          /\ e[2] \notin Waiting
          /\ e[1] \in filtered_posts(t) => e[2] = t.posts[e[1]]
          /\ t.fp.mode = "DELTA_SAFE" => e[1] <= Last(t) \/ Dead(e[1], posts)
    /\ t.file # None =>
          /\ \A c \in b.files : c.ts <= t.file.ts
          /\ b.files # {} /\ ~d => \E c \in b.files : c.ts = t.file.ts
=============================================================================
