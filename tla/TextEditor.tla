----------------------------- MODULE TextEditor -----------------------------
(***************************************************************************)
(* The text editor (mcp-tools/text_editor): one file, its session in two   *)
(* SQLite databases (the registry and the session's own), and the MCP      *)
(* server processes that work on it, one per client.  A process runs one   *)
(* call at a time and to its end; between processes every statement or     *)
(* transaction is a step, and a process may die after any of them.         *)
(*                                                                         *)
(* A text is a body and whether a newline ends it: splitlines() drops that *)
(* newline, and only session_open puts it back.                            *)
(***************************************************************************)
EXTENDS Integers, Sequences

CONSTANTS
    Clients,
    Texts,     \* records [body, nl]
    NoText,    \* a revision that was never written (a model value)
    Torn,      \* the file between truncation and write
    MaxRev     \* bound: revision numbers

NoNl(t) == [t EXCEPT !.nl = FALSE]

ASSUME EditorAssumption ==
    /\ MaxRev \in Nat \ {0}
    /\ Torn \in Texts /\ NoText \notin Texts
    /\ \A t \in Texts : t = [body |-> t.body, nl |-> t.nl] /\ NoNl(t) \in Texts

VARIABLES
    file,      \* the file on disk
    drift,     \* the file's markers are not those in session_meta
    registry,  \* current_revision_number in the registry, 0 without a row
    session,   \* the session's database: rev, text, prev, snap (rev 0: none)
    call,      \* the call each process is in
    seen,      \* the revision each client believes to be the current one; old: it
               \* was told so before the session was cleaned up
    excused,   \* history: the file was written where no check could see it
    disturbed  \* history: two calls met, or a process died between databases

vars == <<file, drift, registry, session, call, seen, excused, disturbed>>

Revs == 1..MaxRev
Snapshots == [Revs -> Texts \cup {NoText}]
Edits == {"replace", "format", "undo", "redo"}
Ops == Edits \cup {"save"}
Places == {"idle", "viewing", "opening", "marking", "sync", "read", "write",
           "commit", "register", "mark", "saving", "saved"}

NoSession == [rev |-> 0, text |-> NoText, prev |-> NoText, snap |-> [r \in Revs |-> NoText]]
NoCall == [pc |-> "idle", op |-> "save", dry |-> FALSE, sync |-> "no", fresh |-> FALSE,
           rev |-> 0, base |-> NoText, new |-> NoText]
Unseen == [rev |-> 0, text |-> NoText, old |-> FALSE]

At(c, p) == call[c].pc = p
Goto(c, p) == call' = [call EXCEPT ![c] = [call[c] EXCEPT !.pc = p]]
Others(c) == Clients \ {c}
Meets(c) == \E d \in Others(c) : ~At(d, "idle")

\* A call ends; its client knows the revision in the answer.
Answer(c, r, t) ==
    /\ call' = [call EXCEPT ![c] = NoCall]
    /\ seen' = [seen EXCEPT ![c] = [rev |-> r, text |-> t, old |-> FALSE]]

(***************************************************************************)
(* session_open.                                                           *)
(***************************************************************************)
OpenLook(c) ==
    /\ At(c, "idle") /\ registry = 0
    /\ call' = [call EXCEPT ![c] = [call[c] EXCEPT !.pc = "opening", !.base = file]]
    /\ UNCHANGED <<file, drift, registry, session, seen, excused, disturbed>>

\* _init_session_db: revision 1 is written over whatever the database holds.
OpenInit(c) ==
    /\ At(c, "opening")
    /\ LET t == call[c].base
       IN session' = [rev |-> 1, text |-> t, prev |-> t, snap |-> [session.snap EXCEPT ![1] = t]]
    /\ drift' = TRUE
    /\ disturbed' = (disturbed \/ Meets(c) \/ registry # 0)
    /\ Goto(c, "marking")
    /\ UNCHANGED <<file, registry, seen, excused>>

\* The markers are those of the file as it is now; the row is inserted unless
\* another process was faster (IntegrityError).
OpenMark(c) ==
    /\ At(c, "marking")
    /\ drift' = FALSE
    /\ \/ /\ registry = 0
          /\ registry' = 1
          /\ Answer(c, 1, call[c].base)
       \/ /\ registry # 0
          /\ call' = [call EXCEPT ![c] = NoCall]
          /\ UNCHANGED <<registry, seen>>
    /\ UNCHANGED <<file, session, excused, disturbed>>

(***************************************************************************)
(* Calls that read: the revision and the text are two statements.          *)
(***************************************************************************)
Look(c) ==
    /\ At(c, "idle") /\ registry # 0
    /\ call' = [call EXCEPT ![c] = [call[c] EXCEPT !.pc = "viewing", !.rev = session.rev]]
    /\ UNCHANGED <<file, drift, registry, session, seen, excused, disturbed>>

See(c) ==
    /\ At(c, "viewing")
    /\ Answer(c, call[c].rev, session.text)
    /\ UNCHANGED <<file, drift, registry, session, excused, disturbed>>

(***************************************************************************)
(* Mutations: the check, the synchronisation, the operation.               *)
(***************************************************************************)
\* Mutant: expected_revision is not compared.
Call_unchecked(c, op, dry) ==
    /\ At(c, "idle") /\ registry # 0 /\ seen[c].rev # 0
    /\ call' = [call EXCEPT ![c] =
                   [call[c] EXCEPT !.pc = IF drift THEN "sync" ELSE "read", !.op = op, !.dry = dry,
                                   !.sync = IF drift THEN "under way" ELSE "no", !.fresh = TRUE]]
    /\ UNCHANGED <<file, drift, registry, session, seen, excused, disturbed>>

\* expected_revision is the current one, or the call is refused.  The markers
\* are read; with auto_sync=FALSE a drift ends the call here.
Call(c, op, dry) ==
    /\ At(c, "idle") /\ registry # 0
    /\ seen[c].rev = session.rev
    /\ call' = [call EXCEPT ![c] =
                   [call[c] EXCEPT !.pc = IF drift THEN "sync" ELSE "read", !.op = op, !.dry = dry,
                                   !.sync = IF drift THEN "under way" ELSE "no", !.fresh = TRUE]]
    /\ UNCHANGED <<file, drift, registry, session, seen, excused, disturbed>>

\* _maybe_external_sync reads the file once more for its text.
SyncRead(c) ==
    /\ At(c, "sync")
    /\ call' = [call EXCEPT ![c] = [call[c] EXCEPT !.pc = "write", !.base = session.text, !.new = NoNl(file)]]
    /\ UNCHANGED <<file, drift, registry, session, seen, excused, disturbed>>

\* Mutant: the markers are read again when the revision has been written.
Mark_rereads(c) ==
    /\ At(c, "mark")
    /\ drift' = FALSE
    /\ call' = [call EXCEPT ![c] = [call[c] EXCEPT !.pc = "read", !.sync = "done", !.rev = 0,
                                                   !.base = NoText, !.new = NoText]]
    /\ UNCHANGED <<file, registry, session, seen, excused, disturbed>>

\* The markers that were compared are the ones that are stored.
Mark(c) ==
    /\ At(c, "mark")
    /\ drift' = ~call[c].fresh
    /\ call' = [call EXCEPT ![c] = [call[c] EXCEPT !.pc = "read", !.sync = "done", !.rev = 0,
                                                   !.base = NoText, !.new = NoText]]
    /\ UNCHANGED <<file, registry, session, seen, excused, disturbed>>

\* What the operation makes of the session: undo and redo both take the
\* previous text, undo to a target the snapshot of any earlier revision.
Outcomes(op) ==
    CASE op \in {"replace", "format"} -> Texts
      [] op = "redo" -> {session.prev}
      [] op = "undo" -> {session.prev} \cup {session.snap[r] : r \in 1..(session.rev - 1)}
      [] op = "save" -> {session.text}

Read(c) ==
    /\ At(c, "read")
    /\ \E t \in Outcomes(call[c].op) \ {NoText} :
          LET next == [call[c] EXCEPT !.base = session.text,
                                      !.new = IF call[c].op = "save" THEN NoText ELSE t]
          IN \/ /\ call[c].dry \/ (call[c].op = "format" /\ t = session.text)
                /\ Answer(c, session.rev, session.text)
             \/ /\ ~call[c].dry /\ ~(call[c].op = "format" /\ t = session.text)
                /\ call' = [call EXCEPT ![c] =
                               [next EXCEPT !.pc = IF call[c].op = "save" THEN "saving" ELSE "write"]]
                /\ UNCHANGED seen
    /\ UNCHANGED <<file, drift, registry, session, excused, disturbed>>

(***************************************************************************)
(* write_revision: the parent from the registry, the session's database,   *)
(* the registry.                                                           *)
(***************************************************************************)
\* Mutants: the number is not, or twice, incremented.
Parent_same(c) ==
    /\ At(c, "write") /\ registry \in 1..(MaxRev - 1)
    /\ call' = [call EXCEPT ![c] = [call[c] EXCEPT !.pc = "commit", !.rev = registry]]
    /\ UNCHANGED <<file, drift, registry, session, seen, excused, disturbed>>

Parent_twice(c) ==
    /\ At(c, "write") /\ registry \in 1..(MaxRev - 1)
    /\ call' = [call EXCEPT ![c] = [call[c] EXCEPT !.pc = "commit", !.rev = registry + 2]]
    /\ UNCHANGED <<file, drift, registry, session, seen, excused, disturbed>>

Parent(c) ==
    /\ At(c, "write") /\ registry \in 1..(MaxRev - 1)
    /\ call' = [call EXCEPT ![c] = [call[c] EXCEPT !.pc = "commit", !.rev = registry + 1]]
    /\ UNCHANGED <<file, drift, registry, session, seen, excused, disturbed>>

\* Mutants: the previous text is kept; the snapshot is that of the old text.
Commit_keepsPrev(c) ==
    /\ At(c, "commit")
    /\ session' = [session EXCEPT !.rev = call[c].rev, !.text = call[c].new,
                                  !.snap[call[c].rev] = call[c].new]
    /\ disturbed' = (disturbed \/ Meets(c))
    /\ Goto(c, "register")
    /\ UNCHANGED <<file, drift, registry, seen, excused>>

Commit_oldSnap(c) ==
    /\ At(c, "commit")
    /\ session' = [session EXCEPT !.rev = call[c].rev, !.text = call[c].new,
                                  !.prev = call[c].base, !.snap[call[c].rev] = call[c].base]
    /\ disturbed' = (disturbed \/ Meets(c))
    /\ Goto(c, "register")
    /\ UNCHANGED <<file, drift, registry, seen, excused>>

Commit(c) ==
    /\ At(c, "commit")
    /\ session' = [session EXCEPT !.rev = call[c].rev, !.text = call[c].new,
                                  !.prev = call[c].base,
                                  !.snap = [session.snap EXCEPT ![call[c].rev] = call[c].new]]
    /\ disturbed' = (disturbed \/ Meets(c))
    /\ Goto(c, "register")
    /\ UNCHANGED <<file, drift, registry, seen, excused>>

\* Mutant: current and parent are swapped in the answer.
Register_swapped(c) ==
    /\ At(c, "register")
    /\ registry' = IF registry = 0 THEN 0 ELSE call[c].rev
    /\ \/ /\ call[c].sync = "under way"
          /\ Goto(c, "mark")
          /\ UNCHANGED seen
       \/ /\ call[c].sync # "under way"
          /\ Answer(c, call[c].rev - 1, call[c].new)
    /\ disturbed' = (disturbed \/ \E d \in Others(c) : call[d].pc \notin {"idle", "viewing"})
    /\ UNCHANGED <<file, drift, session, excused>>

\* An UPDATE: without a row it changes nothing.
Register(c) ==
    /\ At(c, "register")
    /\ registry' = IF registry = 0 THEN 0 ELSE call[c].rev
    /\ \/ /\ call[c].sync = "under way"
          /\ Goto(c, "mark")
          /\ UNCHANGED seen
       \/ /\ call[c].sync # "under way"
          /\ Answer(c, call[c].rev, call[c].new)
    /\ disturbed' = (disturbed \/ \E d \in Others(c) : call[d].pc \notin {"idle", "viewing"})
    /\ UNCHANGED <<file, drift, session, excused>>

(***************************************************************************)
(* save_revision.                                                          *)
(***************************************************************************)
Stale(calls) == [c \in Clients |-> [calls[c] EXCEPT !.fresh = FALSE]]

SaveWrite(c) ==
    /\ At(c, "saving")
    /\ file' = call[c].base
    /\ drift' = TRUE
    /\ call' = Stale([call EXCEPT ![c] = [call[c] EXCEPT !.pc = "saved"]])
    /\ UNCHANGED <<registry, session, seen, excused, disturbed>>

\* The markers are read after the write, and taken for its own.
SaveMark(c) ==
    /\ At(c, "saved")
    /\ drift' = FALSE
    /\ Answer(c, session.rev, call[c].base)
    /\ UNCHANGED <<file, registry, session, excused, disturbed>>

(***************************************************************************)
(* Others write the file; processes die; sessions expire.                  *)
(***************************************************************************)
\* Until a save has stored its markers it cannot tell an edit from its own.
Unwatched == \E c \in Clients :
                \/ At(c, "opening") \/ At(c, "marking")
                \/ call[c].op = "save" /\ ~At(c, "idle") /\ ~At(c, "viewing")

Outside(t) ==
    /\ file' = t /\ drift' = TRUE
    /\ call' = Stale(call)
    /\ excused' = Unwatched
    /\ UNCHANGED <<registry, session, seen, disturbed>>

\* write_text truncates the file before it writes.
Crash(c) ==
    /\ ~At(c, "idle")
    /\ call' = [call EXCEPT ![c] = NoCall]
    /\ disturbed' = (disturbed \/ At(c, "register"))
    /\ \/ /\ At(c, "saving")
          /\ file' = Torn /\ drift' = TRUE /\ excused' = TRUE
       \/ UNCHANGED <<file, drift, excused>>
    /\ UNCHANGED <<registry, session, seen>>

\* After 30 days without a write, when nobody works with the session.  The clients
\* are not asked: a number they were told passes the check of the session that is
\* opened next, whose id is the same and whose numbers start at 1 again.
Cleanup ==
    /\ registry # 0
    /\ \A c \in Clients : At(c, "idle")
    /\ registry' = 0 /\ session' = NoSession
    /\ seen' = [c \in Clients |-> [rev |-> seen[c].rev, text |-> NoText, old |-> seen[c].rev # 0]]
    /\ UNCHANGED <<file, drift, call, excused, disturbed>>

(***************************************************************************)
(* Specification.                                                          *)
(***************************************************************************)
Init ==
    /\ file \in Texts
    /\ drift = FALSE
    /\ registry = 0
    /\ session = NoSession
    /\ call = [c \in Clients |-> NoCall]
    /\ seen = [c \in Clients |-> Unseen]
    /\ excused = FALSE
    /\ disturbed = FALSE

Next ==
    \/ \E c \in Clients :
          \/ OpenLook(c) \/ OpenInit(c) \/ OpenMark(c)
          \/ Look(c) \/ See(c)
          \/ \E op \in Ops, dry \in BOOLEAN : Call(c, op, dry)
          \/ SyncRead(c) \/ Mark(c) \/ Read(c)
          \/ Parent(c) \/ Commit(c) \/ Register(c)
          \/ SaveWrite(c) \/ SaveMark(c)
          \/ Crash(c)
    \/ \E t \in Texts : Outside(t)
    \/ Cleanup

Spec == Init /\ [][Next]_vars

(***************************************************************************)
(* Properties.                                                             *)
(***************************************************************************)
MaybeText == Texts \cup {NoText}

\* Types; and no revision up to the current one is without its snapshot.
TypeOK ==
    /\ file \in Texts /\ drift \in BOOLEAN
    /\ registry \in 0..MaxRev
    /\ session \in [rev : 0..MaxRev, text : MaybeText, prev : MaybeText, snap : Snapshots]
    /\ \A r \in 1..session.rev : session.snap[r] # NoText
    /\ call \in [Clients -> [pc : Places, op : Ops, dry : BOOLEAN, sync : {"no", "under way", "done"},
                             fresh : BOOLEAN, rev : 0..MaxRev, base : MaybeText, new : MaybeText]]
    /\ seen \in [Clients -> [rev : 0..MaxRev, text : MaybeText, old : BOOLEAN]]
    /\ excused \in BOOLEAN /\ disturbed \in BOOLEAN

\* The current text is the snapshot of the current revision, whatever meets,
\* dies or is reset: undo to a revision gives what was current then.
SnapshotIsText == session.rev # 0 => session.snap[session.rev] = session.text

\* One step of undo goes to the revision before the current one, also when a
\* synchronisation came in between.
PreviousIsPrevious ==
    ~disturbed /\ session.rev # 0 =>
        session.prev = session.snap[IF session.rev = 1 THEN 1 ELSE session.rev - 1]

\* An operation works on the text its client saw at expected_revision, unless
\* the same call has just brought in a changed file, or the number is one from
\* before a clean-up.
EditsWhatWasSeen ==
    \A c \in Clients :
        (/\ call[c].pc \in {"write", "commit", "saving"} /\ call[c].sync = "no"
         /\ ~seen[c].old /\ ~disturbed)
            => call[c].base = seen[c].text

\* A save writes over a text of the file only when the history has it, unless
\* it was written between a save's check and its last step.
NoLostEdit ==
    [][\A c \in Clients :
          At(c, "saving") /\ call'[c].pc = "saved" /\ ~disturbed =>
             excused \/ \E r \in Revs : session.snap[r] # NoText /\ session.snap[r].body = file.body]_vars

Promise == INSTANCE Revisions WITH
    revs <- IF registry = 0 THEN <<>> ELSE [r \in 1..session.rev |-> session.snap[r]],
    disk <- file, told <- seen, lost <- disturbed

\* Until two calls meet or a process dies between the two databases, the
\* editor keeps the promise of Revisions.
KeepsPromise == Promise!AbsSpec
StillTrue == Promise!Faithful
=============================================================================
