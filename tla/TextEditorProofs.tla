-------------------------- MODULE TextEditorProofs --------------------------
(***************************************************************************)
(* The text editor keeps its promise, for any clients, texts and number of *)
(* revisions: the inductive invariant behind RevisionsAreTrue and          *)
(* NoLostEdit, the proof that every step of a call, of a crash, of the     *)
(* clean-up and of the outside preserves it, and the proof that each step  *)
(* is one of Revisions or changes nothing there.                           *)
(***************************************************************************)
EXTENDS MCTextEditor, TLAPS

-----------------------------------------------------------------------------
(***************************************************************************)
(* The inductive invariant.                                                *)
(***************************************************************************)
SeenType == [rev : 0..MaxRev, text : MaybeText, old : BOOLEAN]

CallType == [pc : Places, op : Ops, dry : BOOLEAN, sync : {"no", "under way", "done"},
             fresh : BOOLEAN, rev : 0..MaxRev, base : MaybeText, new : MaybeText]

\* Every revision up to n has its snapshot.
Written(n) == \A r \in 1..n : session.snap[r] # NoText

\* The history has the text the file holds, up to its last newline.
Kept == \E r \in Revs : session.snap[r] # NoText /\ session.snap[r].body = file.body

\* What the place of a call says of the two databases, whatever has met.
Fits(q) ==
    /\ q.pc \in {"opening", "marking"} => q.base \in Texts
    /\ q.pc = "marking" => session.rev # 0
    /\ q.pc \notin {"idle", "opening", "marking"} => registry # 0
    /\ q.pc \in {"write", "commit", "register"} => q.new \in Texts
    /\ q.pc \in {"saving", "saved"} => q.base \in Texts /\ q.op = "save"
    /\ q.pc \in {"sync", "mark"} => q.sync = "under way"
    /\ q.pc = "read" => q.sync # "under way"
    /\ q.pc = "commit" => q.rev # 0 /\ Written(q.rev - 1)
    /\ q.pc = "register" => q.rev # 0 /\ Written(q.rev)

\* What it says until two calls meet, of a call of a client that has seen s.
Exact(s, q) ==
    /\ q.pc = "viewing" => q.rev = session.rev
    /\ q.pc = "marking" => registry = 0 /\ session.rev = 1 /\ q.base = session.text
    /\ q.pc \in {"write", "commit", "saving", "saved"} => q.base = session.text
    /\ q.pc \in {"read", "write", "commit", "saving"} /\ q.sync = "no" /\ ~s.old => s.text = session.text
    /\ q.pc = "commit" => q.rev = registry + 1
    /\ q.pc = "register" =>
          q.rev = session.rev /\ q.new = session.text /\ registry = session.rev - 1

\* What it says of the file, while nobody wrote it unseen.
FileTrue(q) ==
    /\ q.pc \in {"opening", "marking"} /\ registry = 0 => q.base = file
    /\ q.pc \in {"read", "saving", "saved"} /\ q.op = "save" => Kept
    /\ q.pc \in {"register", "mark"} /\ q.sync = "under way" /\ (q.fresh \/ q.op = "save") => Kept
    /\ q.pc \in {"write", "commit"} /\ q.sync = "under way" /\ (q.fresh \/ q.op = "save") =>
          Kept \/ q.new.body = file.body

\* A revision a client was told of is in the history, with that text, or was told
\* before the session was cleaned up.
Known(s) ==
    \/ s = Unseen \/ s.old
    \/ registry # 0 /\ s.rev \in 1..session.rev /\ session.snap[s.rev] = s.text

StoresFit ==
    /\ Written(registry) /\ Written(session.rev)
    /\ registry # 0 => session.rev # 0

\* Until two calls meet, the registry is behind the session only while a call
\* is about to register, one call at most opens the session, and a client has
\* seen what the history has.
StoresExact ==
    /\ registry # 0 /\ (\A c \in Clients : ~At(c, "register")) => registry = session.rev
    /\ \A c, d \in Clients : At(c, "marking") /\ At(d, "marking") => c = d
    /\ registry = 0 => session.rev \in {0, 1}
    /\ \A r \in Revs : r > session.rev => session.snap[r] = NoText
    /\ \A c \in Clients : Known(seen[c])

WatchedInv == ~drift /\ registry # 0 => Kept

IInv ==
    /\ TypeOK /\ SnapshotIsText /\ StoresFit
    /\ \A c \in Clients : Fits(call[c])
    /\ ~disturbed =>
          /\ StoresExact /\ PreviousIsPrevious
          /\ \A c \in Clients : Exact(seen[c], call[c])
          /\ ~excused => WatchedInv /\ \A c \in Clients : FileTrue(call[c])

-----------------------------------------------------------------------------
(***************************************************************************)
(* The parts of the state.                                                 *)
(***************************************************************************)
\* The numbers and records an empty state is made of.
LEMMA NothingIsTyped ==
  /\ 0 \in 0..MaxRev /\ 1 \in 0..MaxRev /\ 1 \in Revs
  /\ NoText \in MaybeText /\ Texts \subseteq MaybeText /\ NoText \notin Texts
  /\ NoCall \in CallType /\ NoCall.pc = "idle" /\ Unseen \in SeenType
  BY EditorAssumption DEF Revs, MaybeText, NoCall, CallType, Places, Ops, Edits, Unseen, SeenType

\* The types, one variable at a time.
LEMMA Typed ==
  ASSUME IInv
  PROVE  /\ file \in Texts /\ drift \in BOOLEAN /\ excused \in BOOLEAN /\ disturbed \in BOOLEAN
         /\ registry \in 0..MaxRev /\ session.rev \in 0..MaxRev
         /\ session.text \in MaybeText /\ session.prev \in MaybeText /\ session.snap \in Snapshots
         /\ session \in [rev : 0..MaxRev, text : MaybeText, prev : MaybeText, snap : Snapshots]
         /\ call \in [Clients -> CallType] /\ seen \in [Clients -> SeenType]
  BY DEF IInv, TypeOK, CallType, SeenType

\* A revision that is the current one has a text, and it is its snapshot.
LEMMA CurrentText ==
  ASSUME IInv, session.rev # 0
  PROVE  /\ session.rev \in Revs /\ session.text \in Texts
         /\ session.snap[session.rev] = session.text
  <1>1. session.rev \in Revs /\ session.rev \in 1..session.rev
    BY Typed, EditorAssumption DEF Revs
  <1>2. session.snap[session.rev] = session.text /\ session.snap[session.rev] # NoText
    BY <1>1 DEF IInv, SnapshotIsText, TypeOK
  <1> QED BY <1>1, <1>2, Typed DEF MaybeText

\* A step of one call that writes neither database nor the file: what the new
\* place says must hold, and what its client has seen is what it had seen or the
\* current revision.
LEMMA CallMoves ==
  ASSUME IInv, NEW c \in Clients, NEW q \in CallType, NEW s \in SeenType,
         call' = [call EXCEPT ![c] = q], seen' = [seen EXCEPT ![c] = s],
         UNCHANGED <<file, registry, session, excused>>, drift' \in BOOLEAN,
         disturbed' \in BOOLEAN, disturbed => disturbed',
         Fits(q), q.pc \notin {"register", "marking"},
         ~disturbed' => /\ ~At(c, "register")
                        /\ s = seen[c] \/ (registry # 0 /\ s.rev = session.rev /\ s.text = session.text)
                        /\ Exact(s, q)
                        /\ ~excused => FileTrue(q) /\ (~drift' /\ registry # 0 => Kept)
  PROVE  IInv'
  <1>0. /\ call \in [Clients -> CallType] /\ seen \in [Clients -> SeenType]
    BY Typed
  <1>1. TypeOK'
    BY <1>0 DEF IInv, TypeOK, CallType, SeenType
  <1>2. SnapshotIsText' /\ StoresFit' /\ (Kept <=> Kept')
    BY DEF IInv, SnapshotIsText, StoresFit, Written, Kept
  <1>3. \A d \in Clients : call'[d] = (IF d = c THEN q ELSE call[d]) /\ seen'[d] = (IF d = c THEN s ELSE seen[d])
    BY <1>0
  <1>4. (\A d \in Clients : Fits(call[d]))'
    <2>1. ASSUME NEW d \in Clients PROVE Fits(call[d])'
      <3>1. CASE d = c
        BY <1>3, <3>1 DEF Fits, Written
      <3>2. CASE d # c
        BY <1>3, <3>2, ZenonT(40) DEF IInv, Fits, Written
      <3> QED BY <3>1, <3>2
    <2> QED BY <2>1
  <1>5. ASSUME ~disturbed' PROVE StoresExact'
    <2>0. ~disturbed /\ StoresExact
      BY <1>5 DEF IInv
    <2>1. \A d \in Clients : At(d, "register")' <=> At(d, "register")
      BY <1>3, <1>5 DEF At
    <2>2. \A d \in Clients : At(d, "marking")' => At(d, "marking")
      BY <1>3 DEF At
    <2>3. (registry # 0 /\ (\A d \in Clients : ~At(d, "register")) => registry = session.rev)'
      BY <2>0, <2>1 DEF StoresExact
    <2>4. (\A d, e \in Clients : At(d, "marking") /\ At(e, "marking") => d = e)'
      BY <2>0, <2>2 DEF StoresExact
    <2>5. (registry = 0 => session.rev \in {0, 1})' /\ (\A r \in Revs : r > session.rev => session.snap[r] = NoText)'
      BY <2>0 DEF StoresExact
    <2>6. ASSUME NEW d \in Clients PROVE Known(seen[d])'
      <3>1. Known(seen[d]) /\ Known(seen[c])
        BY <2>0 DEF StoresExact
      <3>2. ASSUME registry # 0, s.rev = session.rev, s.text = session.text
            PROVE  Known(s)
        <4>1. session.rev # 0
          BY <3>2 DEF IInv, StoresFit
        <4> QED BY <3>2, <4>1, CurrentText, Typed DEF Known
      <3>3. Known(s)
        BY <1>5, <3>1, <3>2
      <3> QED BY <1>3, <3>1, <3>3 DEF Known
    <2> QED BY <2>3, <2>4, <2>5, <2>6 DEF StoresExact
  <1>6. ASSUME ~disturbed' PROVE PreviousIsPrevious'
    BY <1>6 DEF IInv, PreviousIsPrevious
  <1>7. ASSUME ~disturbed' PROVE (\A d \in Clients : Exact(seen[d], call[d]))'
    <2>1. ASSUME NEW d \in Clients PROVE Exact(seen[d], call[d])'
      <3>1. CASE d = c
        BY <1>3, <1>7, <3>1 DEF Exact
      <3>2. CASE d # c
        BY <1>3, <1>7, <3>2 DEF IInv, Exact
      <3> QED BY <3>1, <3>2
    <2> QED BY <2>1
  <1>8. ASSUME ~disturbed', ~excused' PROVE WatchedInv' /\ (\A d \in Clients : FileTrue(call[d]))'
    <2>1. WatchedInv'
      BY <1>2, <1>8 DEF WatchedInv
    <2>2. ASSUME NEW d \in Clients PROVE FileTrue(call[d])'
      <3>1. CASE d = c
        BY <1>2, <1>3, <1>8, <3>1 DEF FileTrue
      <3>2. CASE d # c
        <4>1. FileTrue(call[d]) /\ call'[d] = call[d]
          BY <1>3, <1>8, <3>2 DEF IInv
        <4> QED BY <1>2, <4>1 DEF FileTrue
      <3> QED BY <3>1, <3>2
    <2> QED BY <2>1, <2>2
  <1> QED BY <1>1, <1>2, <1>4, <1>5, <1>6, <1>7, <1>8 DEF IInv

\* What the invariant says of one client.
LEMMA OfClient ==
  ASSUME IInv, NEW c \in Clients
  PROVE  /\ call[c] \in CallType /\ seen[c] \in SeenType /\ Fits(call[c])
         /\ seen' = seen => seen' = [seen EXCEPT ![c] = seen[c]]
         /\ ~disturbed => Exact(seen[c], call[c]) /\ Known(seen[c])
         /\ ~disturbed /\ ~excused => FileTrue(call[c]) /\ (~drift /\ registry # 0 => Kept)
  BY Typed DEF IInv, StoresExact, WatchedInv

\* A call that knows the current revision: its client is told of it.
LEMMA Told ==
  ASSUME IInv, registry # 0
  PROVE  [rev |-> session.rev, text |-> session.text, old |-> FALSE] \in SeenType
  BY Typed DEF SeenType

-----------------------------------------------------------------------------
(***************************************************************************)
(* The steps of a call that write neither database nor the file.           *)
(***************************************************************************)
\* A call that is over fits anything.
LEMMA IdleFits ==
  ASSUME NEW q, q.pc = "idle", NEW s
  PROVE  Fits(q) /\ Exact(s, q) /\ FileTrue(q)
  BY DEF Fits, Exact, FileTrue

\* session_open looks for a row and reads the file.
LEMMA OpenLookKeeps ==
  ASSUME IInv, NEW c \in Clients, OpenLook(c)
  PROVE  IInv'
  <1>1. PICK q \in CallType : q = [call[c] EXCEPT !.pc = "opening", !.base = file]
    BY OfClient, Typed, ZenonT(40) DEF CallType, Places, MaybeText
  <1>2. q.pc = "opening" /\ q.base = file /\ call' = [call EXCEPT ![c] = q]
    BY <1>1, OfClient DEF OpenLook, CallType
  <1>3. At(c, "idle") /\ registry = 0 /\ UNCHANGED <<file, drift, registry, session, seen, excused, disturbed>>
    BY DEF OpenLook
  <1>4. Fits(q) /\ Exact(seen[c], q) /\ FileTrue(q)
    BY <1>2, <1>3, Typed DEF Fits, Exact, FileTrue
  <1>5. ~At(c, "register")
    BY <1>3 DEF At
  <1> QED BY <1>2, <1>3, <1>4, <1>5, OfClient, CallMoves, Typed

\* A call that reads takes the revision and then the text.
LEMMA LookKeeps ==
  ASSUME IInv, NEW c \in Clients, Look(c) \/ See(c)
  PROVE  IInv'
  <1>1. CASE Look(c)
    <2>1. PICK q \in CallType : q = [call[c] EXCEPT !.pc = "viewing", !.rev = session.rev]
      BY OfClient, Typed, ZenonT(40) DEF CallType, Places
    <2>2. q.pc = "viewing" /\ q.rev = session.rev /\ call' = [call EXCEPT ![c] = q]
      BY <1>1, <2>1, OfClient DEF Look, CallType
    <2>3. At(c, "idle") /\ registry # 0 /\ UNCHANGED <<file, drift, registry, session, seen, excused, disturbed>>
      BY <1>1 DEF Look
    <2>4. Fits(q) /\ Exact(seen[c], q) /\ FileTrue(q)
      BY <2>2, <2>3 DEF Fits, Exact, FileTrue
    <2>5. ~At(c, "register")
      BY <2>3 DEF At
    <2> QED BY <2>2, <2>3, <2>4, <2>5, OfClient, CallMoves, Typed
  <1>2. CASE See(c)
    <2>1. PICK s \in SeenType : s = [rev |-> call[c].rev, text |-> session.text, old |-> FALSE]
      BY OfClient, Typed DEF CallType, SeenType
    <2>2. /\ At(c, "viewing") /\ call' = [call EXCEPT ![c] = NoCall] /\ seen' = [seen EXCEPT ![c] = s]
          /\ UNCHANGED <<file, drift, registry, session, excused, disturbed>>
      BY <1>2, <2>1 DEF See, Answer
    <2>3. ~At(c, "register") /\ registry # 0
      BY <2>2, OfClient DEF At, Fits
    <2>4. ~disturbed => s.rev = session.rev /\ s.text = session.text
      BY <2>1, <2>2, OfClient DEF At, Exact
    <2> QED BY <2>2, <2>3, <2>4, IdleFits, NothingIsTyped, OfClient, CallMoves, Typed
  <1> QED BY <1>1, <1>2

\* The revision a client names is the current one, and so is the text it saw.
LEMMA CallKeeps ==
  ASSUME IInv, NEW c \in Clients, NEW op \in Ops, NEW dry \in BOOLEAN, Call(c, op, dry)
  PROVE  IInv'
  <1> DEFINE p == IF drift THEN "sync" ELSE "read"
             y == IF drift THEN "under way" ELSE "no"
  <1>1. PICK q \in CallType :
           q = [call[c] EXCEPT !.pc = p, !.op = op, !.dry = dry, !.sync = y, !.fresh = TRUE]
    BY OfClient, Typed, ZenonT(40) DEF CallType, Places
  <1>2. q.pc = p /\ q.op = op /\ q.sync = y /\ call' = [call EXCEPT ![c] = q]
    BY <1>1, OfClient DEF Call, CallType
  <1>3. /\ At(c, "idle") /\ registry # 0 /\ seen[c].rev = session.rev
        /\ UNCHANGED <<file, drift, registry, session, seen, excused, disturbed>>
    BY DEF Call
  <1>4. Fits(q)
    BY <1>2, <1>3 DEF Fits
  <1>5. ASSUME ~disturbed, ~seen[c].old PROVE seen[c].text = session.text
    <2>1. session.rev # 0
      BY <1>3 DEF IInv, StoresFit
    <2>2. Known(seen[c]) /\ seen[c] # Unseen /\ ~seen[c].old
      BY <1>3, <1>5, <2>1, OfClient DEF Unseen
    <2> QED BY <1>3, <2>1, <2>2, CurrentText DEF Known
  <1>6. ~disturbed => Exact(seen[c], q)
    BY <1>2, <1>5 DEF Exact
  <1>7. ~disturbed /\ ~excused => FileTrue(q)
    BY <1>2, <1>3, OfClient DEF FileTrue
  <1>8. ~At(c, "register")
    BY <1>3 DEF At
  <1> QED BY <1>2, <1>3, <1>4, <1>6, <1>7, <1>8, OfClient, CallMoves, Typed

\* The synchronisation reads the file.
LEMMA SyncReadKeeps ==
  ASSUME IInv, NEW c \in Clients, SyncRead(c)
  PROVE  IInv'
  <1>0. NoNl(file) \in Texts /\ NoNl(file).body = file.body
    <2>1. file = [body |-> file.body, nl |-> file.nl] /\ NoNl(file) \in Texts
      BY EditorAssumption, Typed
    <2> QED BY <2>1 DEF NoNl
  <1>1. PICK q \in CallType : q = [call[c] EXCEPT !.pc = "write", !.base = session.text, !.new = NoNl(file)]
    BY <1>0, OfClient, Typed, ZenonT(40) DEF CallType, Places, MaybeText
  <1>2. /\ q.pc = "write" /\ q.base = session.text /\ q.new = NoNl(file) /\ q.sync = call[c].sync
        /\ call' = [call EXCEPT ![c] = q]
    BY <1>1, OfClient DEF SyncRead, CallType
  <1>3. At(c, "sync") /\ UNCHANGED <<file, drift, registry, session, seen, excused, disturbed>>
    BY DEF SyncRead
  <1>4. call[c].sync = "under way"
    BY <1>3 DEF At, IInv, Fits
  <1>5. Fits(q)
    BY <1>0, <1>2, <1>3, OfClient DEF Fits, At
  <1>6. Exact(seen[c], q) /\ FileTrue(q)
    BY <1>0, <1>2, <1>3, <1>4 DEF Exact, FileTrue, At
  <1>7. ~At(c, "register")
    BY <1>3 DEF At
  <1> QED BY <1>2, <1>3, <1>5, <1>6, <1>7, OfClient, CallMoves, Typed

\* The markers that were compared are stored, and the operation goes on.
LEMMA MarkKeeps ==
  ASSUME IInv, NEW c \in Clients, Mark(c)
  PROVE  IInv'
  <1>1. PICK q \in CallType :
           q = [call[c] EXCEPT !.pc = "read", !.sync = "done", !.rev = 0, !.base = NoText, !.new = NoText]
    BY OfClient, NothingIsTyped DEF CallType, Places
  <1>2. /\ q.pc = "read" /\ q.sync = "done" /\ q.op = call[c].op /\ call' = [call EXCEPT ![c] = q]
    BY <1>1, OfClient DEF Mark, CallType
  <1>3. /\ At(c, "mark") /\ drift' = ~call[c].fresh
        /\ UNCHANGED <<file, registry, session, seen, excused, disturbed>>
    BY DEF Mark
  <1>4. drift' \in BOOLEAN
    BY <1>3, OfClient DEF CallType
  <1>5. Fits(q) /\ call[c].sync = "under way"
    BY <1>2, <1>3, OfClient DEF Fits, At
  <1>6. Exact(seen[c], q)
    BY <1>2 DEF Exact
  <1>7. ~disturbed /\ ~excused => FileTrue(q) /\ (~drift' => Kept)
    BY <1>2, <1>3, <1>5, OfClient DEF FileTrue, At
  <1>8. ~At(c, "register")
    BY <1>3 DEF At
  <1> QED BY <1>2, <1>3, <1>4, <1>5, <1>6, <1>7, <1>8, OfClient, CallMoves, Typed

\* The operation is made of the session's text, or the answer is given at once.
LEMMA ReadKeeps ==
  ASSUME IInv, NEW c \in Clients, Read(c)
  PROVE  IInv'
  <1>0. At(c, "read") /\ UNCHANGED <<file, drift, registry, session, excused, disturbed>>
    BY DEF Read
  <1>1. registry # 0 /\ session.rev # 0 /\ session.text \in Texts /\ call[c].sync # "under way"
    <2>1. registry # 0 /\ call[c].sync # "under way"
      BY <1>0, OfClient DEF Fits, At
    <2> QED BY <2>1, CurrentText DEF IInv, StoresFit
  <1>2. ~At(c, "register")
    BY <1>0 DEF At
  <1>3. CASE Answer(c, session.rev, session.text)
    <2>1. PICK s \in SeenType : s = [rev |-> session.rev, text |-> session.text, old |-> FALSE]
      BY <1>1, Told
    <2>2. call' = [call EXCEPT ![c] = NoCall] /\ seen' = [seen EXCEPT ![c] = s]
      BY <1>3, <2>1 DEF Answer
    <2> QED BY <1>0, <1>1, <1>2, <2>1, <2>2, IdleFits, NothingIsTyped, OfClient, CallMoves, Typed
  <1>4. ASSUME NEW t \in Outcomes(call[c].op) \ {NoText}, NEW q,
               q = [[call[c] EXCEPT !.base = session.text,
                                    !.new = IF call[c].op = "save" THEN NoText ELSE t]
                      EXCEPT !.pc = IF call[c].op = "save" THEN "saving" ELSE "write"],
               call' = [call EXCEPT ![c] = q], seen' = seen
        PROVE  IInv'
    <2>1. t \in Texts
      <3>1. call[c].op \in Ops
        BY OfClient DEF CallType
      <3>2. \A r \in 1..(session.rev - 1) : session.snap[r] \in MaybeText
        BY Typed, EditorAssumption DEF Snapshots, Revs, MaybeText
      <3> QED BY <1>4, <3>1, <3>2, Typed DEF Outcomes, Ops, Edits, MaybeText
    <2>2. /\ q \in CallType /\ q.base = session.text /\ q.op = call[c].op /\ q.sync = call[c].sync
          /\ q.pc = (IF q.op = "save" THEN "saving" ELSE "write") /\ (q.op # "save" => q.new = t)
      BY <1>1, <1>4, <2>1, OfClient, NothingIsTyped DEF CallType, Places
    <2>3. Fits(q)
      BY <1>1, <2>1, <2>2 DEF Fits
    <2>4. ~disturbed => Exact(seen[c], q)
      BY <1>0, <2>2, OfClient DEF Exact, At
    <2>5. ~disturbed /\ ~excused => FileTrue(q)
      BY <1>0, <1>1, <2>2, OfClient DEF FileTrue, At
    <2>6. q.pc \notin {"register", "marking"}
      BY <2>2
    <2> QED BY <1>0, <1>2, <1>4, <2>2, <2>3, <2>4, <2>5, <2>6, OfClient, CallMoves, Typed
  <1> QED BY <1>3, <1>4 DEF Read

\* write_revision takes the number from the registry.
LEMMA ParentKeeps ==
  ASSUME IInv, NEW c \in Clients, Parent(c)
  PROVE  IInv'
  <1>0. /\ At(c, "write") /\ registry \in 1..(MaxRev - 1)
        /\ UNCHANGED <<file, drift, registry, session, seen, excused, disturbed>>
    BY DEF Parent
  <1>1. registry + 1 \in 0..MaxRev /\ registry + 1 # 0 /\ (registry + 1) - 1 = registry
    BY <1>0, EditorAssumption
  <1>2. PICK q \in CallType : q = [call[c] EXCEPT !.pc = "commit", !.rev = registry + 1]
    BY <1>1, OfClient DEF CallType, Places
  <1>3. /\ q.pc = "commit" /\ q.rev = registry + 1 /\ call' = [call EXCEPT ![c] = q]
        /\ q.base = call[c].base /\ q.new = call[c].new /\ q.sync = call[c].sync
        /\ q.fresh = call[c].fresh /\ q.op = call[c].op
    BY <1>2, OfClient DEF Parent, CallType
  <1>4. Fits(q)
    <2>1. Written(q.rev - 1) /\ q.rev # 0
      BY <1>1, <1>3 DEF IInv, StoresFit
    <2> QED BY <1>0, <1>3, <2>1, OfClient DEF Fits, At
  <1>5. ~disturbed => Exact(seen[c], q)
    BY <1>0, <1>3, OfClient DEF Exact, At
  <1>6. ~disturbed /\ ~excused => FileTrue(q)
    BY <1>0, <1>3, OfClient DEF FileTrue, At
  <1>7. ~At(c, "register")
    BY <1>0 DEF At
  <1> QED BY <1>0, <1>3, <1>4, <1>5, <1>6, <1>7, OfClient, CallMoves, Typed

\* A save takes the markers of the file for those of its own write.
LEMMA SaveMarkKeeps ==
  ASSUME IInv, NEW c \in Clients, SaveMark(c)
  PROVE  IInv'
  <1>0. /\ At(c, "saved") /\ drift' = FALSE /\ UNCHANGED <<file, registry, session, excused, disturbed>>
    BY DEF SaveMark
  <1>1. PICK s \in SeenType : s = [rev |-> session.rev, text |-> call[c].base, old |-> FALSE]
    BY OfClient, Typed DEF CallType, SeenType
  <1>2. call' = [call EXCEPT ![c] = NoCall] /\ seen' = [seen EXCEPT ![c] = s]
    BY <1>1 DEF SaveMark, Answer
  <1>3. registry # 0 /\ ~At(c, "register") /\ call[c].op = "save"
    BY <1>0, OfClient DEF At, Fits
  <1>4. ~disturbed => s.rev = session.rev /\ s.text = session.text
    BY <1>0, <1>1, OfClient DEF At, Exact
  <1>5. ~disturbed /\ ~excused => Kept
    BY <1>0, <1>3, OfClient DEF At, FileTrue
  <1> QED BY <1>0, <1>2, <1>3, <1>4, <1>5, IdleFits, NothingIsTyped, OfClient, CallMoves, Typed

-----------------------------------------------------------------------------
(***************************************************************************)
(* Writes of the file.                                                     *)
(***************************************************************************)
\* A step that writes the file and neither database.
LEMMA FileMoves ==
  ASSUME IInv, UNCHANGED <<registry, session, seen, disturbed>>, file' \in Texts, drift' = TRUE,
         excused' \in BOOLEAN, call' \in [Clients -> CallType],
         \A d \in Clients : Fits(call'[d]) /\ (~disturbed => Exact(seen[d], call'[d])),
         \A d \in Clients : (At(d, "register") <=> call'[d].pc = "register")
                             /\ (call'[d].pc = "marking" => At(d, "marking")),
         ~disturbed /\ ~excused' => (\A d \in Clients : FileTrue(call[d]))'
  PROVE  IInv'
  <1>1. TypeOK'
    BY DEF IInv, TypeOK, CallType, SeenType
  <1>2. SnapshotIsText' /\ StoresFit'
    BY DEF IInv, SnapshotIsText, StoresFit, Written
  <1>3. ASSUME NEW d \in Clients PROVE Fits(call[d])'
    BY DEF Fits, Written
  <1>4. ASSUME NEW d \in Clients, ~disturbed' PROVE Exact(seen[d], call[d])'
    BY <1>4 DEF Exact
  <1>5. ASSUME ~disturbed' PROVE StoresExact' /\ PreviousIsPrevious'
    <2>1. StoresExact /\ PreviousIsPrevious
      BY <1>5 DEF IInv
    <2>2. \A d \in Clients : At(d, "register")' <=> At(d, "register")
      BY DEF At
    <2>3. \A d \in Clients : At(d, "marking")' => At(d, "marking")
      BY DEF At
    <2>4. (registry # 0 /\ (\A d \in Clients : ~At(d, "register")) => registry = session.rev)'
      BY <2>1, <2>2 DEF StoresExact
    <2>5. (\A d, e \in Clients : At(d, "marking") /\ At(e, "marking") => d = e)'
      BY <2>1, <2>3 DEF StoresExact
    <2>6. (\A d \in Clients : Known(seen[d]))'
      BY <2>1 DEF StoresExact, Known
    <2> QED BY <2>1, <2>4, <2>5, <2>6 DEF StoresExact, PreviousIsPrevious
  <1>6. WatchedInv'
    BY DEF WatchedInv
  <1> QED BY <1>1, <1>2, <1>3, <1>4, <1>5, <1>6 DEF IInv

\* A call whose check of the markers is too old for them is the same otherwise.
LEMMA StaleFits ==
  ASSUME NEW q \in CallType, NEW s
  PROVE  /\ [q EXCEPT !.fresh = FALSE] \in CallType /\ [q EXCEPT !.fresh = FALSE].pc = q.pc
         /\ [q EXCEPT !.fresh = FALSE].op = q.op /\ ~[q EXCEPT !.fresh = FALSE].fresh
         /\ Fits(q) => Fits([q EXCEPT !.fresh = FALSE])
         /\ Exact(s, q) => Exact(s, [q EXCEPT !.fresh = FALSE])
  <1>1. PICK f : f = [q EXCEPT !.fresh = FALSE]
    OBVIOUS
  <1>2. /\ f \in CallType /\ f.pc = q.pc /\ f.op = q.op /\ ~f.fresh /\ f.sync = q.sync
        /\ f.rev = q.rev /\ f.base = q.base /\ f.new = q.new
    BY <1>1 DEF CallType
  <1>3. Fits(q) => Fits(f)
    BY <1>2 DEF Fits
  <1>4. Exact(s, q) => Exact(s, f)
    BY <1>2 DEF Exact
  <1> QED BY <1>1, <1>2, <1>3, <1>4

\* A save writes the current text: the history has what the file holds now.
LEMMA SaveWriteKeeps ==
  ASSUME IInv, NEW c \in Clients, SaveWrite(c)
  PROVE  IInv'
  <1>0. /\ At(c, "saving") /\ file' = call[c].base /\ drift' = TRUE
        /\ UNCHANGED <<registry, session, seen, excused, disturbed>>
    BY DEF SaveWrite
  <1>1. registry # 0 /\ call[c].op = "save" /\ call[c].base \in Texts /\ session.rev # 0
    BY <1>0, OfClient DEF Fits, At, IInv, StoresFit
  <1>2. PICK q \in CallType : q = [call[c] EXCEPT !.pc = "saved"]
    BY OfClient DEF CallType, Places
  <1>3. q.pc = "saved" /\ q.op = "save" /\ q.base = call[c].base
    BY <1>1, <1>2, OfClient DEF CallType
  <1>4. Fits(q) /\ (~disturbed => Exact(seen[c], q))
    BY <1>0, <1>1, <1>3, OfClient DEF Fits, Exact, At
  <1>5. call' = [d \in Clients |-> [(IF d = c THEN q ELSE call[d]) EXCEPT !.fresh = FALSE]]
    BY <1>2, Typed DEF SaveWrite, Stale
  <1>6. ASSUME NEW d \in Clients
        PROVE  /\ call'[d] \in CallType /\ Fits(call'[d])
               /\ ~disturbed => Exact(seen[d], call'[d])
               /\ At(d, "register") <=> call'[d].pc = "register"
               /\ call'[d].pc = "marking" => At(d, "marking")
    <2>1. CASE d = c
      BY <1>0, <1>3, <1>4, <1>5, <2>1, StaleFits DEF At
    <2>2. CASE d # c
      BY <1>5, <2>2, OfClient, StaleFits DEF At
    <2> QED BY <2>1, <2>2
  <1>7. call' \in [Clients -> CallType]
    BY <1>5, <1>6
  <1>8. ASSUME ~disturbed PROVE Kept'
    <2>1. call[c].base = session.text
      BY <1>0, <1>8, OfClient DEF Exact, At
    <2>2. session.rev \in Revs /\ session.snap[session.rev] = session.text /\ session.text # NoText
      BY <1>1, CurrentText, NothingIsTyped
    <2> QED BY <1>0, <2>1, <2>2 DEF Kept
  <1>9. ~disturbed => (\A d \in Clients : FileTrue(call[d]))'
    BY <1>0, <1>1, <1>8 DEF FileTrue
  <1> QED BY <1>0, <1>1, <1>6, <1>7, <1>9, FileMoves, Typed

\* Somebody else writes the file.
LEMMA OutsideKeeps ==
  ASSUME IInv, NEW t \in Texts, Outside(t)
  PROVE  IInv'
  <1>0. /\ file' = t /\ drift' = TRUE /\ call' = Stale(call) /\ excused' = Unwatched
        /\ UNCHANGED <<registry, session, seen, disturbed>>
    BY DEF Outside
  <1>1. excused' \in BOOLEAN
    BY <1>0 DEF Unwatched
  <1>2. call' = [d \in Clients |-> [call[d] EXCEPT !.fresh = FALSE]]
    BY <1>0 DEF Stale
  <1>3. ASSUME NEW d \in Clients
        PROVE  /\ call'[d] \in CallType /\ Fits(call'[d])
               /\ ~disturbed => Exact(seen[d], call'[d])
               /\ At(d, "register") <=> call'[d].pc = "register"
               /\ call'[d].pc = "marking" => At(d, "marking")
    BY <1>2, OfClient, StaleFits DEF At
  <1>4. call' \in [Clients -> CallType]
    BY <1>2, <1>3
  <1>5. ASSUME ~excused', NEW d \in Clients PROVE FileTrue(call[d])'
    <2>1. /\ call'[d].pc = call[d].pc /\ call'[d].op = call[d].op /\ ~call'[d].fresh
      BY <1>2, OfClient, StaleFits
    <2>2. /\ ~At(d, "opening") /\ ~At(d, "marking")
          /\ call[d].op = "save" => At(d, "idle") \/ At(d, "viewing")
      BY <1>0, <1>5 DEF Unwatched
    <2> QED BY <2>1, <2>2 DEF FileTrue, At
  <1> QED BY <1>0, <1>1, <1>3, <1>4, <1>5, FileMoves

\* A process dies; in the middle of a save it leaves the file cut short.
LEMMA CrashKeeps ==
  ASSUME IInv, NEW c \in Clients, Crash(c)
  PROVE  IInv'
  <1>0. /\ call' = [call EXCEPT ![c] = NoCall] /\ disturbed' = (disturbed \/ At(c, "register"))
        /\ UNCHANGED <<registry, session, seen>>
    BY DEF Crash
  <1>1. disturbed' \in BOOLEAN
    BY <1>0, Typed DEF At
  <1>2. CASE UNCHANGED <<file, drift, excused>>
    BY <1>0, <1>1, <1>2, IdleFits, NothingIsTyped, OfClient, CallMoves, Typed
  <1>3. CASE At(c, "saving") /\ file' = Torn /\ drift' = TRUE /\ excused' = TRUE
    <2>1. disturbed' = disturbed
      BY <1>0, <1>3, Typed DEF At
    <2>2. call' \in [Clients -> CallType]
      BY <1>0, Typed, NothingIsTyped
    <2>3. ASSUME NEW d \in Clients
          PROVE  /\ Fits(call'[d])
                 /\ ~disturbed => Exact(seen[d], call'[d])
                 /\ At(d, "register") <=> call'[d].pc = "register"
                 /\ call'[d].pc = "marking" => At(d, "marking")
      <3>1. CASE d = c
        BY <1>0, <1>3, <3>1, Typed, NothingIsTyped, IdleFits DEF At
      <3>2. CASE d # c
        BY <1>0, <3>2, Typed, OfClient DEF At
      <3> QED BY <3>1, <3>2
    <2> QED BY <1>0, <1>3, <2>1, <2>2, <2>3, FileMoves, EditorAssumption
  <1> QED BY <1>2, <1>3 DEF Crash

-----------------------------------------------------------------------------
(***************************************************************************)
(* Writes of the two databases.                                            *)
(***************************************************************************)
\* Revision n, a text and the one before it, is written by call q of c.
Writes(c, q, n, t, p) ==
    /\ call' = [call EXCEPT ![c] = q] /\ UNCHANGED <<file, registry, seen, excused>>
    /\ drift' \in BOOLEAN /\ disturbed' \in BOOLEAN /\ Written(n - 1)
    /\ session' = [rev |-> n, text |-> t, prev |-> p, snap |-> [session.snap EXCEPT ![n] = t]]
    /\ \/ q.pc = "marking" /\ q.base \in Texts
       \/ q.pc = "register" /\ q.rev = n /\ q.new \in Texts /\ registry # 0

\* What holds after it.
IsWritten(n, t, p) ==
    /\ TypeOK' /\ SnapshotIsText' /\ StoresFit' /\ (\A d \in Clients : Fits(call[d]))'
    /\ session'.rev = n /\ session'.text = t /\ session'.prev = p
    /\ \A r \in Revs : session'.snap[r] = IF r = n THEN t ELSE session.snap[r]

\* A revision is written to the session's database, and its call goes on.
LEMMA SessionMoves ==
  ASSUME IInv, NEW c \in Clients, NEW q \in CallType, NEW n \in Revs, NEW t \in Texts, NEW p \in MaybeText,
         Writes(c, q, n, t, p)
  PROVE  IsWritten(n, t, p)
  <1> USE DEF Writes
  <1>0. n \in 0..MaxRev /\ n # 0 /\ n \in Nat /\ t \in MaybeText /\ t # NoText /\ MaxRev \in Nat
    BY EditorAssumption DEF Revs, MaybeText
  <1>1. session'.rev = n /\ session'.text = t /\ session'.prev = p /\ session'.snap = [session.snap EXCEPT ![n] = t]
    OBVIOUS
  <1>2. \A r \in Revs : session'.snap[r] = IF r = n THEN t ELSE session.snap[r]
    BY <1>1, Typed DEF Snapshots
  <1>3. session'.snap \in Snapshots
    BY <1>1, Typed DEF Snapshots, MaybeText
  <1>4. session' \in [rev : 0..MaxRev, text : MaybeText, prev : MaybeText, snap : Snapshots]
    BY <1>0, <1>1, <1>3
  <1>5. ASSUME NEW m \in 0..MaxRev, Written(m) PROVE \A r \in 1..m : session'.snap[r] # NoText
    <2>1. ASSUME NEW r \in 1..m PROVE session'.snap[r] # NoText
      <3>1. r \in Revs /\ session.snap[r] # NoText
        BY <1>0, <1>5 DEF Revs, Written
      <3> QED BY <1>0, <1>2, <3>1
    <2> QED BY <2>1
  <1>6. \A r \in 1..n : session'.snap[r] # NoText
    <2>1. ASSUME NEW r \in 1..n PROVE session'.snap[r] # NoText
      <3>1. r \in Revs /\ (r = n \/ r \in 1..(n - 1))
        BY <1>0 DEF Revs
      <3> QED BY <1>0, <1>2, <3>1 DEF Written
    <2> QED BY <2>1
  <1>7. TypeOK'
    <2>1. call' \in [Clients -> CallType]
      BY Typed
    <2> QED BY <1>1, <1>4, <1>6, <2>1, Typed DEF TypeOK, CallType, SeenType
  <1>8. SnapshotIsText'
    BY <1>0, <1>1, <1>2 DEF SnapshotIsText
  <1>9. StoresFit'
    BY <1>0, <1>1, <1>5, <1>6, Typed DEF IInv, StoresFit, Written
  <1>10. ASSUME NEW d \in Clients PROVE Fits(call[d])'
    <2>1. CASE d = c
      <3>1. call'[d] = q
        BY <2>1, Typed
      <3> QED BY <1>0, <1>1, <1>6, <3>1 DEF Fits, Written
    <2>2. CASE d # c
      <3>1. call'[d] = call[d] /\ call[d] \in CallType /\ Fits(call[d])
        BY <2>2, Typed, OfClient
      <3>2. call[d].rev \in 0..MaxRev /\ (call[d].rev # 0 => call[d].rev - 1 \in 0..MaxRev)
        <4>1. call[d].rev \in 0..MaxRev
          BY <3>1 DEF CallType
        <4> QED BY <1>0, <4>1
      <3> QED BY <1>0, <1>1, <1>5, <3>1, <3>2 DEF Fits, Written
    <2> QED BY <2>1, <2>2
  <1> QED BY <1>1, <1>2, <1>7, <1>8, <1>9, <1>10 DEF IsWritten

\* Nobody else is in a call.
LEMMA Alone ==
  ASSUME NEW c \in Clients, ~Meets(c)
  PROVE  \A d \in Clients : d # c => call[d].pc = "idle"
  BY DEF Meets, Others, At

\* session_open writes revision 1 over what is there.
LEMMA OpenInitKeeps ==
  ASSUME IInv, NEW c \in Clients, OpenInit(c)
  PROVE  IInv'
  <1>0. /\ At(c, "opening") /\ drift' = TRUE /\ disturbed' = (disturbed \/ Meets(c) \/ registry # 0)
        /\ UNCHANGED <<file, registry, seen, excused>>
    BY DEF OpenInit
  <1>1. PICK q \in CallType : q = [call[c] EXCEPT !.pc = "marking"]
    BY OfClient DEF CallType, Places
  <1>2. q.pc = "marking" /\ q.base = call[c].base /\ call' = [call EXCEPT ![c] = q]
    BY <1>1, OfClient DEF OpenInit, Goto, CallType
  <1>3. PICK t \in Texts : t = call[c].base
    BY <1>0, OfClient DEF Fits, At
  <1>4. session' = [rev |-> 1, text |-> t, prev |-> t, snap |-> [session.snap EXCEPT ![1] = t]]
    BY <1>3 DEF OpenInit
  <1>5. disturbed' \in BOOLEAN /\ drift' \in BOOLEAN /\ Written(1 - 1) /\ t \in MaybeText
    BY <1>0, Typed, NothingIsTyped DEF Meets, Written
  <1>6. /\ TypeOK' /\ SnapshotIsText' /\ StoresFit' /\ (\A d \in Clients : Fits(call[d]))'
        /\ session'.rev = 1 /\ session'.text = t /\ session'.prev = t
        /\ \A r \in Revs : session'.snap[r] = IF r = 1 THEN t ELSE session.snap[r]
    <2>1. q.pc = "marking" /\ q.base \in Texts
      BY <1>2, <1>3
    <2>2. PICK n \in Revs, p \in MaybeText : n = 1 /\ p = t
      BY <1>5, NothingIsTyped
    <2>3. session' = [rev |-> n, text |-> t, prev |-> p, snap |-> [session.snap EXCEPT ![n] = t]] /\ Written(n - 1)
      BY <1>4, <1>5, <2>2
    <2>4. Writes(c, q, n, t, p)
      BY <1>0, <1>2, <1>5, <2>1, <2>3 DEF Writes
    <2>5. IsWritten(n, t, p)
      BY <2>4, SessionMoves
    <2> QED BY <2>2, <2>5 DEF IsWritten
  <1>7. ASSUME ~disturbed'
        PROVE  /\ StoresExact' /\ PreviousIsPrevious' /\ (\A d \in Clients : Exact(seen[d], call[d]))'
               /\ ~excused => WatchedInv' /\ (\A d \in Clients : FileTrue(call[d]))'
    <2>1. ~disturbed /\ registry = 0 /\ StoresExact /\ \A d \in Clients : d # c => call[d].pc = "idle"
      BY <1>0, <1>7, Alone DEF IInv
    <2>2. \A d \in Clients : call'[d] = IF d = c THEN q ELSE call[d]
      BY <1>2, Typed
    <2>3. (\A d, e \in Clients : At(d, "marking") /\ At(e, "marking") => d = e)'
      BY <2>1, <2>2 DEF At
    <2>4. (\A r \in Revs : r > session.rev => session.snap[r] = NoText)'
      BY <1>6, <2>1, Typed DEF StoresExact, Revs
    <2>5. (\A d \in Clients : Known(seen[d]))'
      BY <1>0, <2>1 DEF StoresExact, Known
    <2>6. StoresExact'
      BY <1>0, <1>6, <2>1, <2>3, <2>4, <2>5 DEF StoresExact
    <2>7. PreviousIsPrevious'
      BY <1>6, NothingIsTyped DEF PreviousIsPrevious
    <2>8. ASSUME NEW d \in Clients PROVE Exact(seen[d], call[d])'
      BY <1>0, <1>2, <1>3, <1>6, <2>1, <2>2 DEF Exact
    <2>9. ASSUME NEW d \in Clients, ~excused PROVE FileTrue(call[d])'
      <3>1. call[c].base = file
        BY <1>0, <2>1, <2>9, OfClient DEF FileTrue, At
      <3> QED BY <1>0, <1>2, <2>1, <2>2, <3>1 DEF FileTrue
    <2>10. WatchedInv'
      BY <1>0 DEF WatchedInv
    <2> QED BY <2>6, <2>7, <2>8, <2>9, <2>10
  <1> QED BY <1>0, <1>6, <1>7 DEF IInv

\* write_revision writes the revision after the current one.
LEMMA CommitKeeps ==
  ASSUME IInv, NEW c \in Clients, Commit(c)
  PROVE  IInv'
  <1>0. /\ At(c, "commit") /\ disturbed' = (disturbed \/ Meets(c))
        /\ UNCHANGED <<file, drift, registry, seen, excused>>
    BY DEF Commit
  <1>1. PICK q \in CallType : q = [call[c] EXCEPT !.pc = "register"]
    BY OfClient DEF CallType, Places
  <1>2. /\ q.pc = "register" /\ q.rev = call[c].rev /\ q.new = call[c].new /\ q.sync = call[c].sync
        /\ q.fresh = call[c].fresh /\ q.op = call[c].op /\ call' = [call EXCEPT ![c] = q]
    BY <1>1, OfClient DEF Commit, Goto, CallType
  <1>3. /\ call[c].new \in Texts /\ call[c].base \in MaybeText /\ registry # 0 /\ call[c].rev \in Revs
        /\ Written(call[c].rev - 1)
    <2>1. call[c].rev \in 0..MaxRev /\ call[c].base \in MaybeText
      BY OfClient DEF CallType
    <2>2. /\ call[c].new \in Texts /\ registry # 0 /\ call[c].rev # 0 /\ Written(call[c].rev - 1)
      BY <1>0, OfClient DEF Fits, At
    <2> QED BY <2>1, <2>2, EditorAssumption DEF Revs
  <1>4. PICK n \in Revs, t \in Texts, p \in MaybeText : n = call[c].rev /\ t = call[c].new /\ p = call[c].base
    BY <1>3
  <1>5. session' = [rev |-> n, text |-> t, prev |-> p, snap |-> [session.snap EXCEPT ![n] = t]]
    BY <1>4, Typed DEF Commit
  <1>6. disturbed' \in BOOLEAN /\ drift' \in BOOLEAN
    BY <1>0, Typed DEF Meets
  <1>7. /\ TypeOK' /\ SnapshotIsText' /\ StoresFit' /\ (\A d \in Clients : Fits(call[d]))'
        /\ session'.rev = n /\ session'.text = t /\ session'.prev = p
        /\ \A r \in Revs : session'.snap[r] = IF r = n THEN t ELSE session.snap[r]
    <2>1. q.pc = "register" /\ q.rev = n /\ q.new \in Texts /\ registry # 0
      BY <1>2, <1>3, <1>4
    <2>2. \/ q.pc = "marking" /\ q.base \in Texts
          \/ q.pc = "register" /\ q.rev = n /\ q.new \in Texts /\ registry # 0
      BY <2>1
    <2>3. Written(n - 1)
      BY <1>3, <1>4
    <2>4. Writes(c, q, n, t, p)
      BY <1>0, <1>2, <1>5, <1>6, <2>2, <2>3 DEF Writes
    <2>5. IsWritten(n, t, p)
      BY <2>4, SessionMoves
    <2> QED BY <2>5 DEF IsWritten
  <1>8. ASSUME ~disturbed'
        PROVE  /\ StoresExact' /\ PreviousIsPrevious' /\ (\A d \in Clients : Exact(seen[d], call[d]))'
               /\ ~excused => WatchedInv' /\ (\A d \in Clients : FileTrue(call[d]))'
    <2>1. ~disturbed /\ StoresExact /\ \A d \in Clients : d # c => call[d].pc = "idle"
      BY <1>0, <1>8, Alone DEF IInv
    <2>2. n = registry + 1 /\ p = session.text
      BY <1>0, <1>4, <2>1, OfClient DEF Exact, At
    <2>3. registry = session.rev
      <3>1. \A d \in Clients : ~At(d, "register")
        BY <1>0, <2>1 DEF At
      <3> QED BY <1>3, <2>1, <3>1 DEF StoresExact
    <2>4. /\ session.rev \in Revs /\ session.snap[session.rev] = session.text
          /\ n = session.rev + 1 /\ session.snap[n] = NoText /\ n - 1 = session.rev /\ n # 1
      <3>1. session.rev \in Revs /\ session.snap[session.rev] = session.text
        BY <1>3, <2>3, CurrentText
      <3>2. n = session.rev + 1 /\ n > session.rev /\ n - 1 = session.rev /\ n # 1
        BY <2>2, <2>3, <3>1, EditorAssumption DEF Revs
      <3> QED BY <2>1, <3>1, <3>2 DEF StoresExact
    <2>5. \A d \in Clients : call'[d] = IF d = c THEN q ELSE call[d]
      BY <1>2, Typed
    <2>6. (\A r \in Revs : r > session.rev => session.snap[r] = NoText)'
      BY <1>7, <2>1, <2>4, EditorAssumption DEF StoresExact, Revs
    <2>7. ASSUME NEW d \in Clients PROVE Known(seen[d])'
      <3>1. Known(seen[d])
        BY <2>1 DEF StoresExact
      <3>2. CASE seen[d] = Unseen \/ seen[d].old
        BY <1>0, <3>2 DEF Known
      <3>3. CASE seen[d] # Unseen /\ ~seen[d].old
        <4>1. seen[d].rev \in 1..session.rev /\ session.snap[seen[d].rev] = seen[d].text
          BY <3>1, <3>3 DEF Known
        <4>2. seen[d].rev \in Revs /\ seen[d].rev # n /\ seen[d].rev \in 1..n
          BY <2>4, <4>1, EditorAssumption DEF Revs
        <4> QED BY <1>0, <1>3, <1>7, <4>1, <4>2 DEF Known
      <3> QED BY <3>2, <3>3
    <2>8. StoresExact'
      <3>1. At(c, "register")' /\ (\A d \in Clients : ~At(d, "marking"))'
        BY <1>2, <2>1, <2>5 DEF At
      <3> QED BY <1>0, <1>3, <2>6, <2>7, <3>1 DEF StoresExact
    <2>9. PreviousIsPrevious'
      BY <1>7, <2>2, <2>4 DEF PreviousIsPrevious
    <2>10. ASSUME NEW d \in Clients PROVE Exact(seen[d], call[d])'
      BY <1>0, <1>2, <1>4, <1>7, <2>1, <2>3, <2>4, <2>5 DEF Exact
    <2>11. Kept => Kept'
      BY <1>0, <1>7, <2>4 DEF Kept
    <2>12. ASSUME ~excused PROVE WatchedInv' /\ (\A d \in Clients : FileTrue(call[d]))'
      <3>1. WatchedInv'
        BY <1>0, <2>1, <2>11, <2>12 DEF IInv, WatchedInv
      <3>2. ASSUME call[c].sync = "under way" /\ (call[c].fresh \/ call[c].op = "save") PROVE Kept'
        <4>1. Kept \/ t.body = file.body
          BY <1>0, <1>4, <2>1, <2>12, <3>2, OfClient DEF FileTrue, At
        <4>2. ASSUME t.body = file.body PROVE Kept'
          BY <1>0, <1>7, <4>2, NothingIsTyped DEF Kept
        <4> QED BY <2>11, <4>1, <4>2
      <3>3. ASSUME NEW d \in Clients PROVE FileTrue(call[d])'
        BY <1>2, <2>1, <2>5, <3>2 DEF FileTrue
      <3> QED BY <3>1, <3>3
    <2> QED BY <2>8, <2>9, <2>10, <2>12
  <1> QED BY <1>0, <1>7, <1>8 DEF IInv

\* The row of a session is inserted: its client is told of revision 1.
LEMMA OpenMarkKeeps ==
  ASSUME IInv, NEW c \in Clients, OpenMark(c)
  PROVE  IInv'
  <1>0. At(c, "marking") /\ drift' = FALSE /\ UNCHANGED <<file, session, excused, disturbed>>
    BY DEF OpenMark
  <1>1. call' = [call EXCEPT ![c] = NoCall]
    BY DEF OpenMark, Answer
  <1>2. CASE registry # 0
    <2>1. UNCHANGED <<registry, seen>> /\ disturbed
      BY <1>0, <1>2, OfClient, Typed DEF OpenMark, Exact, At
    <2>2. drift' \in BOOLEAN /\ disturbed' \in BOOLEAN /\ disturbed'
      BY <1>0, <2>1, Typed
    <2> QED BY <1>0, <1>1, <2>1, <2>2, IdleFits, NothingIsTyped, OfClient, CallMoves
  <1>3. CASE registry = 0
    <2>1. PICK s \in SeenType : s = [rev |-> 1, text |-> call[c].base, old |-> FALSE]
      BY OfClient, NothingIsTyped DEF CallType, SeenType
    <2>2. registry' = 1 /\ seen' = [seen EXCEPT ![c] = s]
      BY <1>3, <2>1 DEF OpenMark, Answer
    <2>3. \A d \in Clients : /\ call'[d] = (IF d = c THEN NoCall ELSE call[d])
                             /\ seen'[d] = (IF d = c THEN s ELSE seen[d])
      BY <1>1, <2>2, Typed
    <2>4. \A d \in Clients : call[d].pc \in {"idle", "opening", "marking"}
      BY <1>3, OfClient DEF Fits
    <2>5. session.rev # 0 /\ session.rev \in Nat
      <3>1. session.rev # 0
        BY <1>0, OfClient DEF Fits, At
      <3>2. session.rev \in 0..MaxRev
        BY Typed
      <3> QED BY <3>1, <3>2, EditorAssumption
    <2>6. TypeOK'
      <3>1. call' \in [Clients -> CallType] /\ seen' \in [Clients -> SeenType]
        BY <1>1, <2>2, Typed, NothingIsTyped
      <3> QED BY <1>0, <2>2, <3>1, NothingIsTyped DEF IInv, TypeOK, CallType, SeenType
    <2>7. SnapshotIsText' /\ StoresFit'
      BY <1>0, <2>2, <2>5 DEF IInv, SnapshotIsText, StoresFit, Written
    <2>8. ASSUME NEW d \in Clients PROVE Fits(call[d])'
      BY <1>0, <2>2, <2>3, <2>4, OfClient, NothingIsTyped DEF Fits
    <2>9. ASSUME ~disturbed
          PROVE  /\ StoresExact' /\ PreviousIsPrevious' /\ (\A d \in Clients : Exact(seen[d], call[d]))'
                 /\ ~excused => WatchedInv' /\ (\A d \in Clients : FileTrue(call[d]))'
      <3>1. session.rev = 1 /\ call[c].base = session.text /\ StoresExact
        BY <1>0, <2>9, OfClient DEF Exact, At, IInv
      <3>2. session.snap[1] = session.text /\ session.text # NoText
        BY <3>1, CurrentText, NothingIsTyped
      <3>3. \A d \in Clients : call'[d].pc \in {"idle", "opening"}
        BY <1>0, <2>3, <2>4, <3>1, NothingIsTyped DEF StoresExact, At
      <3>4. ASSUME NEW d \in Clients PROVE Known(seen[d])'
        <4>1. CASE d = c
          BY <1>0, <2>1, <2>2, <2>3, <3>1, <3>2, <4>1 DEF Known
        <4>2. CASE d # c
          BY <1>3, <2>3, <3>1, <4>2 DEF StoresExact, Known
        <4> QED BY <4>1, <4>2
      <3>5. StoresExact'
        BY <1>0, <2>2, <3>1, <3>3, <3>4 DEF StoresExact, At
      <3>6. PreviousIsPrevious'
        BY <1>0, <2>9 DEF IInv, PreviousIsPrevious
      <3>7. (\A d \in Clients : Exact(seen[d], call[d]))'
        BY <3>3 DEF Exact
      <3>8. ASSUME NEW d \in Clients PROVE FileTrue(call[d])'
        <4>1. call'[d].pc \in {"idle", "opening"} /\ registry' # 0
          BY <2>2, <3>3
        <4> QED BY <4>1 DEF FileTrue
      <3>9. ~excused => WatchedInv'
        <4>1. ~excused => call[c].base = file
          BY <1>0, <1>3, <2>9, OfClient DEF FileTrue, At
        <4> QED BY <1>0, <3>1, <3>2, <4>1, NothingIsTyped DEF WatchedInv, Kept
      <3> QED BY <3>5, <3>6, <3>7, <3>8, <3>9
    <2> QED BY <1>0, <2>6, <2>7, <2>8, <2>9 DEF IInv
  <1> QED BY <1>2, <1>3

\* The registry takes over the number.
LEMMA RegisterKeeps ==
  ASSUME IInv, NEW c \in Clients, Register(c)
  PROVE  IInv'
  <1>0. /\ At(c, "register") /\ UNCHANGED <<file, drift, session, excused>>
        /\ disturbed' = (disturbed \/ \E d \in Others(c) : call[d].pc \notin {"idle", "viewing"})
    BY DEF Register
  <1>1. /\ registry # 0 /\ registry' = call[c].rev /\ call[c].rev # 0 /\ Written(call[c].rev)
        /\ call[c].rev \in 0..MaxRev /\ call[c].new \in MaybeText /\ session.rev # 0
    <2>1. registry # 0 /\ call[c].rev # 0 /\ Written(call[c].rev)
      BY <1>0, OfClient DEF Fits, At
    <2> QED BY <2>1, OfClient DEF Register, CallType, IInv, StoresFit
  <1>2. PICK q \in CallType, s \in SeenType :
           /\ call' = [call EXCEPT ![c] = q] /\ seen' = [seen EXCEPT ![c] = s]
           /\ \/ /\ q.pc = "mark" /\ q.sync = "under way" /\ call[c].sync = "under way" /\ s = seen[c]
                 /\ q.fresh = call[c].fresh /\ q.op = call[c].op
              \/ q = NoCall /\ s = [rev |-> call[c].rev, text |-> call[c].new, old |-> FALSE]
    <2>1. CASE call[c].sync = "under way" /\ Goto(c, "mark") /\ UNCHANGED seen
      <3>1. PICK q \in CallType : q = [call[c] EXCEPT !.pc = "mark"]
        BY OfClient DEF CallType, Places
      <3>2. /\ q.pc = "mark" /\ q.sync = call[c].sync /\ q.fresh = call[c].fresh /\ q.op = call[c].op
            /\ call' = [call EXCEPT ![c] = q]
        BY <2>1, <3>1, OfClient DEF Goto, CallType
      <3> QED BY <2>1, <3>2, OfClient
    <2>2. CASE Answer(c, call[c].rev, call[c].new)
      <3>1. [rev |-> call[c].rev, text |-> call[c].new, old |-> FALSE] \in SeenType
        BY <1>1 DEF SeenType
      <3> QED BY <2>2, <3>1, NothingIsTyped DEF Answer
    <2> QED BY <2>1, <2>2 DEF Register
  <1>3. \A d \in Clients : /\ call'[d] = (IF d = c THEN q ELSE call[d])
                           /\ seen'[d] = (IF d = c THEN s ELSE seen[d])
    BY <1>2, Typed
  <1>4. q.pc \in {"mark", "idle"}
    BY <1>2, NothingIsTyped
  <1>5. TypeOK'
    <2>1. call' \in [Clients -> CallType] /\ seen' \in [Clients -> SeenType]
      BY <1>2, Typed
    <2>2. disturbed' \in BOOLEAN
      BY <1>0, Typed
    <2> QED BY <1>0, <1>1, <2>1, <2>2 DEF IInv, TypeOK, CallType, SeenType
  <1>6. SnapshotIsText' /\ StoresFit'
    BY <1>0, <1>1 DEF IInv, SnapshotIsText, StoresFit, Written
  <1>7. ASSUME NEW d \in Clients PROVE Fits(call[d])'
    <2>1. CASE d = c
      BY <1>1, <1>2, <1>3, <2>1, NothingIsTyped DEF Fits
    <2>2. CASE d # c
      BY <1>0, <1>1, <1>3, <2>2, OfClient DEF Fits, Written
    <2> QED BY <2>1, <2>2
  <1>8. ASSUME ~disturbed'
        PROVE  /\ StoresExact' /\ PreviousIsPrevious' /\ (\A d \in Clients : Exact(seen[d], call[d]))'
               /\ ~excused => WatchedInv' /\ (\A d \in Clients : FileTrue(call[d]))'
    <2>1. ~disturbed /\ StoresExact /\ \A d \in Clients : d # c => call[d].pc \in {"idle", "viewing"}
      BY <1>0, <1>8 DEF IInv, Others
    <2>2. call[c].rev = session.rev /\ call[c].new = session.text
      BY <1>0, <2>1, OfClient DEF Exact, At
    <2>3. \A d \in Clients : call'[d].pc \in {"mark", "idle", "viewing"}
      BY <1>3, <1>4, <2>1
    <2>4. ASSUME NEW d \in Clients PROVE Known(seen[d])'
      <3>1. Known(seen[d]) /\ Known(seen[c])
        BY <2>1 DEF StoresExact
      <3>2. Known([rev |-> call[c].rev, text |-> call[c].new, old |-> FALSE])
        BY <1>1, <2>2, CurrentText, Typed DEF Known
      <3>3. Known(seen'[d])
        BY <1>2, <1>3, <3>1, <3>2
      <3> QED BY <1>0, <1>1, <3>3 DEF Known
    <2>5. StoresExact'
      BY <1>0, <1>1, <2>1, <2>2, <2>3, <2>4 DEF StoresExact, At
    <2>6. PreviousIsPrevious'
      BY <1>0, <2>1 DEF IInv, PreviousIsPrevious
    <2>7. ASSUME NEW d \in Clients PROVE Exact(seen[d], call[d])'
      <3>1. CASE d = c
        BY <1>3, <1>4, <3>1 DEF Exact
      <3>2. CASE d # c
        <4>1. call'[d] = call[d] /\ call[d].pc \in {"idle", "viewing"} /\ Exact(seen[d], call[d])
          BY <1>3, <2>1, <3>2, OfClient
        <4> QED BY <1>0, <4>1 DEF Exact
      <3> QED BY <3>1, <3>2
    <2>8. ASSUME ~excused PROVE WatchedInv' /\ (\A d \in Clients : FileTrue(call[d]))'
      <3>1. Kept <=> Kept'
        BY <1>0 DEF Kept
      <3>2. WatchedInv'
        BY <1>0, <1>1, <2>1, <2>8, <3>1 DEF IInv, WatchedInv
      <3>3. ASSUME NEW d \in Clients PROVE FileTrue(call[d])'
        <4>1. CASE d = c
          <5>1. call[c].sync = "under way" /\ (call[c].fresh \/ call[c].op = "save") => Kept
            BY <1>0, <2>1, <2>8, OfClient DEF FileTrue, At
          <5> QED BY <1>2, <1>3, <3>1, <4>1, <5>1, NothingIsTyped, ZenonT(40) DEF FileTrue
        <4>2. CASE d # c
          BY <1>3, <2>1, <4>2 DEF FileTrue
        <4> QED BY <4>1, <4>2
      <3> QED BY <3>2, <3>3
    <2> QED BY <2>5, <2>6, <2>7, <2>8
  <1> QED BY <1>0, <1>5, <1>6, <1>7, <1>8 DEF IInv

\* The session is forgotten when nobody works with it.
LEMMA CleanupKeeps ==
  ASSUME IInv, Cleanup
  PROVE  IInv'
  <1>0. /\ registry' = 0 /\ session' = NoSession /\ seen' = [c \in Clients |-> [rev |-> seen[c].rev, text |-> NoText, old |-> seen[c].rev # 0]]
        /\ UNCHANGED <<file, drift, call, excused, disturbed>>
        /\ \A d \in Clients : call[d].pc = "idle"
    BY DEF Cleanup, At
  <1>1. /\ session'.rev = 0 /\ session' \in [rev : 0..MaxRev, text : MaybeText, prev : MaybeText, snap : Snapshots]
        /\ \A r \in Revs : session'.snap[r] = NoText
    BY <1>0, NothingIsTyped DEF NoSession, Snapshots, MaybeText
  <1>2. TypeOK'
    <2>1. seen' \in [Clients -> SeenType]
      BY <1>0, Typed, NothingIsTyped DEF SeenType
    <2>2. \A r \in 1..session'.rev : session'.snap[r] # NoText
      BY <1>1
    <2> QED BY <1>0, <1>1, <2>1, <2>2, NothingIsTyped DEF IInv, TypeOK, SeenType
  <1>3. SnapshotIsText' /\ PreviousIsPrevious' /\ StoresFit'
    BY <1>0, <1>1 DEF SnapshotIsText, PreviousIsPrevious, StoresFit, Written
  <1>4. ASSUME NEW d \in Clients PROVE Fits(call[d])' /\ Exact(seen[d], call[d])' /\ FileTrue(call[d])'
    BY <1>0 DEF Fits, Exact, FileTrue
  <1>5. StoresExact'
    <2>1. \A d \in Clients : seen'[d] = Unseen \/ seen'[d].old
      BY <1>0, Typed DEF SeenType, Unseen
    <2> QED BY <1>0, <1>1, <2>1 DEF StoresExact, At, Known
  <1>6. WatchedInv'
    BY <1>0 DEF WatchedInv
  <1> QED BY <1>2, <1>3, <1>4, <1>5, <1>6 DEF IInv

-----------------------------------------------------------------------------
(***************************************************************************)
(* The editor.                                                             *)
(***************************************************************************)
\* A file, and no session.
LEMMA InitHolds ==
  ASSUME Init PROVE IInv
  <1>0. /\ file \in Texts /\ drift = FALSE /\ registry = 0 /\ session = NoSession /\ excused = FALSE /\ disturbed = FALSE
        /\ \A c \in Clients : call[c] = NoCall /\ seen[c] = Unseen
        /\ call \in [Clients -> CallType] /\ seen \in [Clients -> SeenType]
    BY NothingIsTyped DEF Init
  <1>1. /\ session.rev = 0 /\ session \in [rev : 0..MaxRev, text : MaybeText, prev : MaybeText, snap : Snapshots]
        /\ \A r \in Revs : session.snap[r] = NoText
    BY <1>0, NothingIsTyped DEF NoSession, Snapshots, MaybeText
  <1>2. TypeOK
    <2>1. \A r \in 1..session.rev : session.snap[r] # NoText
      BY <1>1
    <2> QED BY <1>0, <1>1, <2>1, NothingIsTyped DEF TypeOK, CallType, SeenType
  <1>3. SnapshotIsText /\ PreviousIsPrevious /\ StoresFit
    BY <1>0, <1>1 DEF SnapshotIsText, PreviousIsPrevious, StoresFit, Written
  <1>4. \A c \in Clients : Fits(call[c]) /\ Exact(seen[c], call[c]) /\ FileTrue(call[c])
    BY <1>0, NothingIsTyped, IdleFits
  <1>5. StoresExact
    BY <1>0, <1>1, NothingIsTyped DEF StoresExact, At, Known
  <1> QED BY <1>0, <1>2, <1>3, <1>4, <1>5 DEF IInv, WatchedInv

\* Every step of the editor.
LEMMA NextKeeps ==
  ASSUME IInv, [Next]_vars
  PROVE  IInv'
  <1>1. CASE UNCHANGED vars
    <2>1. UNCHANGED <<file, drift, registry, session, call, seen, excused, disturbed>>
      BY <1>1 DEF vars
    <2>2. TypeOK' /\ SnapshotIsText' /\ StoresFit' /\ (PreviousIsPrevious => PreviousIsPrevious')
      BY <2>1 DEF IInv, TypeOK, SnapshotIsText, PreviousIsPrevious, StoresFit, Written
    <2>3. (StoresExact => StoresExact') /\ (WatchedInv => WatchedInv')
      BY <2>1 DEF StoresExact, Known, At, WatchedInv, Kept
    <2>4. ASSUME NEW d \in Clients
          PROVE  /\ Fits(call[d]) => Fits(call[d])'
                 /\ Exact(seen[d], call[d]) => Exact(seen[d], call[d])'
                 /\ FileTrue(call[d]) => FileTrue(call[d])'
      BY <2>1 DEF Fits, Exact, FileTrue, Written, Kept
    <2> QED BY <2>1, <2>2, <2>3, <2>4 DEF IInv
  <1>2. CASE Next
    <2>1. ASSUME NEW c \in Clients,
                 \/ OpenLook(c) \/ OpenInit(c) \/ OpenMark(c) \/ Look(c) \/ See(c)
                 \/ \E op \in Ops, dry \in BOOLEAN : Call(c, op, dry)
                 \/ SyncRead(c) \/ Mark(c) \/ Read(c) \/ Parent(c) \/ Commit(c) \/ Register(c)
                 \/ SaveWrite(c) \/ SaveMark(c) \/ Crash(c)
          PROVE  IInv'
      BY <2>1, OpenLookKeeps, OpenInitKeeps, OpenMarkKeeps, LookKeeps, CallKeeps, SyncReadKeeps, MarkKeeps,
         ReadKeeps, ParentKeeps, CommitKeeps, RegisterKeeps, SaveWriteKeeps, SaveMarkKeeps, CrashKeeps
    <2> QED BY <1>2, <2>1, OutsideKeeps, CleanupKeeps DEF Next
  <1> QED BY <1>1, <1>2

-----------------------------------------------------------------------------
(***************************************************************************)
(* The history as Revisions sees it.                                       *)
(***************************************************************************)
History == IF registry = 0 THEN <<>> ELSE [r \in 1..session.rev |-> session.snap[r]]

\* It is as long as the current number says, and ends in the current text.
LEMMA HistoryIs ==
  ASSUME IInv
  PROVE  /\ registry = 0 => History = <<>>
         /\ registry # 0 => /\ History \in Seq(Texts) /\ Len(History) = session.rev /\ session.rev \in Nat \ {0}
                            /\ History # <<>> /\ History[Len(History)] = session.text
                            /\ \A r \in 1..session.rev : History[r] = session.snap[r]
  <1>1. CASE registry = 0
    BY <1>1 DEF History
  <1>2. CASE registry # 0
    <2>1. session.rev \in Nat \ {0} /\ session.rev \in 0..MaxRev
      BY <1>2, Typed, EditorAssumption DEF IInv, StoresFit
    <2>2. \A r \in 1..session.rev : session.snap[r] \in Texts
      <3>1. ASSUME NEW r \in 1..session.rev PROVE session.snap[r] \in Texts
        <4>1. session.snap[r] # NoText
          BY DEF IInv, TypeOK
        <4>2. r \in Revs
          BY <2>1, EditorAssumption DEF Revs
        <4> QED BY <4>1, <4>2, Typed DEF Snapshots, MaybeText
      <3> QED BY <3>1
    <2>3. History = [r \in 1..session.rev |-> session.snap[r]]
      BY <1>2 DEF History
    <2>4. History \in Seq(Texts) /\ Len(History) = session.rev
      BY <2>1, <2>2, <2>3
    <2>5. session.snap[session.rev] = session.text /\ session.rev \in 1..session.rev
      BY <2>1, CurrentText
    <2>6. History # <<>>
      BY <2>1, <2>4
    <2> QED BY <2>1, <2>3, <2>4, <2>5, <2>6, <1>2
  <1> QED BY <1>1, <1>2

\* The invariant gives what the run checks.
LEMMA InvariantGives ==
  ASSUME IInv PROVE RevisionsAreTrue
  <1>1. EditsWhatWasSeen
    <2>1. ASSUME NEW c \in Clients, call[c].pc \in {"write", "commit", "saving"}, call[c].sync = "no", ~seen[c].old, ~disturbed
          PROVE  call[c].base = seen[c].text
      BY <2>1, OfClient DEF Exact
    <2> QED BY <2>1 DEF EditsWhatWasSeen
  <1>2. StillTrue
    <2>1. ASSUME ~disturbed, NEW c \in Clients, seen[c] # [rev |-> 0, text |-> NoText, old |-> FALSE], ~seen[c].old
          PROVE  seen[c].rev <= Len(History) /\ History[seen[c].rev] = seen[c].text
      <3>1. Known(seen[c]) /\ seen[c] # Unseen /\ ~seen[c].old
        BY <2>1, OfClient DEF Unseen
      <3>2. registry # 0 /\ seen[c].rev \in 1..session.rev /\ session.snap[seen[c].rev] = seen[c].text
        BY <3>1 DEF Known
      <3> QED BY <3>2, HistoryIs
    <2> QED BY <2>1 DEF StillTrue, Promise!Faithful, Promise!Nothing, History
  <1>3. PreviousIsPrevious
    BY DEF IInv, PreviousIsPrevious
  <1> QED BY <1>1, <1>2, <1>3 DEF IInv, RevisionsAreTrue

\* The numbers and texts of a session agree, whatever the clients do, and until
\* two calls meet or a process dies between the databases each operation works
\* on the text its client saw, and what a client was told stays true
\* (text_editor/storage.py, service.py).
THEOREM RevisionsStayTrue == Spec => []RevisionsAreTrue
  <1>1. Init => IInv
    BY InitHolds
  <1>2. IInv /\ [Next]_vars => IInv'
    BY NextKeeps
  <1>3. IInv => RevisionsAreTrue
    BY InvariantGives
  <1> QED BY <1>1, <1>2, <1>3, PTL DEF Spec

\* Only a save goes on to "saved", and it finds what the file holds in the
\* history.
LEMMA SavesFindTheText ==
  ASSUME IInv
  PROVE  \A c \in Clients :
            At(c, "saving") /\ call'[c].pc = "saved" /\ ~disturbed =>
               excused \/ \E r \in Revs : session.snap[r] # NoText /\ session.snap[r].body = file.body
  <1>1. ASSUME NEW c \in Clients, At(c, "saving"), ~disturbed, ~excused
        PROVE  \E r \in Revs : session.snap[r] # NoText /\ session.snap[r].body = file.body
    <2>1. call[c].op = "save" /\ call[c].pc = "saving"
      BY <1>1, OfClient DEF Fits, At
    <2> QED BY <1>1, <2>1, OfClient DEF FileTrue, Kept
  <1> QED BY <1>1

\* A save never writes over a text the history does not have, unless that text
\* was written after the save's check (service.py, _maybe_external_sync before
\* save_revision).
THEOREM SavesLoseNoEdit == Spec => NoLostEdit
  <1>1. Init => IInv
    BY InitHolds
  <1>2. IInv /\ [Next]_vars => IInv'
    BY NextKeeps
  <1>3. IInv /\ [Next]_vars =>
           [\A c \in Clients :
               At(c, "saving") /\ call'[c].pc = "saved" /\ ~disturbed =>
                  excused \/ \E r \in Revs : session.snap[r] # NoText /\ session.snap[r].body = file.body]_vars
    BY SavesFindTheText
  <1> QED BY <1>1, <1>2, <1>3, PTL DEF Spec, NoLostEdit

-----------------------------------------------------------------------------
(***************************************************************************)
(* Each step is one of Revisions, or changes nothing there.                *)
(***************************************************************************)
\* A client is told of the current revision.
LEMMA TellsIt ==
  ASSUME IInv, registry # 0, registry' # 0, UNCHANGED <<file, session, disturbed>>, NEW c \in Clients,
         seen' = [seen EXCEPT ![c] = [rev |-> session.rev, text |-> session.text, old |-> FALSE]]
  PROVE  Promise!Tell(c)
  <1>1. History' = History
    BY DEF History
  <1>2. History # <<>> /\ [rev |-> Len(History), text |-> History[Len(History)], old |-> FALSE]
                           = [rev |-> session.rev, text |-> session.text, old |-> FALSE]
    BY HistoryIs
  <1> QED BY <1>1, <1>2 DEF Promise!Tell, Promise!Newest, History

\* A step that is not a disturbance is one of the promise's, or stutters there.
LEMMA StepsKeepThePromise ==
  ASSUME IInv, Next
  PROVE  [Promise!AbsNext]_Promise!absVars
  <1>0. CASE disturbed'
    <2>1. disturbed' = TRUE
      <3>1. disturbed' \in BOOLEAN
        BY NextKeeps, Typed DEF IInv, TypeOK
      <3> QED BY <1>0, <3>1
    <2> QED BY <2>1 DEF Promise!AbsNext
  <1>a. ASSUME UNCHANGED <<file, seen, disturbed>>, History' = History
        PROVE  UNCHANGED Promise!absVars
    BY <1>a DEF Promise!absVars, History
  <1>1. ASSUME NEW c \in Clients, OpenLook(c) \/ Look(c) \/ SyncRead(c) \/ Mark(c) \/ Parent(c)
                                  \/ \E op \in Ops, dry \in BOOLEAN : Call(c, op, dry)
        PROVE  UNCHANGED Promise!absVars
    <2>1. UNCHANGED <<file, registry, session, seen, disturbed>>
      BY <1>1 DEF OpenLook, Look, SyncRead, Mark, Parent, Call
    <2> QED BY <1>a, <2>1 DEF History
  <1>2. ASSUME NEW c \in Clients, OpenInit(c), ~disturbed'
        PROVE  UNCHANGED Promise!absVars
    <2>1. registry = 0 /\ UNCHANGED <<file, registry, seen>> /\ ~disturbed
      BY <1>2 DEF OpenInit
    <2>2. disturbed' = disturbed
      BY <1>2, <2>1, Typed DEF OpenInit, Meets
    <2> QED BY <1>a, <2>1, <2>2 DEF History
  <1>3. ASSUME NEW c \in Clients, OpenMark(c), ~disturbed'
        PROVE  Promise!AbsNext
    <2>1. /\ At(c, "marking") /\ ~disturbed /\ UNCHANGED <<file, session, disturbed>>
      BY <1>3 DEF OpenMark
    <2>2. registry = 0 /\ session.rev = 1 /\ call[c].base = session.text
      BY <2>1, OfClient DEF Exact, At
    <2>3. registry' = 1 /\ seen' = [seen EXCEPT ![c] = [rev |-> 1, text |-> session.text, old |-> FALSE]]
      BY <1>3, <2>2 DEF OpenMark, Answer
    <2>4. session.snap[1] = session.text /\ session.text \in Texts
      BY <2>2, CurrentText
    <2>5. History = <<>> /\ History' = <<session.text>>
      <3>1. History' = [r \in 1..1 |-> session.snap[r]]
        BY <2>1, <2>2, <2>3 DEF History
      <3>2. [r \in 1..1 |-> session.snap[r]] = <<session.text>>
        BY <2>4
      <3> QED BY <2>2, <3>1, <3>2 DEF History
    <2>6. Promise!Open(c)
      BY <2>1, <2>3, <2>4, <2>5 DEF Promise!Open, History
    <2> QED BY <2>6 DEF Promise!AbsNext
  <1>4. ASSUME NEW c \in Clients, See(c), ~disturbed'
        PROVE  Promise!AbsNext
    <2>1. At(c, "viewing") /\ UNCHANGED <<file, registry, session, disturbed>> /\ ~disturbed
      BY <1>4 DEF See
    <2>2. registry # 0 /\ call[c].rev = session.rev
      BY <2>1, OfClient DEF Fits, Exact, At
    <2>3. Promise!Tell(c)
      BY <1>4, <2>1, <2>2, TellsIt DEF See, Answer
    <2> QED BY <2>3 DEF Promise!AbsNext
  <1>5. ASSUME NEW c \in Clients, Read(c)
        PROVE  Promise!AbsNext \/ UNCHANGED Promise!absVars
    <2>1. At(c, "read") /\ UNCHANGED <<file, registry, session, disturbed>>
      BY <1>5 DEF Read
    <2>2. registry # 0
      BY <2>1, OfClient DEF Fits, At
    <2>3. CASE seen' = seen
      BY <1>a, <2>1, <2>3 DEF History
    <2>4. CASE Answer(c, session.rev, session.text)
      <3>1. Promise!Tell(c)
        BY <2>1, <2>2, <2>4, TellsIt DEF Answer
      <3> QED BY <3>1 DEF Promise!AbsNext
    <2> QED BY <1>5, <2>3, <2>4 DEF Read
  <1>6. ASSUME NEW c \in Clients, Commit(c), ~disturbed'
        PROVE  Promise!AbsNext
    <2>1. /\ At(c, "commit") /\ ~disturbed /\ ~Meets(c) /\ UNCHANGED <<file, registry, seen>>
          /\ disturbed' = disturbed
      BY <1>6, Typed DEF Commit, Meets
    <2>2. registry # 0 /\ call[c].new \in Texts /\ call[c].rev = registry + 1
      BY <2>1, OfClient DEF Fits, Exact, At
    <2>3. registry = session.rev
      <3>1. \A d \in Clients : ~At(d, "register")
        BY <2>1, Alone DEF At
      <3> QED BY <2>1, <2>2, <3>1 DEF IInv, StoresExact
    <2>4. PICK n \in Nat, t \in Texts : n = session.rev /\ t = call[c].new
      BY <2>2, HistoryIs
    <2>5. History = [r \in 1..n |-> session.snap[r]] /\ History # <<>>
      BY <2>2, <2>4, HistoryIs DEF History
    <2>6. session' = [session EXCEPT !.rev = n + 1, !.text = t, !.prev = call[c].base,
                                     !.snap = [session.snap EXCEPT ![n + 1] = t]]
      BY <1>6, <2>2, <2>3, <2>4 DEF Commit
    <2>7. session'.rev = n + 1 /\ session'.snap = [session.snap EXCEPT ![n + 1] = t]
      BY <2>6, Typed
    <2>8. n + 1 \in Revs
      <3>1. call[c].rev \in 0..MaxRev
        BY OfClient DEF CallType
      <3> QED BY <2>2, <2>3, <2>4, <3>1, EditorAssumption DEF Revs
    <2>9. History' = [r \in 1..(n + 1) |-> session'.snap[r]]
      BY <2>1, <2>2, <2>7 DEF History
    <2>10. \A r \in 1..(n + 1) : session'.snap[r] = IF r = n + 1 THEN t ELSE session.snap[r]
      BY <2>4, <2>7, <2>8, Typed, EditorAssumption DEF Snapshots, Revs
    <2>11. History' = Append(History, t)
      <3>1. \A r \in 1..n : session.snap[r] \in Texts
        BY <2>2, <2>4, <2>5, HistoryIs
      <3>2. History' = [r \in 1..(n + 1) |-> IF r = n + 1 THEN t ELSE session.snap[r]]
        BY <2>9, <2>10
      <3>3. [r \in 1..(n + 1) |-> IF r = n + 1 THEN t ELSE session.snap[r]]
               = Append([r \in 1..n |-> session.snap[r]], t)
        BY <2>4
      <3> QED BY <2>5, <3>2, <3>3
    <2>12. Promise!Append1
      BY <2>1, <2>5, <2>11 DEF Promise!Append1, History
    <2> QED BY <2>12 DEF Promise!AbsNext
  <1>7. ASSUME NEW c \in Clients, Register(c), ~disturbed'
        PROVE  Promise!AbsNext \/ UNCHANGED Promise!absVars
    <2>1. /\ At(c, "register") /\ ~disturbed /\ UNCHANGED <<file, session>> /\ disturbed' = disturbed
      BY <1>7, Typed DEF Register
    <2>2. /\ registry # 0 /\ call[c].rev # 0 /\ registry' = call[c].rev
          /\ call[c].rev = session.rev /\ call[c].new = session.text
      BY <1>7, <2>1, OfClient DEF Fits, Exact, At, Register
    <2>3. CASE seen' = seen
      BY <1>a, <2>1, <2>2, <2>3 DEF History
    <2>4. CASE Answer(c, call[c].rev, call[c].new)
      <3>1. Promise!Tell(c)
        BY <2>1, <2>2, <2>4, TellsIt DEF Answer
      <3> QED BY <3>1 DEF Promise!AbsNext
    <2> QED BY <1>7, <2>3, <2>4 DEF Register
  <1>8. ASSUME NEW c \in Clients, SaveWrite(c), ~disturbed'
        PROVE  Promise!AbsNext
    <2>1. /\ At(c, "saving") /\ ~disturbed /\ file' = call[c].base
          /\ UNCHANGED <<registry, session, seen, disturbed>>
      BY <1>8 DEF SaveWrite
    <2>2. registry # 0 /\ call[c].base = session.text
      BY <2>1, OfClient DEF Fits, Exact, At
    <2>3. History # <<>> /\ History[Len(History)] = session.text /\ History' = History
      BY <2>1, <2>2, HistoryIs DEF History
    <2>4. Promise!Save
      BY <2>1, <2>2, <2>3 DEF Promise!Save, History
    <2> QED BY <2>4 DEF Promise!AbsNext
  <1>9. ASSUME NEW c \in Clients, SaveMark(c), ~disturbed'
        PROVE  Promise!AbsNext
    <2>1. At(c, "saved") /\ UNCHANGED <<file, registry, session, disturbed>> /\ ~disturbed
      BY <1>9 DEF SaveMark
    <2>2. registry # 0 /\ call[c].base = session.text
      BY <2>1, OfClient DEF Fits, Exact, At
    <2>3. Promise!Tell(c)
      BY <1>9, <2>1, <2>2, TellsIt DEF SaveMark, Answer
    <2> QED BY <2>3 DEF Promise!AbsNext
  <1>10. ASSUME file' \in Texts, UNCHANGED <<registry, session, seen, disturbed>>
         PROVE  Promise!AbsNext
    <2>1. History' = History
      BY <1>10 DEF History
    <2>2. Promise!Outside
      BY <1>10, <2>1 DEF Promise!Outside, History
    <2> QED BY <2>2 DEF Promise!AbsNext
  <1>11. ASSUME NEW c \in Clients, Crash(c), ~disturbed'
         PROVE  Promise!AbsNext
    <2>1. UNCHANGED <<registry, session, seen>> /\ disturbed' = disturbed
      BY <1>11, Typed DEF Crash, At
    <2>2. file' \in Texts
      BY <1>11, Typed, EditorAssumption DEF Crash
    <2> QED BY <1>10, <2>1, <2>2
  <1>12. ASSUME NEW t \in Texts, Outside(t)
         PROVE  Promise!AbsNext
    BY <1>10, <1>12 DEF Outside
  <1>13. ASSUME Cleanup
         PROVE  Promise!AbsNext
    <2>1. History' = <<>>
      BY <1>13 DEF Cleanup, History
    <2>2. Promise!Forget
      BY <1>13, <2>1 DEF Promise!Forget, Promise!Nothing, Cleanup, Unseen, History
    <2> QED BY <2>2 DEF Promise!AbsNext
  <1>14. CASE ~disturbed'
    <2>1. ASSUME NEW c \in Clients,
                 \/ OpenLook(c) \/ OpenInit(c) \/ OpenMark(c) \/ Look(c) \/ See(c)
                 \/ \E op \in Ops, dry \in BOOLEAN : Call(c, op, dry)
                 \/ SyncRead(c) \/ Mark(c) \/ Read(c) \/ Parent(c) \/ Commit(c) \/ Register(c)
                 \/ SaveWrite(c) \/ SaveMark(c) \/ Crash(c)
          PROVE  Promise!AbsNext \/ UNCHANGED Promise!absVars
      BY <1>14, <2>1, <1>1, <1>2, <1>3, <1>4, <1>5, <1>6, <1>7, <1>8, <1>9, <1>11
    <2>2. Promise!AbsNext \/ UNCHANGED Promise!absVars
      BY <1>12, <1>13, <2>1 DEF Next
    <2> QED BY <2>2
  <1> QED BY <1>0, <1>14

\* The editor keeps the promise of Revisions until two calls meet or a process
\* dies between the two databases: the history is only appended to, a number
\* keeps naming the text it was told with, and only a save of the newest
\* revision or somebody outside writes the file (text_editor/service.py).
THEOREM EditorKeepsPromise == Spec => KeepsPromise
  <1>1. Init => IInv
    BY InitHolds
  <1>2. IInv /\ [Next]_vars => IInv'
    BY NextKeeps
  <1>3. Init => Promise!AbsInit
    BY DEF Init, Promise!AbsInit, Promise!Nothing, Unseen
  <1>4. IInv /\ [Next]_vars => [Promise!AbsNext]_Promise!absVars
    <2>1. ASSUME UNCHANGED vars PROVE UNCHANGED Promise!absVars
      BY <2>1 DEF vars, Promise!absVars
    <2> QED BY <2>1, StepsKeepThePromise
  <1> QED BY <1>1, <1>2, <1>3, <1>4, PTL DEF Spec, KeepsPromise, Promise!AbsSpec
=============================================================================
