--------------------------- MODULE CodeIndexProofs ---------------------------
(***************************************************************************)
(* Proofs about the code index, for any files, builders, revisions, writes *)
(* and crashes.                                                            *)
(***************************************************************************)
EXTENDS CodeIndex, TLAPS

Builder == [pc : Places, full : BOOLEAN, cached : Index,
            entries : [Files -> Seconds], out : Index, alone : BOOLEAN]

\* The key fact about an index, in the cache file or in a builder's memory: a
\* fingerprint that names the second of a file's present content vouches for its
\* lines, unless another save went by that second; and it names some second of it.
Vouches(i) == \A f \in Files :
    /\ disk[f] # 0 /\ i.fp[f] = sec[f] /\ sec[f] \notin twice[f] => i.idx[f] = disk[f]
    /\ i.fp[f] # 0 => i.fp[f] \in dated[f]
    /\ i.idx[f] # 0 => i.fp[f] # 0

\* What a builder has listed was linked, and is unless it is gone from disk.
Listed(e) == \A f \in Files :
    /\ e[f] # 0 => e[f] \in dated[f]
    /\ e[f] # 0 /\ disk[f] # 0 => ts[f] # 0

\* Every time the files carry is the second of one of their saves.
Dated(f) ==
    /\ ts[f] # 0 => ts[f] \in dated[f]
    /\ saving[f] # 0 => saving[f] \in dated[f]
    /\ sec[f] # 0 => sec[f] \in dated[f]
    /\ disk[f] # 0 => sec[f] # 0

BuilderInv(b) ==
    /\ Vouches(build[b].cached)
    /\ Vouches(build[b].out)
    /\ Listed(build[b].entries)
    /\ build[b].pc \in {"list", "pack"} /\ ~build[b].full => build[b].cached.rev < MaxRev

IInv ==
    /\ TypeOK
    /\ \A f \in Files : Dated(f)
    /\ Cached => Vouches(cache)
    /\ \A b \in Builders : BuilderInv(b)

-----------------------------------------------------------------------------
LEMMA NoIndexType == NoIndex \in Index /\ NoIndex.fp \in [Files -> Seconds]
  BY IndexAssumption DEF NoIndex, Index, Stamps, Seconds

LEMMA IdleType == Idle \in Builder
  BY NoIndexType DEF Idle, Builder, Places

LEMMA NoIndexVouches ==
    ASSUME \A f \in Files : Dated(f)
    PROVE  Vouches(NoIndex) /\ Listed(NoIndex.fp)
  BY DEF Vouches, Listed, NoIndex, Dated

LEMMA InitIInv == Init => IInv
<1> SUFFICES ASSUME Init PROVE IInv
  OBVIOUS
<1>1. TypeOK
  <2>1. /\ stamp \in Stamps /\ disk \in [Files -> Stamps]
        /\ sec \in [Files -> Seconds] /\ ts \in [Files -> Seconds]
        /\ saving \in [Files -> Seconds]
        /\ dated \in [Files -> SUBSET Seconds] /\ twice \in [Files -> SUBSET Seconds]
    BY IndexAssumption DEF Init, Stamps, Seconds
  <2>2. build \in [Builders -> Builder]
    BY IdleType DEF Init
  <2>3. QED
    BY <2>1, <2>2, IndexAssumption DEF Init, TypeOK, Builder
<1>2. \A f \in Files : Dated(f)
  BY DEF Init, Dated
<1>3. \A b \in Builders : BuilderInv(b)
  BY <1>1, <1>2, NoIndexVouches DEF Init, BuilderInv, Idle, TypeOK
<1>4. QED
  BY <1>1, <1>2, <1>3 DEF Init, IInv, Cached

\* How a step may move a file: it goes, or stays as it is, or is saved by a
\* second that no fingerprint names or that two saves have gone by.
FileMoves(f) ==
    \/ disk'[f] = 0
    \/ disk'[f] = disk[f] /\ sec'[f] = sec[f] /\ (ts[f] # 0 => ts'[f] # 0)
    \/ /\ sec'[f] \notin dated[f] \/ sec'[f] \in twice'[f]
       /\ dated[f] = {} \/ disk[f] # 0
       /\ ts'[f] = ts[f]

FilesMove ==
    \A f \in Files :
        /\ dated[f] \subseteq dated'[f] /\ twice[f] \subseteq twice'[f]
        /\ Dated(f)'
        /\ FileMoves(f)

\* A builder keeps what it remembers, or forgets it.
Remembers(b) ==
    /\ build'[b].cached \in {build[b].cached, NoIndex}
    /\ build'[b].out \in {build[b].out, NoIndex}
    /\ build'[b].entries \in {build[b].entries, NoIndex.fp}
    /\ build'[b].pc \in {"list", "pack"} /\ ~build'[b].full => build'[b].cached.rev < MaxRev

LEMMA VouchesMove ==
    ASSUME FilesMove, \A f \in Files : Dated(f), NEW i \in Index, Vouches(i)
    PROVE  Vouches(i)'
  BY DEF FilesMove, FileMoves, Vouches, Dated

LEMMA ListedMove ==
    ASSUME FilesMove, \A f \in Files : Dated(f), NEW e \in [Files -> Seconds], Listed(e)
    PROVE  Listed(e)'
  BY DEF FilesMove, FileMoves, Listed, Dated

LEMMA MoveBuilder ==
    ASSUME IInv, FilesMove, TypeOK', NEW b \in Builders, Remembers(b)
    PROVE  BuilderInv(b)'
<1>1. /\ build[b].cached \in Index /\ build[b].out \in Index
      /\ build[b].entries \in [Files -> Seconds]
      /\ Vouches(build[b].cached) /\ Vouches(build[b].out) /\ Listed(build[b].entries)
  BY DEF IInv, TypeOK, BuilderInv
<1>2. ASSUME NEW i \in Index, Vouches(i) PROVE Vouches(i)'
  BY <1>2, VouchesMove DEF IInv
<1>3. ASSUME NEW e \in [Files -> Seconds], Listed(e) PROVE Listed(e)'
  BY <1>3, ListedMove DEF IInv
<1>4. Vouches(NoIndex) /\ Listed(NoIndex.fp)
  BY NoIndexVouches DEF IInv
<1>5. \E i \in Index : i = build'[b].cached /\ Vouches(i)'
  BY <1>1, <1>2, <1>4, NoIndexType DEF Remembers
<1>6. \E i \in Index : i = build'[b].out /\ Vouches(i)'
  BY <1>1, <1>2, <1>4, NoIndexType DEF Remembers
<1>7. \E e \in [Files -> Seconds] : e = build'[b].entries /\ Listed(e)'
  BY <1>1, <1>3, <1>4, NoIndexType DEF Remembers
<1>8. QED
  BY <1>5, <1>6, <1>7 DEF Remembers, BuilderInv, Vouches, Listed

LEMMA MoveIInv ==
    ASSUME IInv, FilesMove, TypeOK', \A b \in Builders : Remembers(b),
           cache' \in {cache, Torn}
    PROVE  IInv'
<1>1. Cached' => cache' = cache /\ Cached /\ cache \in Index
  BY DEF Cached, IInv, TypeOK
<1>2. Cached' => \E i \in Index : i = cache' /\ Vouches(i)'
  BY <1>1, VouchesMove DEF IInv
<1>3. Cached' => Vouches(cache)'
  BY <1>2 DEF Vouches
<1>4. QED
  BY <1>3, MoveBuilder DEF FilesMove, IInv

LEMMA FilesStay == IInv /\ UNCHANGED fileVars => FilesMove
  BY DEF IInv, fileVars, FilesMove, FileMoves, Dated

LEMMA BuildersStay == IInv /\ UNCHANGED build => \A b \in Builders : Remembers(b)
  BY DEF IInv, BuilderInv, Remembers

\* Any move of one builder that only changes its place or makes it forget.
LEMMA OneMoves ==
    ASSUME IInv, NEW b \in Builders, NEW x \in Builder,
           build' = [build EXCEPT ![b] = x],
           x.cached \in {build[b].cached, NoIndex},
           x.out \in {build[b].out, NoIndex},
           x.entries \in {build[b].entries, NoIndex.fp},
           x.pc \in {"list", "pack"} /\ ~x.full => x.cached.rev < MaxRev
    PROVE  /\ \A o \in Builders : Remembers(o)
           /\ build' \in [Builders -> Builder]
  BY DEF IInv, TypeOK, BuilderInv, Remembers, Builder

-----------------------------------------------------------------------------
\* Several files get a row with the mtime they have.
LEMMA AddLinksMoves ==
    ASSUME IInv, NEW S \in SUBSET Unlinked, AddLinks(S), UNCHANGED <<content, saving>>
    PROVE  /\ FilesMove
           /\ ts' \in [Files -> Seconds] /\ code' \in [Files -> BOOLEAN]
<1>1. ts' \in [Files -> Seconds] /\ code' \in [Files -> BOOLEAN]
  BY DEF IInv, TypeOK, AddLinks
<1>2. ASSUME NEW g \in Files
      PROVE  /\ dated[g] \subseteq dated'[g] /\ twice[g] \subseteq twice'[g]
             /\ Dated(g)' /\ FileMoves(g)
  <2>1. /\ dated'[g] = dated[g] /\ twice'[g] = twice[g] /\ sec'[g] = sec[g]
        /\ disk'[g] = disk[g] /\ saving'[g] = saving[g]
        /\ ts'[g] = (IF g \in S THEN sec[g] ELSE ts[g])
        /\ g \in S => ts[g] = 0
    BY DEF content, AddLinks, Unlinked
  <2>2. QED
    BY <2>1 DEF IInv, Dated, FileMoves
<1>3. QED
  BY <1>1, <1>2 DEF FilesMove

LEMMA FileActions ==
    ASSUME IInv, NEW f \in Files,
           Edit(f) \/ SaveRow(f) \/ EditOutside(f) \/ Create(f) \/ Attach(f) \/ Remove(f)
    PROVE  IInv'
<1>1. UNCHANGED <<cache, build, job, crashes>>
  BY DEF Edit, SaveRow, EditOutside, Create, Attach, Remove
<1>2. ASSUME NEW t \in 1..MaxSecond, Put(f, t) \/ (Date(f, t) /\ UNCHANGED disk),
             UNCHANGED <<ts, code>>, dated[f] = {} \/ disk[f] # 0,
             saving' = saving \/ saving' = [saving EXCEPT ![f] = t]
      PROVE  FilesMove /\ TypeOK'
  <2>1. t \in Seconds /\ t # 0 /\ stamp + 1 \in Stamps
    BY <1>2, IndexAssumption DEF Put, Date, Seconds, Stamps, IInv, TypeOK
  <2>2. /\ disk' = disk \/ disk' = [disk EXCEPT ![f] = stamp + 1]
        /\ stamp' = stamp + 1 /\ sec' = [sec EXCEPT ![f] = t]
        /\ dated' = [dated EXCEPT ![f] = @ \cup {t}]
        /\ twice' = IF t \in dated[f] THEN [twice EXCEPT ![f] = @ \cup {t}] ELSE twice
    BY <1>2 DEF Put, Date
  <2>3. TypeOK'
    BY <1>1, <1>2, <2>1, <2>2 DEF IInv, TypeOK
  <2>4. ASSUME NEW g \in Files
        PROVE  /\ dated[g] \subseteq dated'[g] /\ twice[g] \subseteq twice'[g]
               /\ Dated(g)' /\ FileMoves(g)
    <3>1. CASE g = f
      <4>1. /\ sec'[g] = t /\ dated'[g] = dated[g] \cup {t} /\ ts'[g] = ts[g]
            /\ twice[g] \subseteq twice'[g]
            /\ t \in dated[g] => t \in twice'[g]
        BY <1>2, <2>2, <3>1 DEF IInv, TypeOK
      <4>2. saving'[g] = saving[g] \/ saving'[g] = t
        BY <1>2, <3>1 DEF IInv, TypeOK
      <4>3. QED
        BY <1>2, <2>1, <3>1, <4>1, <4>2 DEF IInv, Dated, FileMoves
    <3>2. CASE g # f
      <4>1. /\ sec'[g] = sec[g] /\ dated'[g] = dated[g] /\ ts'[g] = ts[g]
            /\ twice'[g] = twice[g] /\ disk'[g] = disk[g] /\ saving'[g] = saving[g]
        BY <1>2, <2>2, <3>2 DEF IInv, TypeOK
      <4>2. QED
        BY <4>1 DEF IInv, Dated, FileMoves
    <3>3. QED
      BY <3>1, <3>2
  <2>5. QED
    BY <2>3, <2>4 DEF FilesMove
<1>3. ASSUME Edit(f) \/ EditOutside(f) PROVE FilesMove /\ TypeOK'
  BY <1>2, <1>3 DEF Edit, EditOutside, OnDisk
<1>4. ASSUME Create(f) PROVE FilesMove /\ TypeOK'
  BY <1>2, <1>4 DEF Create
<1>5. ASSUME SaveRow(f) PROVE FilesMove /\ TypeOK'
  <2>1. PICK t \in {saving[f], sec[f]} : ts' = [ts EXCEPT ![f] = t]
    BY <1>5 DEF SaveRow
  <2>2. t \in Seconds /\ (t # 0 => t \in dated[f])
    BY <2>1 DEF IInv, TypeOK, Dated
  <2>3. disk[f] # 0 => t # 0
    BY <1>5, <2>1 DEF IInv, Dated, SaveRow
  <2>4. TypeOK'
    BY <1>1, <1>5, <2>1, <2>2, IndexAssumption DEF SaveRow, content, IInv, TypeOK, Seconds
  <2>5. ASSUME NEW g \in Files
        PROVE  /\ dated[g] \subseteq dated'[g] /\ twice[g] \subseteq twice'[g]
               /\ Dated(g)' /\ FileMoves(g)
    <3>1. /\ dated'[g] = dated[g] /\ twice'[g] = twice[g] /\ sec'[g] = sec[g]
          /\ disk'[g] = disk[g] /\ saving'[g] = (IF g = f THEN 0 ELSE saving[g])
          /\ ts'[g] = IF g = f THEN t ELSE ts[g]
      BY <1>5, <2>1 DEF SaveRow, content, IInv, TypeOK
    <3>2. QED
      BY <2>2, <2>3, <3>1 DEF IInv, Dated, FileMoves
  <2>6. QED
    BY <2>4, <2>5 DEF FilesMove
<1>6. ASSUME Attach(f) PROVE FilesMove /\ TypeOK'
  <2>1. FilesMove /\ ts' \in [Files -> Seconds] /\ code' \in [Files -> BOOLEAN]
    BY <1>6, AddLinksMoves DEF Attach
  <2>2. QED
    BY <1>1, <1>6, <2>1 DEF Attach, content, IInv, TypeOK
<1>7. ASSUME Remove(f) PROVE FilesMove /\ TypeOK'
  <2>1. TypeOK'
    BY <1>1, <1>7, IndexAssumption DEF Remove, IInv, TypeOK, Stamps, Seconds
  <2>2. ASSUME NEW g \in Files
        PROVE  /\ dated[g] \subseteq dated'[g] /\ twice[g] \subseteq twice'[g]
               /\ Dated(g)' /\ FileMoves(g)
    BY <1>7 DEF Remove, IInv, TypeOK, Dated, FileMoves
  <2>3. QED
    BY <2>1, <2>2 DEF FilesMove
<1>8. QED
  BY <1>1, <1>3, <1>4, <1>5, <1>6, <1>7, BuildersStay, MoveIInv

LEMMA EnqueueIInv ==
    ASSUME IInv, Enqueue
    PROVE  IInv'
<1>1. UNCHANGED <<fileVars, cache, build, crashes>>
  BY DEF Enqueue
<1>2. TypeOK'
  BY <1>1 DEF IInv, TypeOK, fileVars, Enqueue
<1>3. QED
  BY <1>1, <1>2, FilesStay, BuildersStay, MoveIInv
\* Going on to another place.
LEMMA GotoMoves ==
    ASSUME IInv, NEW b \in Builders, NEW pc \in Places, Goto(b, pc),
           pc \in {"list", "pack"} => build[b].full \/ build[b].cached.rev < MaxRev
    PROVE  /\ \A o \in Builders : Remembers(o)
           /\ build' \in [Builders -> Builder]
<1> DEFINE x == [build[b] EXCEPT !.pc = pc]
<1>1. build[b] \in Builder
  BY DEF IInv, TypeOK, Builder
<1>2. /\ x \in Builder /\ x.pc = pc /\ x.full = build[b].full
      /\ x.cached = build[b].cached /\ x.out = build[b].out /\ x.entries = build[b].entries
  BY <1>1 DEF Builder
<1>3. build' = [build EXCEPT ![b] = x]
  BY DEF Goto
<1> HIDE DEF x
<1>4. QED
  BY <1>2, <1>3, OneMoves

LEMMA LeaveMoves ==
    ASSUME IInv, NEW b \in Builders, build' = [build EXCEPT ![b] = Idle]
    PROVE  /\ \A o \in Builders : Remembers(o)
           /\ build' \in [Builders -> Builder]
<1>1. /\ Idle.cached = NoIndex /\ Idle.out = NoIndex /\ Idle.entries = NoIndex.fp
      /\ Idle.pc = "off"
  BY DEF Idle
<1>2. QED
  BY <1>1, IdleType, OneMoves

LEMMA StartIInv == ASSUME IInv, NEW b \in Builders, Start(b) PROVE IInv'
<1>1. UNCHANGED <<fileVars, cache, crashes>> /\ job' \in {"none", "queued", "running"}
  BY DEF Start, IInv, TypeOK
<1>2. \A o \in Builders : Remembers(o) /\ build' \in [Builders -> Builder]
  BY GotoMoves DEF Start, Places
<1>3. TypeOK'
  BY <1>1, <1>2 DEF IInv, TypeOK, fileVars, Builder, Index
<1>4. QED
  BY <1>1, <1>2, <1>3, FilesStay, MoveIInv

LEMMA ScanIInv == ASSUME IInv, NEW b \in Builders, Scan(b) PROVE IInv'
<1>1. FilesMove /\ ts' \in [Files -> Seconds] /\ code' \in [Files -> BOOLEAN]
  BY AddLinksMoves DEF Scan
<1>2. /\ \A o \in Builders : Remembers(o)
      /\ build' \in [Builders -> Builder]
      /\ job' \in {"none", "queued", "running"}
  <2>1. CASE Leave(b)
    BY <2>1, LeaveMoves DEF Leave, IInv, TypeOK
  <2>2. CASE Goto(b, "read") /\ UNCHANGED job
    BY <2>2, GotoMoves DEF IInv, TypeOK, Places
  <2>3. QED
    BY <2>1, <2>2 DEF Scan
<1>3. TypeOK'
  BY <1>1, <1>2 DEF Scan, content, IInv, TypeOK, Builder, Index
<1>4. QED
  BY <1>1, <1>2, <1>3, MoveIInv DEF Scan

\* The flag steps, the truncation, the end of a call and a crash.
LEMMA FlagActions ==
    ASSUME IInv, NEW b \in Builders, ClearFlags(b) \/ SetFlags(b)
    PROVE  IInv'
<1>1. UNCHANGED <<content, ts, saving, cache, job, crashes>>
      /\ code' \in [Files -> BOOLEAN]
  BY DEF ClearFlags, SetFlags, IInv, TypeOK
<1>2. \A o \in Builders : Remembers(o) /\ build' \in [Builders -> Builder]
  BY GotoMoves DEF ClearFlags, SetFlags, Places
<1>3. TypeOK'
  BY <1>1, <1>2 DEF content, IInv, TypeOK, Builder, Index
<1>4. FilesMove
  BY <1>1 DEF content, IInv, FilesMove, FileMoves, Dated
<1>5. QED
  BY <1>1, <1>2, <1>3, <1>4, MoveIInv

LEMMA LeaveActions ==
    ASSUME IInv, NEW b \in Builders, UNCHANGED <<fileVars, cache>>,
           crashes' \in 0..MaxCrashes, job' \in {"none", "queued", "running"},
           build' = [build EXCEPT ![b] = Idle]
    PROVE  IInv'
<1>1. \A o \in Builders : Remembers(o) /\ build' \in [Builders -> Builder]
  BY LeaveMoves
<1>2. TypeOK'
  BY <1>1 DEF IInv, TypeOK, Builder, Index, fileVars
<1>3. QED
  BY <1>1, <1>2, FilesStay, MoveIInv

LEMMA LeaveIInv ==
    ASSUME IInv, NEW b \in Builders, UNCHANGED <<fileVars, cache, crashes>>, Leave(b)
    PROVE  IInv'
  BY LeaveActions DEF Leave, IInv, TypeOK

LEMMA CrashIInv == ASSUME IInv, NEW b \in Builders, Crash(b) PROVE IInv'
<1>1. crashes' \in 0..MaxCrashes
  BY IndexAssumption DEF Crash, IInv, TypeOK
<1>2. QED
  BY <1>1, LeaveActions DEF Crash, IInv, TypeOK

LEMMA OpenIInv == ASSUME IInv, NEW b \in Builders, OpenCache(b) PROVE IInv'
<1> DEFINE x == [build[b] EXCEPT !.pc = "write", !.alone = TRUE]
<1>1. build[b] \in Builder
  BY DEF IInv, TypeOK, Builder
<1>2. /\ x \in Builder /\ x.pc = "write"
      /\ x.cached = build[b].cached /\ x.out = build[b].out /\ x.entries = build[b].entries
  BY <1>1 DEF Builder, Places
<1>3. build' = [build EXCEPT ![b] = x]
  BY DEF OpenCache
<1> HIDE DEF x
<1>4. \A o \in Builders : Remembers(o) /\ build' \in [Builders -> Builder]
  BY <1>2, <1>3, OneMoves
<1>5. TypeOK'
  BY <1>4 DEF OpenCache, IInv, TypeOK, Builder, Index, fileVars
<1>6. QED
  BY <1>4, <1>5, FilesStay, MoveIInv DEF OpenCache

-----------------------------------------------------------------------------
\* Steps that make or publish an index leave the files alone.
LEMMA SameFiles ==
    ASSUME UNCHANGED fileVars
    PROVE  /\ \A i \in Index : Vouches(i)' <=> Vouches(i)
           /\ \A e \in [Files -> Seconds] : Listed(e)' <=> Listed(e)
  BY DEF fileVars, Vouches, Listed

LEMMA NewMemory ==
    ASSUME IInv, NEW b \in Builders, NEW x \in Builder,
           build' = [build EXCEPT ![b] = x],
           UNCHANGED <<fileVars, cache, crashes, job>>,
           Vouches(x.cached), Vouches(x.out), Listed(x.entries),
           x.pc \in {"list", "pack"} /\ ~x.full => x.cached.rev < MaxRev
    PROVE  IInv'
<1>1. TypeOK'
  BY DEF IInv, TypeOK, Builder, Index, fileVars
<1>2. ASSUME NEW o \in Builders PROVE BuilderInv(o)'
  <2>1. build'[o] = IF o = b THEN x ELSE build[o]
    BY DEF IInv, TypeOK
  <2>2. QED
    BY <2>1 DEF IInv, BuilderInv, Vouches, Listed, fileVars
<1>3. Cached' => Vouches(cache)'
  BY DEF IInv, Cached, Vouches, fileVars
<1>4. QED
  BY <1>1, <1>2, <1>3 DEF IInv, Dated, fileVars

LEMMA ReadIInv == ASSUME IInv, NEW b \in Builders, Read(b) PROVE IInv'
<1>1. build[b] \in Builder /\ BuilderInv(b)
  BY DEF IInv, TypeOK, Builder
<1>2. CASE Leave(b)
  BY <1>2, LeaveIInv DEF Read
<1>3. CASE build' = [build EXCEPT ![b].pc = "list", ![b].full = TRUE] /\ UNCHANGED job
  <2> DEFINE x == [build[b] EXCEPT !.pc = "list", !.full = TRUE]
  <2>1. /\ x \in Builder /\ x.full
        /\ x.cached = build[b].cached /\ x.out = build[b].out /\ x.entries = build[b].entries
    BY <1>1 DEF Builder, Places
  <2>2. build' = [build EXCEPT ![b] = x]
    BY <1>3
  <2> HIDE DEF x
  <2>3. QED
    BY <1>1, <1>3, <2>1, <2>2, NewMemory DEF Read, BuilderInv
<1>4. CASE /\ build' = [build EXCEPT ![b].pc = "list", ![b].cached = cache]
           /\ cache \notin {Missing, Torn} /\ ~should_force_full(cache) /\ UNCHANGED job
  <2> DEFINE x == [build[b] EXCEPT !.pc = "list", !.cached = cache]
  <2>1. cache \in Index /\ Vouches(cache)
    BY <1>4 DEF IInv, TypeOK, Cached
  <2>2. /\ x \in Builder /\ x.cached = cache
        /\ x.out = build[b].out /\ x.entries = build[b].entries
    BY <1>1, <2>1 DEF Builder, Places
  <2>3. build' = [build EXCEPT ![b] = x]
    BY <1>4
  <2>4. cache.rev < MaxRev
    BY <1>4, <2>1, IndexAssumption DEF should_force_full, Index
  <2> HIDE DEF x
  <2>5. QED
    BY <1>1, <1>4, <2>1, <2>2, <2>3, <2>4, NewMemory DEF Read, BuilderInv
<1>5. QED
  BY <1>2, <1>3, <1>4 DEF Read

LEMMA FileIndexListed == IInv => file_index \in [Files -> Seconds] /\ Listed(file_index)
  BY IndexAssumption DEF IInv, TypeOK, file_index, OnDisk, Listed, Dated, Seconds

LEMMA ListIInv == ASSUME IInv, NEW b \in Builders, List(b) PROVE IInv'
<1> DEFINE c == build[b].cached
<1>1. build[b] \in Builder /\ BuilderInv(b) /\ build[b].pc = "list"
  BY DEF IInv, TypeOK, Builder, List, At
<1>2. CASE Leave(b)
  BY <1>2, LeaveIInv DEF List
<1>3. CASE build' = [build EXCEPT ![b] = [Idle EXCEPT !.pc = "open", !.out = c]] /\ UNCHANGED job
  <2> DEFINE x == [Idle EXCEPT !.pc = "open", !.out = c]
  <2>1. /\ x \in Builder /\ x.pc = "open" /\ x.cached = NoIndex
        /\ x.out = c /\ x.entries = NoIndex.fp
    BY <1>1, IdleType DEF Builder, Places, Idle
  <2>2. build' = [build EXCEPT ![b] = x]
    BY <1>3
  <2> HIDE DEF x
  <2>3. Vouches(NoIndex) /\ Listed(NoIndex.fp)
    BY NoIndexVouches DEF IInv
  <2>4. QED
    BY <1>1, <1>3, <2>1, <2>2, <2>3, NewMemory DEF List, BuilderInv
<1>4. CASE build' = [build EXCEPT ![b] = [@ EXCEPT !.pc = "pack", !.entries = file_index]]
           /\ UNCHANGED job
  <2> DEFINE x == [build[b] EXCEPT !.pc = "pack", !.entries = file_index]
  <2>1. /\ x \in Builder /\ x.full = build[b].full /\ x.cached = c
        /\ x.out = build[b].out /\ x.entries = file_index
    BY <1>1, FileIndexListed DEF Builder, Places
  <2>2. build' = [build EXCEPT ![b] = x]
    BY <1>4
  <2> HIDE DEF x
  <2>3. QED
    BY <1>1, <1>4, <2>1, <2>2, FileIndexListed, NewMemory DEF List, BuilderInv
<1>5. QED
  BY <1>2, <1>3, <1>4 DEF List

\* What pack makes of a listing, and of a listing and an older index.
LEMMA FullIndexVouches ==
    ASSUME IInv, NEW e \in [Files -> Seconds], Listed(e)
    PROVE  FullIndex(e) \in Index /\ Vouches(FullIndex(e))
<1>1. FullIndex(e) \in Index
  BY IndexAssumption DEF IInv, TypeOK, FullIndex, Index, Stamps
<1>2. QED
  BY <1>1 DEF IInv, Dated, FullIndex, Vouches, Listed, OnDisk

LEMMA MergeVouches ==
    ASSUME IInv, NEW c \in Index, Vouches(c), c.rev < MaxRev,
           NEW e \in [Files -> Seconds], Listed(e)
    PROVE  merge_index(c, e) \in Index /\ Vouches(merge_index(c, e))
<1> DEFINE m == merge_index(c, e)
<1>1. c.rev + 1 \in 0..MaxRev
  BY IndexAssumption DEF Index
<1>2. m.fp = e /\ m.rev = c.rev + 1
  BY DEF merge_index
<1>3. ASSUME NEW f \in Files
      PROVE  m.idx[f] = IF f \in Dirty(c, e) THEN disk[f]
                        ELSE IF f \in Removed(c, e) THEN 0 ELSE c.idx[f]
  BY DEF merge_index
<1>4. m \in Index
  BY <1>1, IndexAssumption DEF IInv, TypeOK, merge_index, Index, Stamps
<1>5. ASSUME NEW f \in Files
      PROVE  /\ disk[f] # 0 /\ e[f] = sec[f] /\ sec[f] \notin twice[f] => m.idx[f] = disk[f]
             /\ e[f] # 0 => e[f] \in dated[f]
             /\ m.idx[f] # 0 => e[f] # 0
  BY <1>3 DEF IInv, Dated, Vouches, Listed, Dirty, Removed
<1>6. QED
  BY <1>2, <1>4, <1>5 DEF Vouches

LEMMA PackIInv == ASSUME IInv, NEW b \in Builders, Pack(b) PROVE IInv'
<1> DEFINE c == build[b].cached
           e == build[b].entries
<1>1. /\ build[b] \in Builder /\ BuilderInv(b) /\ build[b].pc = "pack"
      /\ c \in Index /\ e \in [Files -> Seconds]
  BY DEF IInv, TypeOK, Builder, Pack, At
<1>2. Vouches(NoIndex) /\ Listed(NoIndex.fp)
  BY NoIndexVouches DEF IInv
<1>3. CASE Leave(b)
  BY <1>3, LeaveIInv DEF Pack
<1>4. ASSUME NEW i \in Index, Vouches(i), UNCHANGED job,
             build' = [build EXCEPT ![b] = [Idle EXCEPT !.pc = "clear", !.out = i]]
      PROVE  IInv'
  <2> DEFINE x == [Idle EXCEPT !.pc = "clear", !.out = i]
  <2>1. /\ x \in Builder /\ x.pc = "clear" /\ x.cached = NoIndex
        /\ x.out = i /\ x.entries = NoIndex.fp
    BY IdleType DEF Builder, Places, Idle
  <2>2. build' = [build EXCEPT ![b] = x]
    BY <1>4
  <2> HIDE DEF x
  <2>3. QED
    BY <1>2, <1>4, <2>1, <2>2, NewMemory DEF Pack
<1>5. CASE build' = [build EXCEPT ![b] = [Idle EXCEPT !.pc = "list", !.full = TRUE]]
           /\ UNCHANGED job
  <2> DEFINE x == [Idle EXCEPT !.pc = "list", !.full = TRUE]
  <2>1. /\ x \in Builder /\ x.full /\ x.cached = NoIndex
        /\ x.out = NoIndex /\ x.entries = NoIndex.fp
    BY IdleType DEF Builder, Places, Idle
  <2>2. build' = [build EXCEPT ![b] = x]
    BY <1>5
  <2> HIDE DEF x
  <2>3. QED
    BY <1>2, <1>5, <2>1, <2>2, NewMemory DEF Pack
<1>6. FullIndex(e) \in Index /\ Vouches(FullIndex(e))
  BY <1>1, FullIndexVouches DEF BuilderInv
<1>7. ~build[b].full => merge_index(c, e) \in Index /\ Vouches(merge_index(c, e))
  BY <1>1, MergeVouches DEF BuilderInv
<1>8. QED
  BY <1>3, <1>4, <1>5, <1>6, <1>7 DEF Pack

LEMMA WriteIInv == ASSUME IInv, NEW b \in Builders, WriteCache(b) PROVE IInv'
<1>1. ASSUME NEW o \in Builders
      PROVE  /\ build'[o] \in Builder
             /\ Remembers(o)
  <2>1. build[o] \in Builder /\ BuilderInv(o)
    BY DEF IInv, TypeOK, Builder
  <2>2. CASE o = b
    <3>1. build'[o] = [Idle EXCEPT !.pc = "done"]
      BY <2>2 DEF WriteCache
    <3>2. QED
      BY <3>1, IdleType DEF Remembers, Idle, Builder, Places
  <2>3. CASE o # b /\ build'[o] = [build[o] EXCEPT !.alone = FALSE]
    BY <2>1, <2>3 DEF Remembers, BuilderInv, Builder
  <2>4. CASE build'[o] = build[o]
    BY <2>1, <2>4 DEF Remembers, BuilderInv
  <2>5. QED
    BY <2>2, <2>3, <2>4 DEF WriteCache
<1>2. build' \in [Builders -> Builder]
  BY <1>1 DEF WriteCache
<1>3. build[b].out \in Index /\ Vouches(build[b].out)
  BY DEF IInv, TypeOK, BuilderInv
<1>4. TypeOK'
  BY <1>2, <1>3 DEF WriteCache, IInv, TypeOK, Builder, Index, fileVars
<1>5. \A o \in Builders : BuilderInv(o)'
  BY <1>1, <1>4, FilesStay, MoveBuilder DEF WriteCache
<1>6. Cached' => Vouches(cache)'
  BY <1>3 DEF WriteCache, Cached, Vouches, fileVars
<1>7. QED
  BY <1>4, <1>5, <1>6 DEF WriteCache, IInv, Dated, fileVars

LEMMA NextIInv == IInv /\ [Next]_vars => IInv'
<1> SUFFICES ASSUME IInv, [Next]_vars PROVE IInv'
  OBVIOUS
<1>1. ASSUME NEW f \in Files,
             Edit(f) \/ SaveRow(f) \/ EditOutside(f) \/ Create(f) \/ Attach(f) \/ Remove(f)
      PROVE  IInv'
  BY <1>1, FileActions
<1>2. ASSUME NEW b \in Builders, Work(b) PROVE IInv'
  <2>1. CASE Return(b)
    BY <2>1, LeaveIInv DEF Return
  <2>2. QED
    BY <1>2, <2>1, StartIInv, ScanIInv, ReadIInv, ListIInv, PackIInv, FlagActions,
       OpenIInv, WriteIInv DEF Work
<1>3. ASSUME NEW b \in Builders, Crash(b) PROVE IInv'
  BY <1>3, CrashIInv
<1>4. CASE Enqueue
  BY <1>4, EnqueueIInv
<1>5. CASE UNCHANGED vars
  BY <1>5 DEF vars, IInv, TypeOK, Cached, Vouches, BuilderInv, Listed, Dated
<1>6. QED
  BY <1>1, <1>2, <1>3, <1>4, <1>5 DEF Next

LEMMA Inductive == Spec => []IInv
  BY InitIInv, NextIInv, PTL DEF Spec

\* The variables keep their types; in particular a merge never counts past
\* the revision cap.
THEOREM TypeCorrect == Spec => []TypeOK
  BY Inductive, PTL DEF IInv

\* Lines without a fingerprint never reach the cache file.
THEOREM LinesVouchedFor == Spec => []LinesHaveFingerprint
<1>1. IInv => LinesHaveFingerprint
  BY DEF IInv, LinesHaveFingerprint, Vouches
<1>2. QED
  BY <1>1, Inductive, PTL

\* A fingerprint equal to an up-to-date row, by whose second no other save of the
\* file went, vouches for the lines of the file.
THEOREM SoundFingerprints == Spec => []FingerprintSound
<1>1. IInv => FingerprintSound
  BY DEF IInv, FingerprintSound, Told, Vouches, OnDisk
<1>2. QED
  BY <1>1, Inductive, PTL
=============================================================================
