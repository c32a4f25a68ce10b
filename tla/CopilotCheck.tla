---------------------------- MODULE CopilotCheck ----------------------------
(***************************************************************************)
(* cq_copilot_chat_check with auto_recovery on one file of an editor's     *)
(* chat storage (mcp-tools/cqds_chat.py): what has an empty text is        *)
(* replaced by a placeholder, after a backup.  A log of lines (.jsonl) is  *)
(* copied to a temporary file line by line; a state (.json) is read and    *)
(* written as a whole.  The editor writes the file at any time.            *)
(*                                                                         *)
(* The content is a sequence of entries, that of a state too, which its    *)
(* editor extends.                                                         *)
(***************************************************************************)
EXTENDS Integers, Sequences, SequencesExt

CONSTANTS
    MaxEntries,  \* bound: entries the editor writes
    MaxRuns,     \* bound: runs of the tool
    MaxSecond,   \* bound: the clock
    MaxCrashes   \* bound: the tool's process ends in the middle

VARIABLES
    jsonl,     \* which of the two kinds of file it is
    path,      \* the file: its entries in order
    tmp,       \* what the tool has copied or built
    pc,
    read,      \* entries of the file that were copied
    backups,   \* backup files by the second in their name
    second,    \* the clock
    written,   \* history: entries the editor wrote
    slipped,   \* history: the editor wrote between the backup and the replacement
    overwrote, \* history: a backup took the name of another one
    runs, crashes

vars == <<jsonl, path, tmp, pc, read, backups, second, written, slipped, overwrote, runs, crashes>>
history == <<written, slipped, overwrote>>

Kinds == {"good", "empty", "unreadable"}
Entry(n, kind) == [n |-> n, kind |-> kind]
Fixed(e) == IF e.kind = "empty" THEN [e EXCEPT !.kind = "fixed"] ELSE e
Changed == \E e \in ToSet(tmp) : e.kind = "fixed"

\* The editor appends to its log, or writes its state with one more entry.
EditorWrites(kind) ==
    /\ Len(written) < MaxEntries
    /\ jsonl \/ kind # "unreadable"
    /\ written' = Append(written, Entry(Len(written) + 1, kind))
    /\ path' = Append(path, Last(written'))
    /\ slipped' = (slipped \/ pc \in {"replace", "write", "rewrite"})
    /\ UNCHANGED <<jsonl, tmp, pc, read, backups, second, overwrote, runs, crashes>>

Start ==
    /\ pc = "idle"
    /\ runs < MaxRuns /\ runs' = runs + 1
    /\ tmp' = <<>> /\ read' = 0
    /\ pc' = "scan"
    /\ UNCHANGED <<jsonl, path, backups, second, history, crashes>>

\* _scan_and_fix_jsonl: the next line.  What is no JSON is copied as it is.
CopyLine ==
    /\ pc = "scan" /\ jsonl /\ read < Len(path)
    /\ tmp' = Append(tmp, Fixed(path[read + 1]))
    /\ read' = read + 1
    /\ UNCHANGED <<jsonl, path, pc, backups, second, history, runs, crashes>>

\* The end of the file; nothing changed: the temporary file goes.
EndOfFile ==
    /\ pc = "scan" /\ jsonl /\ read >= Len(path)
    /\ IF Changed THEN pc' = "backup" /\ UNCHANGED tmp ELSE pc' = "idle" /\ tmp' = <<>>
    /\ UNCHANGED <<jsonl, path, read, backups, second, history, runs, crashes>>

\* _scan_and_fix_json: a state is read in one piece, and parsed.
ReadState ==
    /\ pc = "scan" /\ ~jsonl
    /\ tmp' = [i \in DOMAIN path |-> Fixed(path[i])]
    /\ pc' = IF \E e \in ToSet(path) : e.kind = "empty" THEN "backup" ELSE "idle"
    /\ UNCHANGED <<jsonl, path, read, backups, second, history, runs, crashes>>

\* Mutant: what is about to be written is kept.
Kept_fixed == tmp
\* shutil.copy2
Kept == path
Backup ==
    /\ pc = "backup"
    /\ backups' = [backups EXCEPT ![second] = Kept]
    /\ overwrote' = (overwrote \/ backups[second] # <<>>)
    /\ pc' = IF jsonl THEN "replace" ELSE "write"
    /\ UNCHANGED <<jsonl, path, tmp, read, second, written, slipped, runs, crashes>>

\* os.replace
Replace ==
    /\ pc = "replace"
    /\ path' = tmp /\ tmp' = <<>>
    /\ pc' = "idle"
    /\ UNCHANGED <<jsonl, read, backups, second, history, runs, crashes>>

\* write_text truncates the file before it writes.
Truncate ==
    /\ pc = "write"
    /\ path' = <<>>
    /\ pc' = "rewrite"
    /\ UNCHANGED <<jsonl, tmp, read, backups, second, history, runs, crashes>>

Rewrite ==
    /\ pc = "rewrite"
    /\ path' = tmp
    /\ pc' = "idle"
    /\ UNCHANGED <<jsonl, tmp, read, backups, second, history, runs, crashes>>

\* The process of the tool ends: a temporary file stays until the next run.
Crash ==
    /\ pc # "idle"
    /\ crashes < MaxCrashes /\ crashes' = crashes + 1
    /\ pc' = "idle"
    /\ UNCHANGED <<jsonl, path, tmp, read, backups, second, history, runs>>

Tick ==
    /\ second < MaxSecond /\ second' = second + 1
    /\ UNCHANGED <<jsonl, path, tmp, pc, read, backups, history, runs, crashes>>
-----------------------------------------------------------------------------
Init ==
    /\ jsonl \in BOOLEAN
    /\ path = <<>> /\ tmp = <<>>
    /\ pc = "idle" /\ read = 0
    /\ backups = [s \in 1..MaxSecond |-> <<>>] /\ second = 1
    /\ written = <<>> /\ slipped = FALSE /\ overwrote = FALSE
    /\ runs = 0 /\ crashes = 0

Next ==
    \/ \E kind \in Kinds : EditorWrites(kind)
    \/ Start \/ CopyLine \/ EndOfFile \/ ReadState
    \/ Backup \/ Replace \/ Truncate \/ Rewrite
    \/ Crash \/ Tick

Spec == Init /\ [][Next]_vars
-----------------------------------------------------------------------------
\* Every entry is found as the editor wrote it, in the file or in a backup, at
\* every moment of a repair and after a crash; it may be lost only to a write
\* between the backup and the replacement, or to a second repair within the second
\* that names the backup (cqds_chat.py:166-168, 293-311, 333-340).
OriginalKept ==
    \/ slipped \/ overwrote
    \/ \A e \in ToSet(written) :
          e \in ToSet(path) \cup UNION {ToSet(backups[s]) : s \in DOMAIN backups}
-----------------------------------------------------------------------------
(***************************************************************************)
(* The inductive invariant behind OriginalKept (ClientsProofs)           *)
(***************************************************************************)

Saved == UNION {ToSet(backups[s]) : s \in DOMAIN backups}
Texts == [n : Nat, kind : Kinds]
Entries == [n : Nat, kind : Kinds \cup {"fixed"}]
TypeOK ==
    /\ path \in Seq(Entries) /\ tmp \in Seq(Entries) /\ written \in Seq(Texts)
    /\ read \in Nat
    /\ backups \in [1..MaxSecond -> Seq(Entries)]
    /\ second \in 1..MaxSecond
    /\ slipped \in BOOLEAN /\ overwrote \in BOOLEAN

\* While the file is about to be replaced the backup has it, and while it is
\* empty the backups have everything.
BackupHasIt ==
    \/ slipped \/ overwrote
    \/ /\ pc \in {"replace", "write"} => ToSet(path) \subseteq Saved
       /\ pc = "rewrite" => ToSet(written) \subseteq Saved

IInv == TypeOK /\ OriginalKept /\ BackupHasIt
=============================================================================
