----------------------------- MODULE FileVersions -----------------------------
(***************************************************************************)
(* Edits of project files and the backups they leave.  The tags code_file, *)
(* replace, code_insert, code_patch, replace_span and the routes for       *)
(* update and replace end in FileManager.update_file: a copy of the file   *)
(* goes to backups/NAME.SECOND, then the file is written in place.  <undo> *)
(* takes the newest backup not older than time_back, writes it through the *)
(* same update_file and removes it.  A handler runs in one piece in the    *)
(* event loop; sandbox commands, the text editor and people write to the   *)
(* same files meanwhile.                                                   *)
(*                                                                         *)
(* A text is a number, 0 the empty one; the scans of a directory for       *)
(* backups take NAME.* for those of NAME, so that they also see those of   *)
(* NAME.EXT.                                                               *)
(***************************************************************************)
EXTENDS Integers, Sequences, FiniteSets

CONSTANTS
    Names,
    Longer,       \* of these names another one is a prefix that ends before a dot
    None,
    TimeBack,     \* time_back of an undo
    MaxTexts, MaxBackups, MaxSecond, MaxFailures   \* bounds of the model

VARIABLES
    disk,       \* the text of each file, or None
    linked,     \* the names that have a row in attached_files
    backups,    \* backups/NAME.SECOND
    second,     \* int(time.time())
    op,         \* the handler in progress
    taken,      \* history: the backups taken, in order
    spent,      \* history: the backups that an undo removed
    texts, failures   \* texts and failures so far

files == <<disk, linked, backups>>
past == <<taken, spent>>
counted == <<texts, failures>>
vars == <<disk, linked, backups, second, op, taken, spent, texts, failures>>

NoOp == [kind |-> "none", name |-> None, text |-> None, from |-> None]

Init ==
    /\ disk = [n \in Names |-> 1] /\ linked = Names
    /\ backups = <<>>
    /\ second = 1
    /\ op = NoOp
    /\ taken = <<>> /\ spent = {}
    /\ texts = 1 /\ failures = 0

Fresh == texts + 1
Fail == failures < MaxFailures /\ failures' = failures + 1

(***************************************************************************)
(* The handlers                                                            *)
(***************************************************************************)
\* An edit of a linked file: the new text, made from what was read, may be empty.
StartEdit(n, t) ==
    /\ op = NoOp /\ Len(taken) < MaxBackups /\ n \in linked
    /\ t = 0 \/ (t = Fresh /\ t <= MaxTexts)
    /\ op' = [kind |-> "backup", name |-> n, text |-> t, from |-> None]
    /\ texts' = IF t = 0 THEN texts ELSE t
    /\ UNCHANGED <<files, second, past, failures>>

\* A name without a link: what the file held is not kept, and not replaced by
\* an empty text.
Create(n, t) ==
    /\ op = NoOp /\ n \notin linked
    /\ t = 0 \/ (t = Fresh /\ t <= MaxTexts)
    /\ disk' = IF t = 0 THEN disk ELSE [disk EXCEPT ![n] = t]
    /\ texts' = IF t = 0 THEN texts ELSE t
    /\ linked' = linked \cup {n}
    /\ UNCHANGED <<backups, second, op, past, failures>>

\* <code_file>, for which the file need not be there; POST /chat/update_file alike.
code_file(n, t) == StartEdit(n, t) \/ Create(n, t)

\* POST /project/replace, and the tags that read the file first.
replace_in_file(n, t) == disk[n] # None /\ StartEdit(n, t)

\* What the glob NAME.* gives.
Seen(n) == {k \in DOMAIN backups : k[1] = n \/ (n \notin Longer /\ k[1] \in Longer)}
Recent(n) == {k \in Seen(n) : second - k[2] <= TimeBack}

\* The first of the newest, in the order of the directory.
StartUndo(n, k) ==
    /\ op = NoOp /\ Len(taken) < MaxBackups /\ n \in linked /\ disk[n] # None
    /\ k \in Recent(n) /\ \A other \in Recent(n) : other[2] <= k[2]
    /\ op' = [kind |-> "backup", name |-> n, text |-> backups[k], from |-> k]
    /\ UNCHANGED <<files, second, past, counted>>

WithBackup(n) ==
    LET key == <<n, second>> IN
    [k \in DOMAIN backups \cup {key} |-> IF k = key THEN disk[n] ELSE backups[k]]
Took(n) == Append(taken, [name |-> n, at |-> second, text |-> disk[n]])

\* update_file: link_valid, then backup_file; a file that is gone has none.
Backup ==
    /\ op.kind = "backup"
    /\ IF op.name \in linked /\ disk[op.name] # None
          THEN /\ backups' = WithBackup(op.name)
               /\ taken' = Took(op.name)
               /\ op' = [op EXCEPT !.kind = "write"]
          ELSE op' = NoOp /\ UNCHANGED <<backups, taken>>
    /\ UNCHANGED <<disk, linked, second, spent, counted>>

\* An empty text is not written, and the row is updated all the same.
Written(t) == IF t = 0 THEN disk ELSE [disk EXCEPT ![op.name] = t]

\* Mutant: the backup is removed before it is known to be written.
Unlinked_early(ok) == IF op.from = None THEN {} ELSE {op.from}

\* An undo that was written removes its backup.
Unlinked(ok) == IF ok /\ op.from # None THEN {op.from} ELSE {}

Write ==
    /\ op.kind = "write"
    /\ disk' = Written(op.text)
    /\ backups' = [k \in DOMAIN backups \ Unlinked(TRUE) |-> backups[k]]
    /\ spent' = spent \cup Unlinked(TRUE)
    /\ op' = NoOp
    /\ UNCHANGED <<linked, second, taken, counted>>

\* The file cannot be opened, or written and then given no owner: an error.
WriteFails ==
    /\ op.kind = "write" /\ op.text # 0 /\ Fail
    /\ disk' \in {disk, Written(op.text)}
    /\ backups' = [k \in DOMAIN backups \ Unlinked(FALSE) |-> backups[k]]
    /\ op' = NoOp
    /\ UNCHANGED <<linked, second, past, texts>>

\* move_file: a linked target loses its row, and its text when the rename
\* succeeds; the backups of the old name stay under it.
Move(n, m, overwrite, renamed) ==
    /\ op = NoOp /\ Len(taken) < MaxBackups
    /\ n \in linked /\ disk[n] # None /\ n # m
    /\ m \in linked => overwrite
    /\ backups' = WithBackup(n) /\ taken' = Took(n)
    /\ IF renamed
          THEN /\ disk' = [disk EXCEPT ![m] = disk[n], ![n] = None]
               /\ linked' = (linked \ {n}) \cup {m}
               /\ UNCHANGED failures
          ELSE /\ Fail
               /\ linked' = linked \ {m}
               /\ UNCHANGED disk
    /\ UNCHANGED <<second, op, spent, texts>>

\* To its own name: the row removed for the overwriting is its own.
MoveToItself(n) ==
    /\ op = NoOp /\ n \in linked /\ disk[n] # None
    /\ linked' = linked \ {n}
    /\ UNCHANGED <<disk, backups, second, op, past, counted>>

\* <move_file> overwrites if told to; POST /chat/move_file never does.
move_tag(n, m, renamed) ==
    \/ \E overwrite \in BOOLEAN : Move(n, m, overwrite, renamed)
    \/ n = m /\ MoveToItself(n)
move_route(n, m, renamed) == Move(n, m, FALSE, renamed)

\* POST /chat/delete_file drops the row alone.
unlink(n) ==
    /\ op = NoOp /\ n \in linked
    /\ linked' = linked \ {n}
    /\ UNCHANGED <<disk, backups, second, op, past, counted>>

(***************************************************************************)
(* Everything else                                                         *)
(***************************************************************************)
Outside(n, t) ==
    /\ t = None \/ (t = Fresh /\ t <= MaxTexts)
    /\ disk[n] # t
    /\ disk' = [disk EXCEPT ![n] = t]
    /\ texts' = IF t = None THEN texts ELSE t
    /\ UNCHANGED <<linked, backups, second, op, past, failures>>

Restart ==
    /\ op # NoOp /\ Fail
    /\ op' = NoOp
    /\ UNCHANGED <<files, second, past, texts>>

NextSecond ==
    /\ second < MaxSecond
    /\ second' = second + 1
    /\ UNCHANGED <<files, op, past, counted>>

Next ==
    \/ \E n \in Names :
        \/ \E t \in 0..MaxTexts : code_file(n, t) \/ replace_in_file(n, t)
        \/ \E k \in Seen(n) : StartUndo(n, k)
        \/ unlink(n)
        \/ \E m \in Names : \E renamed \in BOOLEAN : move_tag(n, m, renamed) \/ move_route(n, m, renamed)
        \/ \E t \in (1..MaxTexts) \cup {None} : Outside(n, t)
    \/ Backup \/ Write \/ WriteFails \/ Restart \/ NextSecond

Spec == Init /\ [][Next]_vars

(***************************************************************************)
(* Properties                                                              *)
(***************************************************************************)
\* The text of every backup taken can be read back: it is in its backup, or an
\* undo that was written has taken it, unless the file had another backup in
\* the same second (of an edit, or of an undo, whose own removal then takes it).
BackupsKept ==
    \A i \in DOMAIN taken :
        LET b == taken[i]
            key == <<b.name, b.at>> IN
        \/ key \in DOMAIN backups /\ backups[key] = b.text
        \/ \E j \in DOMAIN taken : j # i /\ taken[j].name = b.name /\ taken[j].at = b.at
        \/ key \in spent
-----------------------------------------------------------------------------
(***************************************************************************)
(* The inductive invariant behind BackupsKept (CoreProofs)                 *)
(***************************************************************************)
Texts == Nat \cup {None}

TypeOK ==
    /\ disk \in [Names -> Texts] /\ second \in Nat
    /\ op.kind \in {"none", "backup", "write"} /\ op.text \in Texts
    /\ op.kind # "none" => op.name \in Names
    /\ \A k \in DOMAIN backups : backups[k] \in Texts
    /\ taken \in Seq([name : Names, at : Nat, text : Texts])

IInv == TypeOK /\ BackupsKept
=============================================================================
