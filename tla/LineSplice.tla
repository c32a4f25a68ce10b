----------------------------- MODULE LineSplice -----------------------------
(***************************************************************************)
(* git_write_file on one file (mcp-tools/mcp_gitbash_stdio.py,             *)
(* _handle_git_write_file): a call reads the file and then writes the      *)
(* whole file, with its content in place of all lines, of the lines from   *)
(* line_start to line_end, or before line_start.  Every client has a       *)
(* bridge process of its own and nothing locks the file: calls of two      *)
(* processes interleave between the reading and the writing.               *)
(*                                                                         *)
(* A text is a sequence of lines: what was put in a line, and whether a    *)
(* newline ends it.  The content of a call is one line, with the call's    *)
(* own name in it.  Encodings and the kind of line end are left out.       *)
(***************************************************************************)
EXTENDS Integers, Sequences, FiniteSets

CONSTANTS
    Calls,    \* calls of git_write_file, of several bridge processes
    Lines,    \* what is in the lines of the file at first
    MaxPlace  \* bound: the line numbers in arguments

VARIABLES
    text,      \* the file
    calls,     \* each call: where it is, its arguments, the lines it read
    replaced,  \* history: what was in the lines that a call was told to replace
    glued,     \* history: content was put after a last line that has no newline
    overtaken, \* history: a call wrote a file that had changed since it read it
    blind      \* history: a call with a place wrote a file that it could not read

vars == <<text, calls, replaced, glued, overtaken, blind>>

Line(what, closed) == [names |-> {what}, closed |-> closed]
In(t) == UNION {t[i].names : i \in DOMAIN t}
Open(t) == t # <<>> /\ ~t[Len(t)].closed

\* One text after the other: what follows a line without a newline goes into it.
Joined(t, u) ==
    IF Open(t) /\ u # <<>>
    THEN SubSeq(t, 1, Len(t) - 1)
           \o <<[names |-> t[Len(t)].names \cup u[1].names, closed |-> u[1].closed]>>
           \o SubSeq(u, 2, Len(u))
    ELSE t \o u

\* insert_at: line_start, and line_end or 0; a line_end before line_start is ignored.
Everything == [start |-> 0, end |-> 0]
Places == {Everything} \cup [start : 1..MaxPlace, end : 0..MaxPlace]

Within(a, least, most) == IF a < least THEN least ELSE IF a > most THEN most ELSE a
LineStart(at, max_line) == Within(at.start, 1, max_line + 1)
\* Mutant: the line after the last one goes too.
idx_end_off(at, max_line) ==
    IF at.end < at.start THEN LineStart(at, max_line) - 1
    ELSE Within(at.end, LineStart(at, max_line), max_line) + 1
\* The last line that is not kept.
idx_end(at, max_line) ==
    IF at.end < at.start THEN LineStart(at, max_line) - 1
    ELSE LET last == IF at.end > max_line THEN max_line ELSE at.end
         IN  IF last < LineStart(at, max_line) THEN LineStart(at, max_line) ELSE last

\* Mutant: the content as it is.
new_piece_asIs(content) == content
new_piece(content) == [content EXCEPT ![1] = [names |-> content[1].names, closed |-> TRUE]]

Combined(at, content, original) ==
    LET start == LineStart(at, Len(original))
        end   == idx_end(at, Len(original))
    IN  Joined(Joined(SubSeq(original, 1, start - 1), new_piece(content)),
               SubSeq(original, end + 1, Len(original)))

\* The file is read; an error while it is read is only a warning, and leaves no original.
Read(c) ==
    /\ calls[c].pc = "new"
    /\ \E at \in Places, closed \in BOOLEAN :
          \/ calls' = [calls EXCEPT ![c] =
                [pc |-> "read", at |-> at, content |-> <<Line(c, closed)>>, original |-> text]]
          \/ calls' = [calls EXCEPT ![c] =
                [pc |-> "unread", at |-> at, content |-> <<Line(c, closed)>>, original |-> <<>>]]
    /\ UNCHANGED <<text, replaced, glued, overtaken, blind>>

\* The lines that the arguments name, of those the call read.
Named(at, original) ==
    {i \in DOMAIN original : at = Everything \/ (at.start <= i /\ i <= at.end)}
AppendsTo(at, original) == at # Everything /\ Open(original) /\ at.start > Len(original)

\* The file is written, spliced from what was read.
Write(c) ==
    /\ calls[c].pc = "read"
    /\ LET call == calls[c]
       IN  /\ text' = IF call.at = Everything THEN call.content
                      ELSE Combined(call.at, call.content, call.original)
           /\ replaced' = replaced \cup UNION {call.original[i].names : i \in Named(call.at, call.original)}
           /\ glued' = (glued \/ AppendsTo(call.at, call.original))
           /\ overtaken' = (overtaken \/ text # call.original)
    /\ calls' = [calls EXCEPT ![c].pc = "written"]
    /\ UNCHANGED blind

\* Without an original, the content is the whole file, as if there had been none.
WriteUnread(c) ==
    /\ calls[c].pc = "unread"
    /\ text' = calls[c].content
    /\ IF calls[c].at = Everything
       THEN replaced' = replaced \cup In(text) /\ UNCHANGED blind
       ELSE blind' = TRUE /\ UNCHANGED replaced
    /\ calls' = [calls EXCEPT ![c].pc = "written"]
    /\ UNCHANGED <<glued, overtaken>>

\* The codec of a byte order mark is not known, the directory cannot be made, or the
\* file not be written.
WriteFails(c) ==
    /\ calls[c].pc \in {"read", "unread"}
    /\ calls' = [calls EXCEPT ![c].pc = "failed"]
    /\ UNCHANGED <<text, replaced, glued, overtaken, blind>>
-----------------------------------------------------------------------------
\* The lines in some order, with or without a newline at the end.
Orders == {s \in [1..Cardinality(Lines) -> Lines] : \A line \in Lines : \E i \in DOMAIN s : s[i] = line}

Init ==
    /\ \E s \in Orders, closed \in BOOLEAN :
          text = [i \in 1..Cardinality(Lines) |-> Line(s[i], i < Cardinality(Lines) \/ closed)]
    /\ calls = [c \in Calls |-> [pc |-> "new", at |-> Everything, content |-> <<>>, original |-> <<>>]]
    /\ replaced = {} /\ glued = FALSE /\ overtaken = FALSE /\ blind = FALSE

Next == \E c \in Calls : Read(c) \/ Write(c) \/ WriteUnread(c) \/ WriteFails(c)

Spec == Init /\ [][Next]_vars
-----------------------------------------------------------------------------
LineType == [names : SUBSET (Lines \cup Calls), closed : BOOLEAN]
TypeOK ==
    /\ text \in Seq(LineType)
    /\ calls \in [Calls -> [pc : {"new", "read", "unread", "written", "failed"}, at : Places,
                            content : Seq(LineType), original : Seq(LineType)]]
    /\ replaced \subseteq Lines \cup Calls
    /\ glued \in BOOLEAN /\ overtaken \in BOOLEAN /\ blind \in BOOLEAN

Written == {c \in Calls : calls[c].pc = "written"}

\* What was in the file, or was put there, is there until a call names its line;
\* only a call that had read the file before another one wrote it, and one that
\* could not read it, lose more (mcp_gitbash_stdio.py:1317, 1341-1342, 1428-1458).
LinesKept == overtaken \/ blind \/ (Lines \cup Written) \subseteq In(text) \cup replaced

\* Every line stays a line of its own, unless content was put after a last line
\* that has no newline (mcp_gitbash_stdio.py:1446-1452).
Own(t) == \A i \in DOMAIN t : \A a, b \in t[i].names : a = b
OwnLines == glued \/ Own(text)

(***************************************************************************)
(* The inductive invariant of both                                         *)
(***************************************************************************)
\* Only the last line of a text may have no newline.
ClosedInside(t) == \A i \in 1..Len(t) - 1 : t[i].closed

\* What a call has read was the file once, and its content is a line with its name.
Reads == \A c \in Calls : calls[c].pc \in {"read", "unread"} =>
    /\ ClosedInside(calls[c].original)
    /\ glued \/ Own(calls[c].original)
    /\ \E closed \in BOOLEAN : calls[c].content = <<Line(c, closed)>>

IInv == TypeOK /\ ClosedInside(text) /\ Reads /\ LinesKept /\ OwnLines
=============================================================================
