------------------------------- MODULE EditTags -------------------------------
(***************************************************************************)
(* The tags by which an LLM edits a file line by line: code_patch (a       *)
(* hunk tried at eight offsets), lookup_span and replace_span (a fragment  *)
(* looked up, then replaced under the hash of its text), code_insert.      *)
(* Between two tags anybody may change the file.                           *)
(*                                                                         *)
(* A file is a sequence of lines that all end in a newline.  A hash is the *)
(* text it was made of: its lines, and whether a newline ends the last     *)
(* one, which it never does in a block cut out of a post.  The counts in a *)
(* hunk's header are those of its body (the patch is refused otherwise),   *)
(* and spaces a hunk has too many are not considered.                      *)
(***************************************************************************)
EXTENDS Integers, FiniteSets, SequencesExt

CONSTANTS
    Lines,         \* what a line may be; "" is an empty one
    None,
    \* bounds of the model
    Starts,        \* first lines in the header of a hunk
    MaxLines, MaxBody, MaxCode, MaxSpans

VARIABLES
    file,       \* the lines of the file
    spans,      \* file_spans: from, to and text
    done        \* history: the tag just accepted, and the lines it was given;
                \* lookups, inserts and other changes leave Nothing

vars == <<file, spans, done>>

Texts(n) == BoundedSeq(Lines, n)
Nothing == [tag |-> None, before |-> <<>>, hunk |-> None, span |-> None, cut |-> 0, code |-> <<>>]

Init == file \in Texts(MaxLines) /\ spans = {} /\ done = Nothing

\* update_file writes no empty text: the file stays as it was, and the tag is
\* accepted all the same.
Saved(lines, was) == IF lines = <<>> THEN was ELSE lines

(***************************************************************************)
(* code_patch                                                              *)
(***************************************************************************)
\* "-": removed, "+": added, " ": context.
Hunks ==
    [old : Starts, new : Starts,
     body : BoundedSeq({"-", "+", " "} \X Lines, MaxBody) \ {<<>>}]

\* HunkBlock.parse: the line that each line of the hunk is about.
Before(h, k, signs) == Cardinality({j \in 1..k - 1 : h.body[j][1] \in signs})
LineOf(h, k) == (IF h.body[k][1] = "-" THEN h.old ELSE h.new) + Before(h, k, {"+", " "})

\* A list of Python: index 0 is the None before the lines, -1 the last item.
Item(list, i) == list[i + 1]
Beyond(list, i) == i <= 0 \/ i >= Len(list)
pop(list, i) == RemoveAt(list, (IF i < 0 THEN i + Len(list) ELSE i) + 1)
PopRaises(list, i) == i >= Len(list) \/ i < -Len(list)
insert(list, i, x) ==
    LET at == IF i < 0 THEN (IF i + Len(list) < 0 THEN 0 ELSE i + Len(list)) ELSE i IN
    InsertAt(list, (IF at > Len(list) THEN Len(list) ELSE at) + 1, x)

\* Mutant: the context is not compared.
Matches_removedOnly(list, i, sign, line) == sign = " " \/ Item(list, i) = line

\* HunkBlock.check within the file.
Matches(list, i, sign, line) == Item(list, i) = line

\* HunkBlock.apply for one line of the hunk, at an offset: the lines of the file,
\* whether all matched so far, whether it raised.
Applied(h, offset, k, was) ==
    LET i == LineOf(h, k) + offset
        sign == h.body[k][1]
        line == h.body[k][2]
        beyond == Beyond(was.list, i)
        found == ~beyond /\ Matches(was.list, i, sign, line) IN
    IF was.raised THEN was
    ELSE IF sign = "+" THEN [was EXCEPT !.list = insert(was.list, i, line)]
    ELSE IF sign = " " \/ (~beyond /\ ~found) THEN [was EXCEPT !.ok = was.ok /\ found]
    ELSE IF PopRaises(was.list, i) THEN [was EXCEPT !.raised = TRUE]
    ELSE [list |-> pop(was.list, i), ok |-> was.ok /\ found, raised |-> FALSE]

apply(h, list, offset) ==
    LET step[k \in 0..Len(h.body)] ==
            IF k = 0 THEN [list |-> list, ok |-> TRUE, raised |-> FALSE]
            ELSE Applied(h, offset, k, step[k - 1])
    IN step[Len(h.body)]

\* detect_offset: the first of -4..3 at which the hunk matches or raises.
detect_offset(h, list) ==
    LET tried == [o \in -4..3 |-> apply(h, list, o)]
        good == {o \in -4..3 : tried[o].ok \/ tried[o].raised} IN
    IF good = {} THEN tried[0]
    ELSE tried[CHOOSE o \in good : \A p \in good : o <= p]

\* A patch of one hunk.  Spans do not matter to it.
code_patch(h) ==
    /\ done = Nothing /\ spans = {}
    /\ LET result == detect_offset(h, <<None>> \o file) IN
       /\ result.ok /\ ~result.raised
       /\ result.list[1] = None      \* a line in front of the None makes the join raise
       /\ Len(result.list) <= MaxLines + 1
       /\ file' = Saved(Tail(result.list), file)
    /\ done' = [Nothing EXCEPT !.tag = "code_patch", !.before = file, !.hunk = h]
    /\ UNCHANGED spans

(***************************************************************************)
(* Spans                                                                   *)
(***************************************************************************)
\* file_lines[start:end + 1], where index 0 is an empty line before the first.
Slice(lines, start, end) ==
    SubSeq(lines, IF start = 0 THEN 1 ELSE start, IF end < Len(lines) THEN end ELSE Len(lines))
Hash(lines, closed) == [lines |-> lines, closed |-> closed /\ lines # <<>>]

\* lookup_span, and lookup_entity with the lines the index has for its name,
\* whatever is there by now.  The hash is the key of the table.
lookup_span(start, end) ==
    LET text == Hash(Slice(file, start, end), TRUE) IN
    /\ \A s \in spans : s.text # text
    /\ Cardinality(spans) < MaxSpans
    /\ spans' = spans \cup {[start |-> start, end |-> end, text |-> text]}
    /\ done' = Nothing
    /\ UNCHANGED file

\* Mutant: the fragment may have changed.
check_hash_skipped(s) == TRUE

check_hash(s) == s.text = Hash(Slice(file, s.start, s.end), TRUE)

\* Mutant: more than the span may be cut.
CutLines_unbounded(s, cut) == cut

CutLines(s, cut) == IF s.end - s.start + 1 < cut THEN s.end - s.start + 1 ELSE cut

\* _apply_replace: 0 cuts to the end of the file, a negative number removes lines.
apply_replace(start, cut, code) ==
    LET head == Slice(file, 1, start - 1) IN
    IF cut > 0 THEN head \o code \o SubSeq(file, start + cut, Len(file))
    ELSE IF cut = 0 THEN head \o code
    ELSE head \o SubSeq(file, start - cut, Len(file))

\* The span is replaced by that of the new text, with one line too many; the
\* insert raises when that hash is there, after the file has been saved.
replace_span(s, cut, code) ==
    LET lines == apply_replace(s.start, CutLines(s, cut), code)
        text == Hash(code, FALSE) IN
    /\ done = Nothing
    /\ s.start > 0 /\ check_hash(s)
    /\ Len(lines) <= MaxLines
    /\ file' = Saved(lines, file)
    /\ spans' = (spans \ {s}) \cup
           IF \E other \in spans \ {s} : other.text = text THEN {}
           ELSE {[start |-> s.start, end |-> s.start + Len(code), text |-> text]}
    /\ done' = [Nothing EXCEPT !.tag = "replace_span", !.before = file, !.span = s,
                               !.cut = cut, !.code = code]

(***************************************************************************)
(* code_insert, and everybody else                                         *)
(***************************************************************************)
code_insert(n, code) ==
    /\ n <= Len(file) /\ file[n] = ""
    /\ Len(file) + Len(code) <= MaxLines
    /\ file' = SubSeq(file, 1, n - 1) \o code \o SubSeq(file, n, Len(file))
    /\ done' = Nothing
    /\ UNCHANGED spans

Outside(lines) ==
    /\ lines # file
    /\ file' = lines
    /\ done' = Nothing
    /\ UNCHANGED spans

Next ==
    \/ \E h \in Hunks : code_patch(h)
    \/ \E start \in 0..MaxLines : \E end \in start..MaxLines : lookup_span(start, end)
    \/ \E s \in spans : \E cut \in -1..MaxLines : \E code \in Texts(MaxCode) \ {<<>>} : replace_span(s, cut, code)
    \/ \E n \in 1..MaxLines : \E code \in Texts(MaxCode) \ {<<>>} : code_insert(n, code)
    \/ \E lines \in Texts(MaxLines) : Outside(lines)

Spec == Init /\ [][Next]_vars

(***************************************************************************)
(* Properties                                                              *)
(***************************************************************************)
Spans == [start : Nat, end : Nat, text : [lines : Seq(Lines), closed : BOOLEAN]]

TypeOK ==
    /\ file \in Seq(Lines)
    /\ spans \subseteq Spans
    /\ done.tag \in {None, "code_patch", "replace_span"}

\* The lines of a hunk with some signs, in their order.
TextOf(h, signs) ==
    [n \in 1..Before(h, Len(h.body) + 1, signs) |->
        h.body[CHOOSE j \in DOMAIN h.body : h.body[j][1] \in signs /\ Before(h, j, signs) = n - 1][2]]

\* An accepted hunk that names the same first line for both versions, and has a
\* line to find, replaced its old lines by its new ones at a place within four
\* lines of it where the file had them, and nothing else (the first such place,
\* even if they are also where the hunk says), except that a file of which
\* nothing is left stays as it was.
HunkGoesWhereItMatches ==
    done.tag = "code_patch" /\ done.hunk.old = done.hunk.new /\ TextOf(done.hunk, {"-", " "}) # <<>> =>
        LET h == done.hunk
            old == TextOf(h, {"-", " "}) IN
        \E p \in h.old - 4..h.old + 3 :
            /\ p > 0 /\ p + Len(old) - 1 <= Len(done.before)
            /\ SubSeq(done.before, p, p + Len(old) - 1) = old
            /\ file = Saved(SubSeq(done.before, 1, p - 1) \o TextOf(h, {"+", " "})
                                \o SubSeq(done.before, p + Len(old), Len(done.before)), done.before)

\* A replace_span that cuts lines cuts lines that were looked up, and leaves the
\* text before and after the span, whatever other edits have moved it or
\* changed it since (docs/llm_pre_prompt.md: cut_lines are removed inside the
\* span; with 0 the code cuts to the end of the file).
SpanIsReplaced ==
    done.tag = "replace_span" /\ done.cut > 0 /\ done.span.text.lines # <<>> =>
        LET s == done.span
            looked == s.text.lines
            cut == IF done.cut < Len(looked) THEN done.cut ELSE Len(looked) IN
        /\ s.start + Len(looked) - 1 <= Len(done.before)
        /\ SubSeq(done.before, s.start, s.start + Len(looked) - 1) = looked
        /\ file = SubSeq(done.before, 1, s.start - 1) \o done.code
                      \o SubSeq(looked, cut + 1, Len(looked))
                      \o SubSeq(done.before, s.start + Len(looked), Len(done.before))

\* The inductive invariant of both: an accepted tag is judged where it is done.
IInv == TypeOK /\ HunkGoesWhereItMatches /\ SpanIsReplaced
=============================================================================
