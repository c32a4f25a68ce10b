------------------------------ MODULE FilePages ------------------------------
(***************************************************************************)
(* What git_read_file shows of a file (mcp-tools/mcp_gitbash_stdio.py,     *)
(* _handle_git_read_file): the slices that were asked for, or one page     *)
(* from the head, of a log from the tail, that a binary search shrinks to  *)
(* the budget of characters; what is still too long is cut.  A line is its *)
(* length.                                                                 *)
(***************************************************************************)
EXTENDS Integers, SequencesExt

CONSTANTS
    Lengths,   \* the lengths of lines that occur
    MaxLines,  \* bound: lines of the file
    MaxSlices, \* bound: slices asked for
    MaxNamed,  \* bound: the lines that slices name
    Pages,     \* values of page_lines
    Budgets,   \* values of max_content_chars
    Width,     \* wrap_width
    Mark,      \* length of the marker that separates wrapped parts, with its newlines
    Note       \* length of the note that replaces what was cut

VARIABLES
    file,    \* the lengths of its lines
    log,     \* _is_log_like_file
    wrap,    \* wrap_lines
    page, budget,
    slices,  \* the valid ones of line_slices: pairs of a first and a last line
    pc,
    lo, hi, best,  \* the binary search
    out,     \* the segments shown: their lines, the length of their text, whether it was cut
    given    \* line_slices was given, perhaps without a valid one

vars == <<file, log, wrap, page, budget, slices, pc, lo, hi, best, out, given>>
input == <<file, log, wrap, page, budget, slices, given>>

total_lines == Len(file)
Least(a, b) == IF a < b THEN a ELSE b
Most(a, b) == IF a > b THEN a ELSE b
\* The sums of the first numbers of a sequence.
Sums(w) == LET sum[n \in 0..Len(w)] == IF n = 0 THEN 0 ELSE sum[n - 1] + w[n] IN sum

\* _wrap_segment_lines: the parts of a long line are joined with a marker.
wrapped(len) == IF wrap /\ len > Width THEN len + Mark * ((len - 1) \div Width) ELSE len
widths == [i \in 1..total_lines |-> wrapped(file[i]) + 1]

\* _segment_text_for_range: the length of the text of the lines from s to e, which
\* has a newline between two lines.
segment_chars(s, e) == IF e < s THEN 0 ELSE Sums(widths)[e] - Sums(widths)[s - 1] - 1

\* _truncate_to_budget
truncate_to_budget(chars, cap) ==
    IF chars <= cap THEN chars ELSE Most(0, cap - Note) + Note

\* The slices are shown, or, if none is valid, a page: the tail for a log that is
\* longer than a page, the head otherwise.  Where slices were given, this page is
\* shown as it is; where not (used_default_pagination), it is shrunk to the budget.
FirstOfPage == IF log THEN Most(1, total_lines - page + 1) ELSE 1
LastOfPage == IF log THEN total_lines ELSE Least(page, total_lines)

ChoosePage ==
    /\ pc = "choose" /\ slices = <<>>
    /\ pc' = IF total_lines = 0 \/ given THEN "show" ELSE IF FirstOfPage = 1 THEN "head" ELSE "tail"
    /\ lo' = FirstOfPage /\ hi' = LastOfPage
    /\ best' = IF FirstOfPage = 1 THEN 1 ELSE LastOfPage
    /\ UNCHANGED <<input, out>>

ChooseSlices ==
    /\ pc = "choose" /\ slices # <<>>
    /\ pc' = "show"
    /\ UNCHANGED <<input, lo, hi, best, out>>

mid == (lo + hi) \div 2
\* One turn of the search for the last line of the page, and for its first line.
HeadTurn ==
    /\ pc = "head" /\ lo <= hi
    /\ IF segment_chars(1, mid) <= budget
       THEN best' = mid /\ lo' = mid + 1 /\ UNCHANGED hi
       ELSE hi' = mid - 1 /\ UNCHANGED <<best, lo>>
    /\ UNCHANGED <<input, pc, out>>

\* Mutant: the other half is searched.
After_swapped(fits) == IF fits THEN best' = mid /\ lo' = mid + 1 /\ UNCHANGED hi
                       ELSE hi' = mid - 1 /\ UNCHANGED <<best, lo>>
After(fits) == IF fits THEN best' = mid /\ hi' = mid - 1 /\ UNCHANGED lo
               ELSE lo' = mid + 1 /\ UNCHANGED <<best, hi>>
TailTurn ==
    /\ pc = "tail" /\ lo <= hi
    /\ After(segment_chars(mid, total_lines) <= budget)
    /\ UNCHANGED <<input, pc, out>>

Segment(s, e, cap) ==
    LET first == IF total_lines = 0 THEN 1 ELSE Least(s, total_lines)
        last  == Least(e, total_lines)
        chars == segment_chars(first, last)
    IN  [first |-> first, last |-> last, chars |-> truncate_to_budget(chars, cap), cut |-> chars > cap]

Shown(segments) == Sums([i \in 1..Len(segments) |-> segments[i].chars])[Len(segments)]

\* The page is one segment; an empty file has no lines to show.
ShowPage ==
    /\ slices = <<>> /\ (pc = "show" \/ (pc \in {"head", "tail"} /\ lo > hi))
    /\ out' = IF total_lines = 0 THEN <<>>
              ELSE IF pc = "show" THEN <<Segment(FirstOfPage, LastOfPage, budget)>>
              ELSE IF pc = "head" THEN <<Segment(1, best, budget)>>
              ELSE <<Segment(best, total_lines, budget)>>
    /\ pc' = "done"
    /\ UNCHANGED <<input, lo, hi, best>>

\* Mutant: every slice may fill the whole budget.
Remaining_all(segments) == budget
\* What the segments before have left of the budget.
Remaining(segments) == Most(0, budget - Shown(segments))

\* The next slice; with nothing remaining its text is empty.
ShowSlice ==
    /\ pc = "show" /\ Len(out) < Len(slices)
    /\ LET slice == slices[Len(out) + 1]
           rest  == Remaining(out)
           whole == Segment(slice[1], slice[2], rest)
       IN  out' = Append(out, IF rest = 0 THEN [whole EXCEPT !.chars = 0] ELSE whole)
    /\ pc' = IF Len(out') = Len(slices) THEN "done" ELSE "show"
    /\ UNCHANGED <<input, lo, hi, best>>
-----------------------------------------------------------------------------
\* _parse_line_slice: a slice starts at 1 or later and does not end before it starts.
Slices == {s \in (1..MaxNamed) \X (1..MaxNamed) : s[1] <= s[2]}

Init ==
    /\ file \in BoundedSeq(Lengths, MaxLines)
    /\ log \in BOOLEAN /\ wrap \in BOOLEAN
    /\ page \in Pages /\ budget \in Budgets
    /\ slices \in BoundedSeq(Slices, MaxSlices)
    /\ given \in BOOLEAN /\ (slices # <<>> => given)
    /\ pc = "choose" /\ lo = 1 /\ hi = 0 /\ best = 1
    /\ out = <<>>

Next == ChoosePage \/ ChooseSlices \/ HeadTurn \/ TailTurn \/ ShowPage \/ ShowSlice

Spec == Init /\ [][Next]_vars
-----------------------------------------------------------------------------
SegmentType == [first : Nat, last : Nat, chars : Nat, cut : BOOLEAN]
TypeOK ==
    /\ file \in Seq(Lengths)
    /\ log \in BOOLEAN /\ wrap \in BOOLEAN
    /\ page \in Pages /\ budget \in Budgets
    /\ slices \in Seq(Slices) /\ given \in BOOLEAN
    /\ pc \in {"choose", "head", "tail", "show", "done"}
    /\ lo \in Nat /\ hi \in Nat /\ best \in Nat
    /\ out \in Seq(SegmentType) /\ Len(out) <= Most(Len(slices), 1)

\* The page that is shown when no slices are given is never a line shorter than the
\* budget allows, and is cut only when its one line is longer than the budget.  A log
\* keeps its last lines if it is longer than a page, but its first lines if it is
\* not and is too long for the budget (mcp_gitbash_stdio.py:1696-1748; the comment at
\* 1699 says that a log keeps its tail).
PageIsLongest ==
    pc = "done" /\ ~given /\ out # <<>> =>
        LET seg == out[1]
        IN  /\ seg.cut => seg.first = seg.last
            /\ IF FirstOfPage > 1 THEN seg.last = total_lines ELSE seg.first = 1
            /\ FirstOfPage = 1 /\ seg.last < LastOfPage => segment_chars(1, seg.last + 1) > budget
            /\ seg.first > FirstOfPage => segment_chars(seg.first - 1, total_lines) > budget

\* All that is shown is within the budget, but for one note of what was cut
\* (mcp_gitbash_stdio.py:1567-1575, 1768-1794).
WithinBudget == Shown(out) < budget + Most(Note, 1)

(***************************************************************************)
(* The inductive invariant of both                                         *)
(***************************************************************************)
\* The last line of the page is sought between what fits and what does not ...
HeadSearch ==
    pc = "head" =>
        /\ FirstOfPage = 1 /\ total_lines > 0 /\ slices = <<>> /\ ~given
        /\ 1 <= lo /\ lo <= hi + 1 /\ hi <= LastOfPage
        /\ best = Most(1, lo - 1)
        /\ lo > 1 => segment_chars(1, lo - 1) <= budget
        /\ hi < LastOfPage => segment_chars(1, hi + 1) > budget

\* ... and so is the first line of a tail.
TailSearch ==
    pc = "tail" =>
        /\ FirstOfPage > 1 /\ total_lines > 0 /\ slices = <<>> /\ ~given
        /\ FirstOfPage <= lo /\ lo <= hi + 1 /\ hi <= total_lines
        /\ best = Least(hi + 1, total_lines)
        /\ hi < total_lines => segment_chars(hi + 1, total_lines) <= budget
        /\ lo > FirstOfPage => segment_chars(lo - 1, total_lines) > budget

Showing ==
    /\ pc \in {"choose", "head", "tail"} => out = <<>>
    /\ pc = "show" /\ slices = <<>> => out = <<>> /\ (total_lines = 0 \/ given)
    /\ slices # <<>> => given

IInv == TypeOK /\ HeadSearch /\ TailSearch /\ Showing /\ PageIsLongest /\ WithinBudget
=============================================================================
