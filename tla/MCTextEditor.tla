---------------------------- MODULE MCTextEditor ----------------------------
EXTENDS TextEditor, TLC
A == [body |-> "a", nl |-> TRUE]
MCTorn == [body |-> "", nl |-> FALSE]
MCTexts == {A, NoNl(A), MCTorn}
Symmetry == Permutations(Clients)
\* Behaviours are followed to the first disturbance.
UntilDisturbed == ~disturbed
\* Bound: of the numbers told before a clean-up, 1 is followed further.
OldNumbers == \A c \in Clients : seen[c].old => seen[c].rev = 1

\* The numbers and texts of the history agree, and an operation works on the
\* text its client saw (text_editor/storage.py:280-340, service.py:700-760, 1190-1240).
RevisionsAreTrue ==
    TypeOK /\ SnapshotIsText /\ PreviousIsPrevious /\ EditsWhatWasSeen /\ StillTrue
=============================================================================
