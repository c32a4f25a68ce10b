SPECIFICATION Spec
CONSTANTS
    Clients = {c1, c2}
    Texts <- MCTexts
    NoText = NoText
    Torn <- MCTorn
    MaxRev = 3
INVARIANTS RevisionsAreTrue
PROPERTIES NoLostEdit KeepsPromise
CHECK_DEADLOCK FALSE
SYMMETRY Symmetry
CONSTRAINTS UntilDisturbed OldNumbers
