SPECIFICATION FairSpec
CONSTANTS
    a = a
    b = b
    all = all
    m1 = m1
    m2 = m2
    Actors = {a, b}
    All = all
    Messages = {m1, m2}
    UserTexts <- MCUserTexts
    Replies <- MCReplies
    LlmTexts <- MCLlmTexts
    MaxRql = 2
    MaxEvents = 1
INVARIANTS DialoguesAreApart
PROPERTY DialoguesEnd
\* A chat in which no one writes any more is quiet.
CHECK_DEADLOCK FALSE
