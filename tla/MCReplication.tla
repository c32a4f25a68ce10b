--------------------------- MODULE MCReplication ---------------------------
EXTENDS Replication, TLC

CONSTANTS a, b, all, m1, m2

\* m1 is for all LLMs; m2 names one, in a way _broadcast sees or does not, or none.
MCUserTexts == (m1 :> {Saying({all})}) @@ (m2 :> {Saying({a}), [Saying({a}) EXCEPT !.refs = {}], Saying({})})
MCReplies == (m1 :> {"none"}) @@ (m2 :> {"named"})
MCLlmTexts == {Saying({b})}

\* Dialogues of a chat do not mix, and one coroutine at a time is at work in it
\* (replication.py:140-200, 415-450; chats.py:118-200).
DialoguesAreApart == TypeOK /\ OneInside /\ OneDialogue
=============================================================================
