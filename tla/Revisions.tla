------------------------------ MODULE Revisions ------------------------------
(***************************************************************************)
(* What an editing session promises: a file, a history of revisions that   *)
(* is only ever appended to, and clients that know a revision by its       *)
(* number.  A number a client was told keeps naming the text it saw as     *)
(* long as the history is kept; when it is forgotten the clients keep      *)
(* their numbers, which then promise nothing.  The file changes only by a  *)
(* save of the newest revision or from outside.  The promise is made until *)
(* lost becomes TRUE.                                                      *)
(***************************************************************************)
EXTENDS Integers, Sequences

CONSTANTS Clients, Texts, NoText

VARIABLES revs, disk, told, lost

absVars == <<revs, disk, told, lost>>

Nothing == [rev |-> 0, text |-> NoText, old |-> FALSE]
Newest == [rev |-> Len(revs), text |-> revs[Len(revs)], old |-> FALSE]

AbsInit == /\ revs = <<>> /\ disk \in Texts
           /\ told = [c \in Clients |-> Nothing]
           /\ lost = FALSE

Open(c) == /\ revs = <<>>
           /\ \E t \in Texts : /\ revs' = <<t>>
                              /\ told' = [told EXCEPT ![c] = [rev |-> 1, text |-> t, old |-> FALSE]]
           /\ UNCHANGED <<disk, lost>>

Append1 == /\ revs # <<>>
           /\ \E t \in Texts : revs' = Append(revs, t)
           /\ UNCHANGED <<disk, told, lost>>

Tell(c) == /\ revs # <<>>
           /\ told' = [told EXCEPT ![c] = Newest]
           /\ UNCHANGED <<revs, disk, lost>>

Save == /\ revs # <<>>
        /\ disk' = revs[Len(revs)]
        /\ UNCHANGED <<revs, told, lost>>

Outside == /\ disk' \in Texts
           /\ UNCHANGED <<revs, told, lost>>

Forget == /\ revs' = <<>>
          /\ told' = [c \in Clients |-> [rev |-> told[c].rev, text |-> NoText, old |-> told[c].rev # 0]]
          /\ UNCHANGED <<disk, lost>>

AbsNext == \/ Append1 \/ Save \/ Outside \/ Forget
           \/ \E c \in Clients : Open(c) \/ Tell(c)
           \/ lost' = TRUE

AbsSpec == AbsInit /\ [][AbsNext]_absVars

\* Follows from AbsSpec: what a client was told of this history is still so.
Faithful == ~lost => \A c \in Clients : told[c] # Nothing /\ ~told[c].old =>
                        told[c].rev <= Len(revs) /\ revs[told[c].rev] = told[c].text
=============================================================================
