--------------------------- MODULE PasswordRotation ---------------------------
(***************************************************************************)
(* scripts/rotate_cqds_db_password.py changes the password of the          *)
(* database, which is also the key of users.llm_token: it reads and opens  *)
(* the tokens with the old password, alters the roles, writes the secret   *)
(* file, stores the tokens under the new password, replaces the old one in *)
(* other files and restarts the core.  The core reads the secret once, and *)
(* encrypts at its start what it finds in plain text; people set tokens by *)
(* SQL.  Passwords are numbered in the order they are made.                *)
(***************************************************************************)
EXTENDS Integers, FiniteSets

CONSTANTS
    Users, None,
    MaxRotations, MaxSets, MaxStops   \* bounds of the model

VARIABLES
    role,       \* the password of the roles postgres and cqds
    secret,     \* secrets/cqds_db_password
    others,     \* the password in .env* and the other files of secrets/
    tokens,     \* users.llm_token: the value, None for none, and the password it is
                \* encrypted with, None for plain text
    coreKey,    \* _token_secret_cache of the running core, None while it is down
    rot,        \* the rotation in progress
    marred,     \* history: a rotation left out a part, or was stopped after the roles were altered
    unstaged,   \* history: whose token was encrypted after a rotation had read those of the others
    rotations, sets, stops   \* so far

passwords == <<role, secret, others>>
soFar == <<rotations, sets, stops>>
vars == <<role, secret, others, tokens, coreKey, rot, marred, unstaged, rotations, sets, stops>>

NoRotation == [pc |-> "none", old |-> None, new |-> None, rows |-> <<>>,
               skipDb |-> FALSE, skipTokens |-> FALSE]

Init ==
    /\ role = 0 /\ secret = 0 /\ others = 0
    /\ tokens \in [Users -> {[value |-> 0, key |-> 0], [value |-> 0, key |-> None],
                              [value |-> None, key |-> None]}]
    /\ coreKey = 0
    /\ rot = NoRotation /\ marred = FALSE /\ unstaged = {}
    /\ rotations = 0 /\ sets = 0 /\ stops = 0

At(pc) == rot.pc = pc
Then(pc) == rot' = [rot EXCEPT !.pc = pc]
Abort == rot' = NoRotation

(***************************************************************************)
(* The script                                                              *)
(***************************************************************************)
\* main: the old password is that of the file; the core must run for the tokens.
Begin(skipDb, skipTokens) ==
    /\ At("none") /\ rotations < MaxRotations
    /\ rotations' = rotations + 1
    /\ rot' = [pc |-> IF skipDb THEN "write" ELSE IF skipTokens THEN "alter" ELSE "pull",
               old |-> secret, new |-> rotations + 1, rows |-> <<>>,
               skipDb |-> skipDb, skipTokens |-> skipDb \/ skipTokens]
    /\ UNCHANGED <<passwords, tokens, coreKey, marred, unstaged, sets, stops>>

Opens(t, password) == t.value = None \/ t.key \in {None, password}

\* _pull: the rows with a token; none if the password is refused or a token does
\* not open.
WithToken == {u \in Users : tokens[u].value # None}

Pull ==
    /\ At("pull")
    /\ IF coreKey # None /\ role = rot.old /\ \A u \in Users : Opens(tokens[u], rot.old)
          THEN /\ rot' = [rot EXCEPT !.pc = "alter", !.rows = [u \in WithToken |-> tokens[u].value]]
               /\ unstaged' = {}
          ELSE Abort /\ UNCHANGED unstaged
    /\ UNCHANGED <<passwords, tokens, coreKey, marred, soFar>>

\* psql as postgres within the container, which needs no password.
AlterRoles ==
    /\ At("alter")
    /\ role' = rot.new
    /\ Then("write")
    /\ UNCHANGED <<secret, others, tokens, coreKey, marred, unstaged, soFar>>

\* Without rows there is nothing to store.
WriteSecretFile ==
    /\ At("write")
    /\ secret' = rot.new
    /\ Then(IF rot.skipTokens \/ DOMAIN rot.rows = {} THEN "replace" ELSE "push")
    /\ marred' = (marred \/ rot.skipTokens)
    /\ UNCHANGED <<role, others, tokens, coreKey, unstaged, soFar>>

\* Mutant: the tokens go back under the password they came with.
PushKey_old == rot.old

PushKey == rot.new

\* _push: one transaction; the rows read then, whatever was set since.
Push ==
    /\ At("push")
    /\ IF coreKey # None
          THEN /\ tokens' = [u \in Users |-> IF u \in DOMAIN rot.rows
                                           THEN [value |-> rot.rows[u], key |-> PushKey]
                                           ELSE tokens[u]]
               /\ Then("replace")
               /\ UNCHANGED marred
          ELSE Abort /\ marred' = TRUE /\ UNCHANGED tokens
    /\ UNCHANGED <<passwords, coreKey, unstaged, soFar>>

\* _replace_in_file where the old password is found.
ReplaceInFiles ==
    /\ At("replace")
    /\ others' = IF others = rot.old THEN rot.new ELSE others
    /\ Then("restart")
    /\ UNCHANGED <<role, secret, tokens, coreKey, marred, unstaged, soFar>>

InPlainText(u) == tokens[u].value # None /\ tokens[u].key = None

\* The core comes up only if the secret file opens the database; what is in
\* plain text is encrypted then (_migrate_llm_tokens).
Booted(password) ==
    IF password = role
       THEN /\ coreKey' = password
            /\ tokens' = [u \in Users |->
                   IF InPlainText(u) THEN [tokens[u] EXCEPT !.key = password] ELSE tokens[u]]
       ELSE coreKey' = None /\ UNCHANGED tokens

\* With --skip-restart the old core goes on.
RestartCore(skip) ==
    /\ At("restart")
    /\ IF skip THEN UNCHANGED <<tokens, coreKey>> ELSE Booted(secret)
    /\ rot' = NoRotation
    /\ UNCHANGED <<passwords, marred, unstaged, soFar>>

(***************************************************************************)
(* Everything else                                                         *)
(***************************************************************************)
\* The script is stopped or fails; its new password is known to nobody then.
Stopped ==
    /\ ~At("none") /\ stops < MaxStops
    /\ stops' = stops + 1
    /\ marred' = (marred \/ rot.pc \in {"write", "push"})
    /\ Abort
    /\ UNCHANGED <<passwords, tokens, coreKey, unstaged, rotations, sets>>

\* The core restarts by itself, at night, or after a crash.  What it encrypts
\* between the pull and the ALTER stays under the old password, unless the row
\* was read.
CoreRestarts ==
    /\ stops < MaxStops
    /\ stops' = stops + 1
    /\ Booted(secret)
    /\ unstaged' = IF At("alter") /\ ~rot.skipTokens /\ secret = role
                      THEN unstaged \cup {u \in Users \ DOMAIN rot.rows : InPlainText(u)}
                      ELSE unstaged
    /\ UNCHANGED <<passwords, rot, marred, rotations, sets>>

SetToken(u) ==
    /\ sets < MaxSets
    /\ sets' = sets + 1
    /\ tokens' = [tokens EXCEPT ![u] = [value |-> sets + 1, key |-> None]]
    /\ unstaged' = unstaged \ {u}
    /\ UNCHANGED <<passwords, coreKey, rot, marred, rotations, stops>>

Next ==
    \/ \E skipDb, skipTokens \in BOOLEAN : Begin(skipDb, skipTokens)
    \/ Pull \/ AlterRoles \/ WriteSecretFile \/ Push \/ ReplaceInFiles
    \/ \E skip \in BOOLEAN : RestartCore(skip)
    \/ Stopped \/ CoreRestarts
    \/ \E u \in Users : SetToken(u)

Spec == Init /\ [][Next]_vars

(***************************************************************************)
(* Properties                                                              *)
(***************************************************************************)
\* Outside of a rotation the secret file opens the database and every token,
\* whatever was set and whenever the core came up meanwhile, as long as no
\* rotation left the database or the tokens out or was stopped between the
\* roles and the tokens.  A token that was not there when the rotation read the
\* tokens, and that the core encrypted before the roles were altered, is lost
\* under the old password, with nothing that tells: those are excepted.
SecretOpensAll ==
    At("none") /\ ~marred =>
        secret = role /\ \A u \in Users \ unstaged : Opens(tokens[u], secret)
-----------------------------------------------------------------------------
(***************************************************************************)
(* The inductive invariant behind SecretOpensAll (CoreProofs)              *)
(***************************************************************************)
\* What a rotation may have read.
Rows == UNION {[D -> Nat] : D \in SUBSET Users}

TypeOK ==
    /\ role \in Nat /\ secret \in Nat /\ others \in Nat
    /\ tokens \in [Users -> [value : Nat \cup {None}, key : Nat \cup {None}]]
    /\ coreKey \in Nat \cup {None}
    /\ rot \in [pc : {"none", "pull", "alter", "write", "push", "replace", "restart"},
                old : Nat \cup {None}, new : Nat \cup {None},
                rows : Rows, skipDb : BOOLEAN, skipTokens : BOOLEAN]
    /\ marred \in BOOLEAN /\ unstaged \subseteq Users
    /\ rotations \in Nat /\ sets \in Nat /\ stops \in Nat

\* A rotation has a password; what it did not read is not encrypted before the
\* roles are altered, and with the new password after.
RotationGoesOn ==
    /\ ~At("none") => rot.old \in Nat /\ rot.new \in Nat
    /\ At("push") => ~rot.skipTokens
    /\ \A u \in Users \ (DOMAIN rot.rows \cup unstaged) :
          /\ At("alter") /\ ~rot.skipTokens => ~(tokens[u].value # None /\ tokens[u].key # None)
          /\ rot.pc \in {"write", "push"} /\ ~rot.skipTokens /\ ~marred => Opens(tokens[u], rot.new)

Settled == secret = role /\ \A u \in Users \ unstaged : Opens(tokens[u], secret)

\* What one password opens at each place of a rotation that left nothing out.
OpensAtEachPlace ==
    /\ rot.pc \in {"none", "pull", "alter", "replace", "restart"} => Settled
    /\ At("write") /\ ~rot.skipTokens => role = rot.new
    /\ At("push") => role = rot.new /\ secret = rot.new

IInv == TypeOK /\ RotationGoesOn /\ (marred \/ OpensAtEachPlace)
=============================================================================
