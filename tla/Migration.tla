------------------------------- MODULE Migration ------------------------------
(***************************************************************************)
(* The move of the database from SQLite to PostgreSQL by                   *)
(* postgres/migrate_sqlite_to_postgres.py, which is started by hand, may   *)
(* be stopped and started again, and does not keep the core from writing   *)
(* to the new database meanwhile.                                          *)
(*                                                                         *)
(* A row is its id and where it was written.  Keyed tables have an integer *)
(* primary key, which PostgreSQL numbers itself; the others have no key.   *)
(***************************************************************************)
EXTENDS Integers, FiniteSets, Sequences

CONSTANTS
    Tables,   \* the tables in the order of their names
    Keyed,    \* those with an integer primary key
    MaxRow,   \* bound: ids of the old rows
    MaxId,    \* bound: ids
    MaxRuns,  \* bound: runs of the script
    MaxInserts \* bound: rows the core inserts

VARIABLES
    old,      \* the SQLite file: the ids of each table
    new,      \* PostgreSQL: how many rows with each id each table has, old ones and the core's
    pending,  \* the ids of the rows of each keyed table that the core has inserted and not committed
    made,     \* the tables PostgreSQL has
    sequence, \* the next id of each keyed table
    next,     \* the run in progress: the table it migrates next, or past the last one the
              \* table whose sequence it sets next; 0: none
    top,      \* the MAX that the setval in progress has read, or Unread
    ended,    \* history: a run ended, and no other was started since
    taken,    \* history: the ids the core had used when a row with that id came
    refused,  \* history: the tables where an insert of the core met a used id though a run had
              \* ended, since their last setval
    slipped,  \* history: the tables whose last setval went back on an id the core had
    spent

core == <<new, pending, made, sequence, taken, refused, slipped>>
vars == <<old, new, pending, made, sequence, next, top, ended, taken, refused, slipped, spent>>

TableNames == {Tables[i] : i \in DOMAIN Tables}
Ids == 1..MaxId
Rows == [old : Nat, core : Nat]
Spend(what, max) == spent[what] < max /\ spent' = [spent EXCEPT ![what] = @ + 1]
Used(t) == {i \in Ids : new[t][i].old > 0 \/ new[t][i].core > 0}
Unread == -1
Top(t) == IF Used(t) = {} THEN 0 ELSE CHOOSE i \in Used(t) : \A j \in Used(t) : j <= i

\* wait_postgres: the script starts when the database answers.
main ==
    /\ next = 0
    /\ Spend("runs", MaxRuns)
    /\ next' = 1 /\ ended' = FALSE
    /\ UNCHANGED <<old, core, top>>

\* Mutant: the old row replaces the one that has its id.
Inserted_replaces(t, i) ==
    IF i \notin old[t] THEN new[t][i]
    ELSE IF t \in Keyed THEN [old |-> 1, core |-> 0]
    ELSE [new[t][i] EXCEPT !.old = @ + 1]

\* How many rows with id i are there after the inserts: ON CONFLICT DO NOTHING needs a key.
Inserted(t, i) ==
    IF i \notin old[t] \/ (t \in Keyed /\ i \in Used(t)) THEN new[t][i]
    ELSE [new[t][i] EXCEPT !.old = @ + 1]

\* One table, one transaction: it is created unless it is there, then its rows are inserted
\* with the ids they have, which moves no sequence.  An id of a row that is not committed
\* yet is waited for.
migrate_table ==
    /\ next \in DOMAIN Tables
    /\ LET t == Tables[next] IN
       /\ t \in Keyed => pending[t] \cap old[t] = {}
       /\ made' = made \cup {t}
       /\ new' = [new EXCEPT ![t] = [i \in Ids |-> Inserted(t, i)]]
       /\ taken' = [taken EXCEPT ![t] = @ \cup {i \in old[t] : new[t][i].core > 0}]
    /\ next' = next + 1
    /\ UNCHANGED <<old, pending, sequence, top, ended, refused, slipped, spent>>

\* Mutant: the sequence is set to the last id in use.
Synced_last(t) == IF top = 0 THEN 1 ELSE top

\* setval(MAX + 1, false): the next number is the first above all rows.
Synced(t) == top + 1

\* sync_postgres_sequences, table by table: one statement reads the MAX of what is
\* committed and then sets the sequence, whatever the core was given by it meanwhile.
Syncing == next - Len(Tables) \in DOMAIN Tables
SyncTable == Tables[next - Len(Tables)]
NextSync ==
    /\ next' = IF next = 2 * Len(Tables) THEN 0 ELSE next + 1
    /\ ended' = (next = 2 * Len(Tables))

read_max ==
    /\ Syncing /\ SyncTable \in Keyed /\ top = Unread
    /\ top' = Top(SyncTable)
    /\ UNCHANGED <<old, core, next, ended, spent>>

setval ==
    /\ Syncing /\ SyncTable \in Keyed /\ top # Unread
    /\ LET t == SyncTable IN
       /\ sequence' = [sequence EXCEPT ![t] = Synced(t)]
       /\ slipped' = IF \E i \in Used(t) \cup pending[t] : i > top THEN slipped \cup {t} ELSE slipped \ {t}
       /\ refused' = refused \ {t}
    /\ top' = Unread /\ NextSync
    /\ UNCHANGED <<old, new, pending, made, taken, spent>>

no_sequence ==
    /\ Syncing /\ SyncTable \notin Keyed
    /\ NextSync
    /\ UNCHANGED <<old, core, top, spent>>

\* The run is stopped, or an error ends it: the tables that were committed stay, and
\* the sequences that were set.
Stop ==
    /\ next # 0 /\ next' = 0 /\ top' = Unread
    /\ UNCHANGED <<old, core, ended, spent>>

\* The core on PostgreSQL: it makes the tables it misses, and leaves the id to the sequence,
\* which moves even if the id is in use and the insert fails.  Where there is no key, only
\* the commit can be seen.
insert_into(t) ==
    /\ Spend("inserts", MaxInserts)
    /\ made' = TableNames
    /\ IF t \in Keyed
       THEN \E i \in {sequence[t]} \cap Ids :
               /\ sequence' = [sequence EXCEPT ![t] = i + 1]
               /\ IF i \in Used(t) \cup pending[t]
                  THEN refused' = (IF ended THEN refused \cup {t} ELSE refused) /\ UNCHANGED pending
                  ELSE pending' = [pending EXCEPT ![t] = @ \cup {i}] /\ UNCHANGED refused
               /\ UNCHANGED new
       ELSE \E i \in Ids :
               /\ new' = [new EXCEPT ![t] = [new[t] EXCEPT ![i] = [new[t][i] EXCEPT !.core = new[t][i].core + 1]]]
               /\ UNCHANGED <<sequence, pending, refused>>
    /\ UNCHANGED <<old, next, top, ended, taken, slipped>>

\* Database.execute: its commit comes after its statement.
commit(t) ==
    /\ \E i \in pending[t] :
          /\ new' = [new EXCEPT ![t] = [new[t] EXCEPT ![i] = [new[t][i] EXCEPT !.core = new[t][i].core + 1]]]
          /\ pending' = [pending EXCEPT ![t] = @ \ {i}]
    /\ UNCHANGED <<old, made, sequence, next, top, ended, taken, refused, slipped, spent>>

Init ==
    /\ old \in [TableNames -> SUBSET (1..MaxRow)]
    /\ new = [t \in TableNames |-> [i \in Ids |-> [old |-> 0, core |-> 0]]]
    /\ pending = [t \in Keyed |-> {}]
    /\ made = {} /\ sequence = [t \in Keyed |-> 1]
    /\ next = 0 /\ top = Unread /\ ended = FALSE
    /\ taken = [t \in TableNames |-> {}] /\ refused = {} /\ slipped = {}
    /\ spent = [w \in {"runs", "inserts"} |-> 0]

Next ==
    \/ main \/ migrate_table \/ read_max \/ setval \/ no_sequence \/ Stop
    \/ \E t \in TableNames : insert_into(t)
    \/ \E t \in Keyed : commit(t)

Spec == Init /\ [][Next]_vars

(***************************************************************************)
(* After a run that ended, however many were stopped before and whatever   *)
(* the core wrote meanwhile, no insert of the core meets a used id         *)
(* (migrate_sqlite_to_postgres.py:163-185; docs/change_log.md:14), except  *)
(* in a table where the core had an id above the MAX at setval: one it had *)
(* not committed when the MAX was read, or was given after.                *)
(***************************************************************************)
SequencesAhead == refused \subseteq slipped

(***************************************************************************)
(* A keyed table has every old row once, unless the core had used its id   *)
(* before it came, and no row of the core is lost to an old one            *)
(* (migrate_sqlite_to_postgres.py:145-160).                                *)
(***************************************************************************)
RowsKept ==
    \A t \in Keyed :
        /\ \A i \in Ids : new[t][i].old + new[t][i].core <= 1
        /\ ended => \A i \in old[t] : new[t][i].old = 1 \/ i \in taken[t]
        /\ \A i \in taken[t] : new[t][i].core = 1
-----------------------------------------------------------------------------
(***************************************************************************)
(* The inductive invariant behind SequencesAhead and RowsKept (CoreProofs) *)
(***************************************************************************)
TypeOK ==
    /\ old \in [TableNames -> SUBSET Ids]
    /\ new \in [TableNames -> [Ids -> Rows]]
    /\ pending \in [Keyed -> SUBSET Ids]
    /\ made \subseteq TableNames
    /\ sequence \in [Keyed -> Nat]
    /\ next \in Nat /\ ended \in BOOLEAN /\ top \in Nat \cup {Unread}
    /\ taken \in [TableNames -> SUBSET Ids]
    /\ refused \subseteq Keyed /\ slipped \subseteq Keyed

\* No run is in progress when one has ended.
EndedIsOver == ended => next = 0

\* An id of a keyed table is one row, the core's where the core was first.
IdsAreOnce ==
    \A t \in Keyed :
        /\ \A i \in Ids : new[t][i].old + new[t][i].core <= 1
        /\ \A i \in taken[t] : new[t][i].core = 1
        /\ pending[t] \cap Used(t) = {}

\* The run has done what is before its next table.
Migrated(t) == t \in made /\ \A i \in old[t] : new[t][i].old = 1 \/ i \in taken[t]
DoneAreMigrated ==
    \A t \in Keyed : (ended \/ \E k \in DOMAIN Tables : k < next /\ Tables[k] = t) => Migrated(t)

\* What the core will number next is above all there is, where a sequence was set.
IsSynced(t) == ended \/ \E k \in DOMAIN Tables : Len(Tables) + k < next /\ Tables[k] = t
Ahead ==
    \A t \in Keyed \ slipped : IsSynced(t) => \A i \in Used(t) \cup pending[t] : i < sequence[t]

IInv == TypeOK /\ EndedIsOver /\ IdsAreOnce /\ DoneAreMigrated /\ Ahead /\ SequencesAhead
===============================================================================
