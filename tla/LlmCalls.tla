------------------------------- MODULE LlmCalls -------------------------------
(***************************************************************************)
(* The call of a model and its price: LLMInteractor.interact from the      *)
(* built context on, and LLMConnection (llm_api.py).                       *)
(*                                                                         *)
(* An actor has one connection, and its dialogues, one of each chat, share *)
(* the attributes payload and last_result.  What a coroutine does between  *)
(* two awaits is one action: it waits for the provider and for the file    *)
(* the answer is written to.  Each turn has a row of context_cache_metrics *)
(* (with the default sample, of all turns; its own errors, which are       *)
(* swallowed, are left out), each answer one of llm_usage.                 *)
(***************************************************************************)
EXTENDS Integers, Sequences

CONSTANTS
    Chats,
    None,
    Sizes,      \* sent_tokens of a context
    MaxCalls, MaxSecond, MaxFaults   \* bounds of the model

VARIABLES
    payload,    \* LLMConnection.payload: the turn it is for
    last,       \* LLMConnection.last_result: the turn it answers
    turn,       \* interact of each chat
    built,      \* chats with a fingerprint, which may be sent a DELTA_SAFE
    cycle,      \* _usage_cycle_state
    usage,      \* rows of llm_usage, with the turn they are of
    metrics,    \* rows of context_cache_metrics
    posted,     \* turns whose failure was posted to the chat
    calls, second, faults

shared == <<payload, last>>
rows == <<cycle, usage, metrics>>
vars == <<payload, last, turn, built, cycle, usage, metrics, posted, calls, second, faults>>

Idle == [pc |-> "idle", n |-> 0, mode |-> None, sent |-> 0, asked |-> None, retried |-> FALSE,
         text |-> None]

Init ==
    /\ payload = None /\ last = None
    /\ turn = [c \in Chats |-> Idle]
    /\ built = {} /\ cycle = [c \in Chats |-> None]
    /\ usage = <<>> /\ metrics = {} /\ posted = {}
    /\ calls = 0 /\ second = 0 /\ faults = 0

LlmError == 0   \* the text of any error: turns count from 1

Fault == faults < MaxFaults /\ faults' = faults + 1
At(c, pc) == turn[c].pc = pc

Tick ==
    /\ second < MaxSecond
    /\ second' = second + 1
    /\ UNCHANGED <<shared, turn, built, rows, posted, calls, faults>>

\* build_context has made a context and stored its fingerprint.
Build(c) ==
    /\ At(c, "idle") /\ calls < MaxCalls
    /\ calls' = calls + 1 /\ built' = built \cup {c}
    /\ \E sent \in Sizes, mode \in IF c \in built THEN {"FULL", "DELTA_SAFE"} ELSE {"FULL"} :
          turn' = [turn EXCEPT ![c] = [Idle EXCEPT !.pc = "built", !.n = calls + 1,
                                                   !.mode = mode, !.sent = sent]]
    /\ UNCHANGED <<shared, rows, posted, second, faults>>

\* Over the limit, or the search settings cannot be read: interact raises,
\* before its try.
Raises(c) ==
    /\ At(c, "built") /\ Fault
    /\ turn' = [turn EXCEPT ![c] = Idle]
    /\ UNCHANGED <<shared, built, rows, posted, calls, second>>

make_payload(c) == payload' = turn[c].n

\* The payload is made, and the request sent with what it holds.  A keyword that
\* the client does not know raises at once; the call is made again without it.
Call(c) ==
    /\ At(c, "built")
    /\ make_payload(c)
    /\ \E retried \in BOOLEAN :
          turn' = [turn EXCEPT ![c] = [turn[c] EXCEPT !.pc = "called", !.asked = payload',
                                                      !.retried = retried]]
    /\ UNCHANGED <<last, built, rows, posted, calls, second, faults>>

(***************************************************************************)
(* The answer, up to the file                                              *)
(***************************************************************************)
\* Mutant: the text is that of the result before.
get_text_before(before, result) == before

\* _process_result stores the result and reads the text back from the attribute.
get_text(before, result) == result

\* Mutant: the size stays that of the first context of the cycle.
Extended_first(st, sent) == [st EXCEPT !.step = st.step + 1]

Extended(st, sent) == [st EXCEPT !.step = st.step + 1, !.last = sent]

Begins(c) == turn[c].mode = "FULL" \/ cycle[c] = None

\* _usage_cycle_markers: a FULL begins a cycle, named by its second.
Cycled(c) ==
    IF Begins(c) THEN [id |-> <<c, second>>, last |-> turn[c].sent, step |-> 0]
    ELSE Extended(cycle[c], turn[c].sent)

\* What this context adds to the one before.
effective_sent_tokens(c) ==
    IF Begins(c) THEN turn[c].sent
    ELSE IF turn[c].sent > cycle[c].last THEN turn[c].sent - cycle[c].last ELSE 0

UsageRow(c) ==
    [n |-> turn[c].n, chat |-> c, sent |-> turn[c].sent, effective |-> effective_sent_tokens(c),
     cycle |-> Cycled(c).id, step |-> Cycled(c).step]

Metric(c, error) == [n |-> turn[c].n, error |-> error]

Measured(some) == metrics' = metrics \cup some

Answered(c) == last' = turn[c].asked /\ payload' = IF turn[c].retried THEN turn[c].n ELSE payload

Counted(c, text) ==
    /\ cycle' = [cycle EXCEPT ![c] = Cycled(c)]
    /\ Measured({Metric(c, FALSE)})
    /\ usage' = Append(usage, UsageRow(c))
    /\ turn' = [turn EXCEPT ![c] = [turn[c] EXCEPT !.pc = "writing", !.text = text]]
    /\ UNCHANGED <<built, posted, calls, second>>

Answer(c) ==
    /\ At(c, "called")
    /\ Answered(c)
    /\ Counted(c, get_text(last, turn[c].asked))
    /\ UNCHANGED faults

\* api_error_result: a text like any other, and counted.  An answer without
\* choices has been stored by then.
ProviderFails(c) ==
    /\ At(c, "called") /\ Fault
    /\ Answered(c) \/ UNCHANGED shared
    /\ Counted(c, LlmError)

\* The turn ends with a post of the error, and a metric of it.
Fails(c) ==
    /\ posted' = posted \cup {turn[c].n}
    /\ turn' = [turn EXCEPT ![c] = Idle]
    /\ Fault

\* The insert of the row raises after the cycle and the metric were written.
CountFails(c) ==
    /\ At(c, "called")
    /\ Answered(c) \/ UNCHANGED shared
    /\ cycle' = [cycle EXCEPT ![c] = Cycled(c)]
    /\ Measured({Metric(c, FALSE), Metric(c, TRUE)})
    /\ Fails(c)
    /\ UNCHANGED <<built, usage, calls, second>>

\* The file response-<actor>-<chat>.llm, then the text.
Return(c) ==
    /\ At(c, "writing")
    /\ turn' = [turn EXCEPT ![c] = Idle]
    /\ UNCHANGED <<shared, built, rows, posted, calls, second, faults>>

\* The answer is lost, its row stays.
WriteFails(c) ==
    /\ At(c, "writing")
    /\ Measured({Metric(c, TRUE)})
    /\ Fails(c)
    /\ UNCHANGED <<shared, built, cycle, usage, calls, second>>

\* Cycles and fingerprints are in memory.
Restart ==
    /\ second < MaxSecond /\ Fault
    /\ second' = second + 1
    /\ payload' = None /\ last' = None
    /\ turn' = [c \in Chats |-> Idle]
    /\ built' = {} /\ cycle' = [c \in Chats |-> None]
    /\ UNCHANGED <<usage, metrics, posted, calls>>

Next ==
    \/ Tick \/ Restart
    \/ \E c \in Chats :
        \/ Build(c) \/ Raises(c) \/ Call(c)
        \/ Answer(c) \/ ProviderFails(c) \/ CountFails(c)
        \/ Return(c) \/ WriteFails(c)

Spec == Init /\ [][Next]_vars

(***************************************************************************)
(* Properties                                                              *)
(***************************************************************************)
\* The text a dialogue gets is the answer to its own request, or an error,
\* although all dialogues of an actor write the same attributes.
AnswersItsOwn ==
    \A c \in Chats : At(c, "writing") =>
        turn[c].asked = turn[c].n /\ turn[c].text \in {turn[c].n, LlmError}

\* An answer that is returned has been measured, and counted once; a metric of an
\* error is of a turn whose error was posted.
CountedOnce ==
    /\ \A c \in Chats : At(c, "writing") =>
          Metric(c, FALSE) \in metrics /\ \E k \in DOMAIN usage : usage[k].n = turn[c].n
    /\ \A j, k \in DOMAIN usage : usage[j].n = usage[k].n => j = k
    /\ \A m \in metrics : m.error => m.n \in posted

\* Of two rows of a chat that follow each other, with no failed turn between
\* them, the later begins a cycle, or goes on with the earlier one's and counts
\* what its context has more.
EffectiveIsDifference ==
    \A k \in DOMAIN usage : \A j \in 1..(k - 1) :
        /\ usage[j].chat = usage[k].chat
        /\ \A i \in (j + 1)..(k - 1) : usage[i].chat # usage[k].chat
        /\ \A n \in posted : ~(usage[j].n < n /\ n < usage[k].n)
        => IF usage[k].step = 0 THEN usage[k].effective = usage[k].sent
           ELSE /\ usage[k].cycle = usage[j].cycle /\ usage[k].step = usage[j].step + 1
                /\ usage[k].effective =
                      IF usage[k].sent > usage[j].sent THEN usage[k].sent - usage[j].sent ELSE 0
-----------------------------------------------------------------------------
(***************************************************************************)
(* The inductive invariant behind AnswersItsOwn, CountedOnce and           *)
(* EffectiveIsDifference (CoreProofs)                                      *)
(***************************************************************************)
Cycles == [id : Chats \X Nat, last : Nat, step : Nat]
Turns ==
    [pc : {"idle", "built", "called", "writing"}, n : Nat, mode : {"FULL", "DELTA_SAFE", None},
     sent : Nat, asked : Nat \cup {None}, retried : BOOLEAN, text : Nat \cup {None}]
UsageRows ==
    [n : Nat, chat : Chats, sent : Nat, effective : Nat, cycle : Chats \X Nat, step : Nat]
TypeOK ==
    /\ turn \in [Chats -> Turns] /\ cycle \in [Chats -> Cycles \cup {None}]
    /\ usage \in Seq(UsageRows) /\ metrics \subseteq [n : Nat, error : BOOLEAN]
    /\ posted \subseteq Nat /\ calls \in Nat /\ second \in Nat

\* A turn has a number of its own, and a row from its answer on.
TurnsAreApart ==
    /\ \A c \in Chats : ~At(c, "idle") => turn[c].n \in 1..calls
    /\ \A c, d \in Chats : ~At(c, "idle") /\ ~At(d, "idle") /\ turn[c].n = turn[d].n => c = d
    /\ \A k \in DOMAIN usage : usage[k].n <= calls
    /\ \A c \in Chats : At(c, "called") => turn[c].asked = turn[c].n
NotYetCounted(c) == turn[c].pc \in {"built", "called"}
RowsAreOfThePast ==
    \A c \in Chats : NotYetCounted(c) =>
        \A k \in DOMAIN usage :
            usage[k].n # turn[c].n /\ (usage[k].chat = c => usage[k].n < turn[c].n)

\* The cycle of a chat is that of its last row, unless a turn between that row
\* and the next failed.
LastRow(c, k) == usage[k].chat = c /\ \A i \in DOMAIN usage : i > k => usage[i].chat # c
FailedSince(c, k) ==
    \E n \in posted : n > usage[k].n /\ n <= calls /\ (NotYetCounted(c) => n < turn[c].n)
CycleIsLast ==
    \A c \in Chats : \A k \in DOMAIN usage :
        LastRow(c, k) /\ cycle[c] # None =>
            \/ cycle[c] = [id |-> usage[k].cycle, last |-> usage[k].sent, step |-> usage[k].step]
            \/ FailedSince(c, k)

IInv ==
    /\ TypeOK /\ TurnsAreApart /\ RowsAreOfThePast /\ CycleIsLast
    /\ AnswersItsOwn /\ CountedOnce /\ EffectiveIsDifference
=============================================================================
