------------------------------ MODULE Copilot ------------------------------
(***************************************************************************)
(* One copilot turn: the planner's loop (run_turn) over a ladder of        *)
(* providers (Cascade), pinned to whoever answers first (pin).             *)
(*                                                                         *)
(* A provider is an environment: asked, it proposes, is unavailable, with  *)
(* or without a wait it asks for, or refuses.  An action is the code       *)
(* between two awaits.                                                     *)
(***************************************************************************)
EXTENDS Naturals, Sequences, Functions

CONSTANTS
    Cloud,          \* vendors that are reached with a key
    Local,          \* the one that is not: ollama
    MaxOrder,       \* bound: names in llm_cascade
    MaxKeys,        \* bound: keys per vendor (three in Settings)
    Call,           \* the calls a model may propose
    Invalid,        \* those _check refuses
    Declined,       \* those the tool refuses when it runs
    MaxSteps,       \* MAX_STEPS
    MaxRetries,     \* MAX_ARG_RETRIES
    MaxWait,        \* MAX_RETRY_WAIT
    Wait,           \* what a provider may ask to wait; 0: it does not say
    Budget,         \* the token budget of a turn, or None
    MaxTokens,      \* bound: tokens of one proposal
    None

Vendor == Cloud \cup {Local}

ASSUME VendorAssumption == Local \notin Cloud /\ None \notin Vendor \cup Call
ASSUME CallAssumption ==
    Invalid \subseteq Call /\ Declined \subseteq Call /\ Invalid \cap Declined = {}
ASSUME BoundAssumption ==
    /\ MaxOrder \in Nat /\ MaxKeys \in Nat /\ MaxTokens \in Nat /\ MaxWait \in Nat
    /\ MaxSteps \in Nat \ {0} /\ MaxRetries \in Nat
    /\ Wait \subseteq Nat /\ 0 \in Wait /\ Budget \in Nat \cup {None}

VARIABLES
    localOnly,      \* the account's privacy mode is `local`
    order,          \* the vendors llm_cascade names
    ladder,         \* the rungs: <<place in that order, account>>
    answering,      \* those of this turn, the first one, and whether a cascade
    pinned,         \* whether that was narrowed to whoever answered
    pc,
    asked,          \* proposals asked for so far
    attempt,        \* of the two walks over the ladder, this one
    heard,          \* the rungs of this walk that failed, and their waits
    call,           \* the call that was proposed
    messages,       \* the transcript, after the question
    steps,          \* the calls that ran
    rejections,     \* the calls that were rejected
    spent,          \* tokens
    label,          \* the account a turn is attributed to: vendor and number
    ended           \* how it ended

turn == <<messages, steps, rejections>>
setup == <<localOnly, order, ladder>>
vars == <<setup, answering, pinned, pc, asked, attempt, heard, call, turn, spent,
          label, ended>>

Reason == {"answered", "budget", "unavailable", "refused", "retries", "steps", "crashed"}
Pair   == [call: Call, from: Vendor, verdict: {"result", "refusal"}]

TypeOK ==
    /\ localOnly \in BOOLEAN /\ pinned \in BOOLEAN
    /\ order \in Seq(Vendor) /\ ladder \subseteq (1..Len(order)) \X Nat
    /\ answering \in [first: ladder, rungs: SUBSET ladder, cascade: BOOLEAN]
    /\ pc \in {"head", "asking", "sleeping", "check", "run", "end"}
    /\ asked \in 0..MaxSteps /\ attempt \in {1, 2}
    /\ heard \subseteq [rung: answering.rungs, wait: Wait]
    /\ call \in Call \cup {None}
    /\ messages \in Seq(Pair) /\ steps \in Seq(Call) /\ rejections \in Seq(Call)
    /\ spent \in Nat
    /\ label \in (Vendor \X Nat) \cup {None}
    /\ ended \in Reason \cup {None}

-----------------------------------------------------------------------------
(* The ladder.                                                             *)

\* The accounts of a vendor: one without a key has none, `ollama` has one.
Accounts(v, keys) == IF v = Local THEN {1} ELSE 1..keys[v]

\* layers: all the keys of one vendor, then the next,
Layers(names, keys) ==
    {x \in (1..Len(names)) \X (1 .. 1 + MaxKeys) : x[2] \in Accounts(names[x[1]], keys)}
First(rungs) ==
    CHOOSE x \in rungs :
        \A y \in rungs : x[1] < y[1] \/ (x[1] = y[1] /\ x[2] <= y[2])

\* and the identity an answer carries, which a vendor named twice has twice.
Identity(x) == <<order[x[1]], x[2]>>

\* (Mutant: a turn goes on with the whole ladder.)
Unpinned(x) == answering

\* Cascade.pin: the rung that answered and the other accounts of its vendor;
\* with none, the client itself.
Pin(x) ==
    LET rungs == answering.rungs
        held  == First({y \in rungs : Identity(y) = Identity(x)})
        same  == {y \in rungs : order[y[1]] = order[held[1]]}
    IN  [first |-> held, rungs |-> same, cascade |-> same # {held}]

\* Cascade._pause: there is a wait that was asked for and is not too long.
Pause(waits) == \E w \in waits : 0 < w /\ w <= MaxWait

\* Settings name vendors and hold keys; a name nobody knows has no key.  In
\* local mode, and when nothing is configured, there is `ollama` alone.
Init ==
    /\ localOnly \in BOOLEAN
    /\ \E names \in UNION {[1..n -> Vendor] : n \in 0..MaxOrder},
          keys \in [Cloud -> 0..MaxKeys] :
            IF localOnly \/ Layers(names, keys) = {}
              THEN order = <<Local>> /\ ladder = {<<1, 1>>}
              ELSE order = names /\ ladder = Layers(names, keys)
    /\ answering = [first |-> First(ladder), rungs |-> ladder, cascade |-> TRUE]
    /\ pinned = FALSE
    /\ pc = "head" /\ asked = 0 /\ attempt = 1 /\ heard = {}
    /\ call = None
    /\ messages = <<>> /\ steps = <<>> /\ rejections = <<>>
    /\ spent = 0 /\ label = None /\ ended = None

End(reason) == pc' = "end" /\ ended' = reason

-----------------------------------------------------------------------------
(* Asking for a proposal.                                                  *)

\* (Mutant: a rejected proposal does not count as a step.)
AskForever ==
    /\ pc = "head"
    /\ IF Len(steps) = MaxSteps
         THEN End("steps") /\ UNCHANGED <<asked, attempt, heard>>
         ELSE /\ pc' = "asking" /\ asked' = asked + 1
              /\ attempt' = 1 /\ heard' = {}
              /\ UNCHANGED ended
    /\ UNCHANGED <<setup, answering, pinned, call, turn, spent, label>>

\* The head of run_turn's loop.
Ask ==
    /\ pc = "head"
    /\ IF asked = MaxSteps
         THEN End("steps") /\ UNCHANGED <<asked, attempt, heard>>
         ELSE IF Budget # None /\ spent >= Budget
         THEN End("budget") /\ UNCHANGED <<asked, attempt, heard>>
         ELSE /\ pc' = "asking" /\ asked' = asked + 1
              /\ attempt' = 1 /\ heard' = {}
              /\ UNCHANGED ended
    /\ UNCHANGED <<setup, answering, pinned, call, turn, spent, label>>

\* The rung whose turn it is in this walk.
Unheard == answering.rungs \ {h.rung : h \in heard}
Asking  == IF answering.first \in Unheard THEN answering.first ELSE First(Unheard)

Waiting == <<setup, answering, pinned, asked, call, turn, spent, label>>

\* (Mutant: every walk is the first.)
UnavailableAgain(wait) ==
    /\ pc = "asking"
    /\ heard' = heard \cup {[rung |-> Asking, wait |-> wait]}
    /\ IF ~answering.cascade THEN End("unavailable")
       ELSE IF Unheard # {Asking} THEN UNCHANGED <<pc, ended>>
       ELSE IF Pause({h.wait : h \in heard'})
       THEN pc' = "sleeping" /\ UNCHANGED ended
       ELSE End("unavailable")
    /\ UNCHANGED attempt /\ UNCHANGED Waiting

\* LLMUnavailable: a cascade asks the next rung and, when all have failed,
\* waits once if one of them asked it to; a client of its own gives up.
Unavailable(wait) ==
    /\ pc = "asking"
    /\ heard' = heard \cup {[rung |-> Asking, wait |-> wait]}
    /\ IF ~answering.cascade THEN End("unavailable")
       ELSE IF Unheard # {Asking} THEN UNCHANGED <<pc, ended>>
       ELSE IF attempt = 1 /\ Pause({h.wait : h \in heard'})
       THEN pc' = "sleeping" /\ UNCHANGED ended
       ELSE End("unavailable")
    /\ UNCHANGED attempt /\ UNCHANGED Waiting

Wake ==
    /\ pc = "sleeping"
    /\ pc' = "asking" /\ attempt' = 2 /\ heard' = {}
    /\ UNCHANGED ended /\ UNCHANGED Waiting

\* LLMRefused ends the turn.
Refused == pc = "asking" /\ End("refused") /\ UNCHANGED <<attempt, heard>> /\ UNCHANGED Waiting

\* A proposal: an answer, or a first call; those after it are not read.
Proposed(c, tokens) ==
    /\ pc = "asking"
    /\ spent' = spent + tokens
    /\ label' = Identity(Asking)
    /\ answering' = IF pinned THEN answering ELSE Pin(Asking)
    /\ pinned' = TRUE
    /\ heard' = {} /\ call' = c
    /\ IF c = None THEN End("answered") ELSE pc' = "check" /\ UNCHANGED ended
    /\ UNCHANGED <<setup, asked, attempt, turn>>

-----------------------------------------------------------------------------
(* A proposed call.                                                        *)

\* A call and what came of it, as they are replayed (_wire_message).
Exchange(verdict) == [call |-> call, from |-> label[1], verdict |-> verdict]

Silent == <<setup, answering, pinned, asked, attempt, heard, call, spent, label>>

\* (Mutant: the model is not told what it may not repeat.)
RejectSilently ==
    /\ rejections' = Append(rejections, call)
    /\ IF Len(rejections') > MaxRetries THEN End("retries") ELSE pc' = "head" /\ UNCHANGED ended
    /\ UNCHANGED <<messages, steps>>

\* Step 6: rejected with feedback, and retried twice.
Reject ==
    /\ rejections' = Append(rejections, call)
    /\ IF Len(rejections') > MaxRetries
         THEN End("retries") /\ UNCHANGED messages
         ELSE /\ pc' = "head" /\ messages' = Append(messages, Exchange("refusal"))
              /\ UNCHANGED ended
    /\ UNCHANGED steps

\* (Mutant: a call that was run is run again.)
Runnable(c) == c \notin Invalid

\* _check: a tool there is, with arguments it takes, that has not run yet.
Checks(c) == c \notin Invalid /\ c \notin Range(steps)

Check ==
    /\ pc = "check"
    /\ IF Checks(call) THEN pc' = "run" /\ UNCHANGED <<ended, turn>> ELSE Reject
    /\ UNCHANGED Silent

\* The executor's answer: a result, a tool's refusal, or an invariant broken.
Run ==
    /\ pc = "run"
    /\ IF call \in Declined THEN Reject
       ELSE /\ steps' = Append(steps, call)
            /\ messages' = Append(messages, Exchange("result"))
            /\ pc' = "head"
            /\ UNCHANGED <<rejections, ended>>
    /\ UNCHANGED Silent

Crash == pc = "run" /\ End("crashed") /\ UNCHANGED Silent /\ UNCHANGED turn

Next ==
    \/ Ask \/ Wake \/ Refused \/ Check \/ Run \/ Crash
    \/ \E wait \in Wait : Unavailable(wait)
    \/ \E c \in Call \cup {None}, tokens \in 0..MaxTokens :
          Proposed(c, tokens)

Spec == Init /\ [][Next]_vars

\* Every provider answers or times out, and the handler goes on.
FairSpec == Spec /\ WF_vars(Next)

-----------------------------------------------------------------------------
(* Properties.                                                             *)

\* A transcript is replayed only at the vendor that produced it, whichever
\* account answers (LLMClient.pin), and in local mode nobody but the local
\* model is asked (layers, D-076).
OneVendorPerTurn ==
    pc = "asking" =>
        /\ \A i \in 1..Len(messages) : messages[i].from = order[Asking[1]]
        /\ localOnly => order[Asking[1]] = Local

\* No call runs twice in a turn (_check).
NoCallRunsTwice == IsInjective(steps)

\* What came of these calls is in the transcript, once each and in order.
Told(transcript, calls, verdict) ==
    \E at \in [1..Len(calls) -> 1..Len(transcript)] :
        /\ \A i \in 1..Len(calls) : transcript[at[i]].call = calls[i]
        /\ \A i, j \in 1..Len(calls) : i < j => at[i] < at[j]
        /\ Range(at) = {m \in 1..Len(transcript) : transcript[m].verdict = verdict}

\* The model is shown what came of every call it proposed, each once and in
\* order, before it is asked again (run_turn).
ModelSeesEverything ==
    pc = "asking" =>
        /\ Len(messages) = asked - 1
        /\ Told(messages, steps, "result") /\ Told(messages, rejections, "refusal")
        /\ Len(steps) + Len(rejections) = asked - 1

\* The ladder waits only when every rung was tried and one of them asked for a
\* wait that is not too long (Cascade._pause).
WaitsAreAskedFor ==
    pc = "sleeping" =>
        /\ {h.rung : h \in heard} = answering.rungs
        /\ \E h \in heard : h.wait \in 1..MaxWait
        /\ attempt = 1

\* Whatever the providers and the model do, a turn ends.
TurnsEnd == <>(pc = "end")
=============================================================================
