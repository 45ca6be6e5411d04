--------------------------- MODULE CopilotProofs ---------------------------
(***************************************************************************)
(* Proofs about Copilot, for any vendors, names and keys, any calls, waits *)
(* and budgets, and any limits.                                            *)
(***************************************************************************)
EXTENDS Copilot, OrderLemmas

-----------------------------------------------------------------------------
(* The order of the ladder.                                                *)

\* Of some rungs one is first.
LEMMA FirstIsOne ==
  ASSUME NEW S \in SUBSET (Nat \X Nat), S # {} PROVE First(S) \in S
<1> DEFINE I == {x[1] : x \in S}
<1>1. PICK i \in I : \A j \in I : i <= j
  <2>1. I \in SUBSET Nat /\ I # {}
    OBVIOUS
  <2> HIDE DEF I
  <2> QED
    BY <2>1, LeastNumber
<1> DEFINE K == {x[2] : x \in {y \in S : y[1] = i}}
<1>2. PICK k \in K : \A j \in K : k <= j
  <2>1. K \in SUBSET Nat /\ K # {}
    BY <1>1
  <2> HIDE DEF K
  <2> QED
    BY <2>1, LeastNumber
<1>3. PICK x \in S : x[1] = i /\ x[2] = k
  BY <1>2
<1>4. \A y \in S : x[1] < y[1] \/ (x[1] = y[1] /\ x[2] <= y[2])
  <2> TAKE y \in S
  <2>1. i <= y[1] /\ (y[1] = i => k <= y[2])
    BY <1>1, <1>2
  <2> QED
    BY <1>3, <2>1
<1> QED
  BY <1>3, <1>4 DEF First

-----------------------------------------------------------------------------
(* Type correctness.  A walk has a rung left to ask, and a call that is    *)
(* looked at was proposed by somebody.                                     *)

Asked ==
    /\ answering.first \in answering.rungs
    /\ pc = "asking" => Unheard # {}
    /\ pc \in {"check", "run"} => call \in Call /\ label \in Vendor \X Nat

Basic == TypeOK /\ Asked

\* Rungs are pairs of numbers, and whoever is asked is one of them.
LEMMA AskingIsARung ==
  ASSUME Basic, pc = "asking" PROVE Asking \in Unheard /\ Asking \in answering.rungs
<1>1. Unheard \in SUBSET (Nat \X Nat) /\ Unheard # {} /\ Unheard \subseteq answering.rungs
  BY DEF Basic, TypeOK, Asked, Unheard
<1>2. First(Unheard) \in Unheard
  BY <1>1, FirstIsOne
<1> QED
  BY <1>1, <1>2 DEF Asking

\* The ladder has a rung, and the first is one.
LEMMA InitBasic == Init => Basic
<1> SUFFICES ASSUME Init PROVE Basic
  OBVIOUS
<1>1. PICK names \in UNION {[1..n -> Vendor] : n \in 0..MaxOrder},
           keys \in [Cloud -> 0..MaxKeys] :
        IF localOnly \/ Layers(names, keys) = {}
          THEN order = <<Local>> /\ ladder = {<<1, 1>>}
          ELSE order = names /\ ladder = Layers(names, keys)
  BY DEF Init
<1>2. order \in Seq(Vendor) /\ ladder \subseteq (1..Len(order)) \X Nat /\ ladder # {}
  <2>1. names \in Seq(Vendor)
    BY BoundAssumption
  <2>2. CASE order = <<Local>> /\ ladder = {<<1, 1>>}
    BY <2>2 DEF Vendor
  <2>3. CASE order = names /\ ladder = Layers(names, keys) /\ ladder # {}
    BY <2>1, <2>3, BoundAssumption DEF Layers
  <2> QED
    BY <1>1, <2>2, <2>3
<1>3. First(ladder) \in ladder
  BY <1>2, FirstIsOne
<1>4. answering = [first |-> First(ladder), rungs |-> ladder, cascade |-> TRUE]
  BY DEF Init
<1>5. TypeOK
  <2>1. answering \in [first: ladder, rungs: SUBSET ladder, cascade: BOOLEAN]
    BY <1>3, <1>4
  <2>2. /\ messages \in Seq(Pair) /\ steps \in Seq(Call) /\ rejections \in Seq(Call)
    BY DEF Init
  <2>3. heard \subseteq [rung: answering.rungs, wait: Wait]
    BY DEF Init
  <2>4. /\ localOnly \in BOOLEAN /\ pinned \in BOOLEAN
        /\ pc \in {"head", "asking", "sleeping", "check", "run", "end"}
    BY DEF Init
  <2>5. /\ asked \in 0..MaxSteps /\ attempt \in {1, 2} /\ call \in Call \cup {None}
        /\ spent \in Nat /\ label \in (Vendor \X Nat) \cup {None}
        /\ ended \in Reason \cup {None}
    <3>1. /\ asked = 0 /\ attempt = 1 /\ call = None
          /\ spent = 0 /\ label = None /\ ended = None
      BY DEF Init
    <3> QED
      BY <3>1, BoundAssumption
  <2> QED
    BY <1>2, <2>1, <2>2, <2>3, <2>4, <2>5 DEF TypeOK
<1>6. Asked
  BY <1>3, <1>4 DEF Init, Asked
<1> QED
  BY <1>5, <1>6 DEF Basic

\* A narrowed ladder is a ladder, all of one vendor.
LEMMA PinIsALadder ==
  ASSUME Basic, NEW x \in answering.rungs
  PROVE  /\ Pin(x) \in [first: ladder, rungs: SUBSET ladder, cascade: BOOLEAN]
         /\ Pin(x).first \in Pin(x).rungs
         /\ \A y \in Pin(x).rungs : order[y[1]] = order[x[1]]
<1> DEFINE R == {y \in answering.rungs : Identity(y) = Identity(x)}
<1>1. answering.rungs \subseteq ladder /\ ladder \subseteq (1..Len(order)) \X Nat
  BY DEF Basic, TypeOK
<1>2. R \in SUBSET (Nat \X Nat) /\ R # {}
  BY <1>1
<1>3. First(R) \in R
  <2> HIDE DEF R
  <2> QED
    BY <1>2, FirstIsOne
<1>4. order[First(R)[1]] = order[x[1]]
  BY <1>3 DEF Identity
<1> QED
  BY <1>1, <1>3, <1>4 DEF Pin

\* Every step keeps types, and asks somebody who is left.
LEMMA NextBasic == Basic /\ [Next]_vars => Basic'
<1> SUFFICES ASSUME Basic, [Next]_vars PROVE Basic'
  OBVIOUS
<1> USE BoundAssumption DEF Basic, setup, turn, End
<1>1. ASSUME Ask PROVE Basic'
  <2>1. TypeOK'
    BY <1>1 DEF Ask, TypeOK, Reason
  <2>2. pc' = "asking" => heard' = {}
    BY <1>1 DEF Ask
  <2>3. Asked'
    BY <1>1, <2>2 DEF Ask, Asked, Unheard
  <2> QED
    BY <2>1, <2>3
<1>2. ASSUME NEW wait \in Wait, Unavailable(wait) PROVE Basic'
  <2>1. Asking \in answering.rungs
    BY <1>2, AskingIsARung DEF Unavailable
  <2>2. heard' \subseteq [rung: answering.rungs, wait: Wait]
    BY <1>2, <2>1 DEF Unavailable, TypeOK
  <2>3. pc' = "asking" => Unheard # {Asking}
    BY <1>2 DEF Unavailable
  <2>4. TypeOK'
    BY <1>2, <2>2 DEF Unavailable, Waiting, TypeOK, Reason
  <2>5. Asked'
    BY <1>2, <2>3 DEF Unavailable, Waiting, Asked, Unheard
  <2> QED
    BY <2>4, <2>5
<1>3. ASSUME Wake \/ Refused PROVE Basic'
  BY <1>3 DEF Wake, Refused, Waiting, TypeOK, Asked, Unheard, Reason
<1>4. ASSUME NEW c \in Call \cup {None}, NEW tokens \in 0..MaxTokens, Proposed(c, tokens)
      PROVE  Basic'
  <2>1. Asking \in answering.rungs
    BY <1>4, AskingIsARung DEF Proposed
  <2>2. Identity(Asking) \in Vendor \X Nat
    BY <2>1 DEF Identity, TypeOK
  <2>3. /\ answering' \in [first: ladder, rungs: SUBSET ladder, cascade: BOOLEAN]
        /\ answering'.first \in answering'.rungs
    BY <1>4, <2>1, PinIsALadder DEF Proposed, TypeOK, Asked
  <2>4. spent' \in Nat
    BY <1>4 DEF Proposed, TypeOK
  <2>5. TypeOK'
    BY <1>4, <2>2, <2>3, <2>4 DEF Proposed, TypeOK, Reason
  <2>6. Asked'
    BY <1>4, <2>2, <2>3 DEF Proposed, Asked
  <2> QED
    BY <2>5, <2>6
<1>5. ASSUME Check \/ Run PROVE Basic'
  <2>1. pc \in {"check", "run"} /\ call \in Call /\ label \in Vendor \X Nat
    BY <1>5 DEF Check, Run, Asked, TypeOK
  <2>2. \A verdict \in {"result", "refusal"} : Exchange(verdict) \in Pair
    BY <2>1 DEF Exchange, Pair
  <2>3. /\ messages' \in Seq(Pair) /\ steps' \in Seq(Call) /\ rejections' \in Seq(Call)
        /\ pc' \in {"run", "head", "end"} /\ ended' \in Reason \cup {None}
    <3>1. messages \in Seq(Pair) /\ steps \in Seq(Call) /\ rejections \in Seq(Call)
      BY DEF TypeOK
    <3>2. CASE Reject
      <4>1. /\ rejections' = Append(rejections, call) /\ steps' = steps
            /\ messages' = messages \/ messages' = Append(messages, Exchange("refusal"))
            /\ pc' \in {"head", "end"} /\ ended' \in {ended, "retries"}
        BY <3>2 DEF Reject
      <4>2. ended \in Reason \cup {None}
        BY DEF TypeOK
      <4>3. messages' \in Seq(Pair)
        BY <2>2, <3>1, <4>1
      <4>4. rejections' \in Seq(Call) /\ steps' \in Seq(Call)
        BY <2>1, <3>1, <4>1
      <4> QED
        BY <4>1, <4>2, <4>3, <4>4 DEF Reason
    <3>3. CASE /\ pc' = "run" /\ UNCHANGED <<ended, turn>>
      BY <3>1, <3>3 DEF TypeOK
    <3>4. CASE /\ steps' = Append(steps, call) /\ messages' = Append(messages, Exchange("result"))
               /\ pc' = "head" /\ UNCHANGED <<rejections, ended>>
      BY <2>1, <2>2, <3>1, <3>4 DEF TypeOK
    <3> QED
      BY <1>5, <3>2, <3>3, <3>4 DEF Check, Run
  <2>5. TypeOK'
    BY <1>5, <2>3 DEF Check, Run, Silent, TypeOK
  <2>4. Asked'
    BY <1>5 DEF Check, Run, Reject, Silent, Asked, Unheard
  <2> QED
    BY <2>4, <2>5
<1>6. ASSUME Crash PROVE Basic'
  BY <1>6 DEF Crash, Silent, TypeOK, Asked, Unheard, Reason
<1>7. CASE UNCHANGED vars
  BY <1>7 DEF vars, TypeOK, Asked, Unheard
<1> QED
  BY <1>1, <1>2, <1>3, <1>4, <1>5, <1>6, <1>7 DEF Next

\* The turn, its ladder and its transcript keep their shape.
THEOREM TypeCorrect == Spec => []TypeOK
<1>1. Spec => []Basic
  BY InitBasic, NextBasic, PTL DEF Spec
<1>2. Basic => TypeOK
  BY DEF Basic
<1> QED
  BY <1>1, <1>2, PTL

-----------------------------------------------------------------------------
(* The inductive invariant.                                                *)

\* Whoever answered first answers to the end: the transcript is that vendor's,
\* and so is every rung that is left.
OneVendor ==
    /\ pc \in {"check", "run"} => pinned
    /\ pinned =>
          /\ label \in Vendor \X Nat
          /\ \A y \in answering.rungs : order[y[1]] = label[1]
    /\ ~pinned => messages = <<>>
    /\ \A i \in 1..Len(messages) : messages[i].from = label[1]

\* In local mode there is no other rung.
LocalOnly == localOnly => \A x \in ladder : order[x[1]] = Local

\* A call that is about to run has not run.
RunsOnce == IsInjective(steps) /\ (pc = "run" => call \notin Range(steps))

\* The transcript is one exchange behind the proposals while one is at work.
Transcript ==
    pc # "end" =>
        /\ Len(messages) = IF pc = "head" THEN asked ELSE asked - 1
        /\ Len(steps) + Len(rejections) = Len(messages)
        /\ Told(messages, steps, "result") /\ Told(messages, rejections, "refusal")

IInv == Basic /\ OneVendor /\ LocalOnly /\ RunsOnce /\ Transcript /\ WaitsAreAskedFor

\* An exchange that is added tells of one call more,
LEMMA ToldMore ==
  ASSUME NEW T \in Seq(Pair), NEW calls \in Seq(Call), NEW m \in Pair,
         Told(T, calls, m.verdict)
  PROVE  Told(Append(T, m), Append(calls, m.call), m.verdict)
<1> DEFINE n == Len(calls)
           U == Append(T, m)
<1>1. PICK at \in [1..n -> 1..Len(T)] :
        /\ \A i \in 1..n : T[at[i]].call = calls[i]
        /\ \A i, j \in 1..n : i < j => at[i] < at[j]
        /\ Range(at) = {k \in 1..Len(T) : T[k].verdict = m.verdict}
  BY DEF Told
<1> DEFINE on == [i \in 1..(n + 1) |-> IF i = n + 1 THEN Len(T) + 1 ELSE at[i]]
<1>2. /\ Len(U) = Len(T) + 1 /\ U[Len(T) + 1] = m /\ \A k \in 1..Len(T) : U[k] = T[k]
      /\ Len(Append(calls, m.call)) = n + 1 /\ Append(calls, m.call)[n + 1] = m.call
      /\ \A i \in 1..n : Append(calls, m.call)[i] = calls[i]
  OBVIOUS
<1>3. n \in Nat /\ Len(T) \in Nat
  OBVIOUS
<1> HIDE DEF n, U
<1>4. on \in [1..(n + 1) -> 1..(Len(T) + 1)]
  BY <1>1, <1>3
<1>5. \A i \in 1..(n + 1) : U[on[i]].call = Append(calls, m.call)[i]
  BY <1>1, <1>2, <1>3
<1>6. \A i, j \in 1..(n + 1) : i < j => on[i] < on[j]
  BY <1>1, <1>3
<1>7. Range(on) = {k \in 1..(Len(T) + 1) : U[k].verdict = m.verdict}
  <2>1. ASSUME NEW k \in Range(on)
        PROVE  k \in 1..(Len(T) + 1) /\ U[k].verdict = m.verdict
    <3>1. PICK i \in 1..(n + 1) : k = on[i]
      BY <2>1 DEF Range
    <3>2. CASE i = n + 1
      BY <1>2, <1>3, <3>1, <3>2
    <3>3. CASE i # n + 1
      <4>1. i \in 1..n /\ k = at[i]
        BY <1>3, <3>1, <3>3
      <4>2. k \in Range(at)
        BY <1>1, <4>1 DEF Range
      <4> QED
        BY <1>1, <1>2, <1>3, <4>2
    <3> QED
      BY <3>2, <3>3
  <2>2. ASSUME NEW k \in 1..(Len(T) + 1), U[k].verdict = m.verdict PROVE k \in Range(on)
    <3>1. CASE k = Len(T) + 1
      <4>1. n + 1 \in 1..(n + 1) /\ on[n + 1] = k
        BY <1>3, <3>1
      <4> QED
        BY <4>1 DEF Range
    <3>2. CASE k # Len(T) + 1
      <4>1. k \in 1..Len(T) /\ T[k].verdict = m.verdict
        BY <1>2, <1>3, <2>2, <3>2
      <4>2. PICK i \in 1..n : k = at[i]
        BY <1>1, <4>1 DEF Range
      <4>3. i \in 1..(n + 1) /\ on[i] = k
        BY <1>3, <4>2
      <4> QED
        BY <4>3 DEF Range
    <3> QED
      BY <3>1, <3>2
  <2> QED
    BY <2>1, <2>2
<1> HIDE DEF on
<1> QED
  BY <1>2, <1>4, <1>5, <1>6, <1>7 DEF Told, U

\* and of no other.
LEMMA ToldAsBefore ==
  ASSUME NEW T \in Seq(Pair), NEW calls \in Seq(Call), NEW m \in Pair, NEW verdict,
         verdict # m.verdict, Told(T, calls, verdict)
  PROVE  Told(Append(T, m), calls, verdict)
<1>1. PICK at \in [1..Len(calls) -> 1..Len(T)] :
        /\ \A i \in 1..Len(calls) : T[at[i]].call = calls[i]
        /\ \A i, j \in 1..Len(calls) : i < j => at[i] < at[j]
        /\ Range(at) = {k \in 1..Len(T) : T[k].verdict = verdict}
  BY DEF Told
<1>2. /\ Len(Append(T, m)) = Len(T) + 1 /\ Append(T, m)[Len(T) + 1] = m
      /\ \A k \in 1..Len(T) : Append(T, m)[k] = T[k]
      /\ Len(T) \in Nat
  OBVIOUS
<1> DEFINE U == Append(T, m)
<1> HIDE DEF U
<1>3. at \in [1..Len(calls) -> 1..Len(U)]
  BY <1>1, <1>2 DEF U
<1>4. {k \in 1..Len(U) : U[k].verdict = verdict} = {k \in 1..Len(T) : T[k].verdict = verdict}
  BY <1>2 DEF U
<1>5. \A i \in 1..Len(calls) : U[at[i]].call = calls[i]
  BY <1>1, <1>2 DEF U
<1>6. Told(U, calls, verdict)
  BY <1>1, <1>3, <1>4, <1>5 DEF Told
<1> QED
  BY <1>6 DEF U

-----------------------------------------------------------------------------
(* The parts of the invariant, step by step.                               *)

\* Before the first proposal there is nothing to tell, to repeat or to keep
\* with a vendor.
LEMMA InitRest == Init => OneVendor /\ LocalOnly /\ RunsOnce /\ Transcript /\ WaitsAreAskedFor
<1> SUFFICES ASSUME Init
             PROVE  OneVendor /\ LocalOnly /\ RunsOnce /\ Transcript /\ WaitsAreAskedFor
  OBVIOUS
<1>1. OneVendor /\ WaitsAreAskedFor
  BY DEF Init, OneVendor, WaitsAreAskedFor
<1>2. LocalOnly
  BY DEF Init, LocalOnly
<1>3. RunsOnce
  BY DEF Init, RunsOnce, IsInjective
<1>4. ASSUME NEW verdict PROVE Told(<<>>, <<>>, verdict)
  <2> DEFINE at == [i \in 1..0 |-> 0]
  <2>1. at \in [1..Len(<<>>) -> 1..Len(<<>>)]
    OBVIOUS
  <2>2. Range(at) = {m \in 1..Len(<<>>) : <<>>[m].verdict = verdict}
    BY DEF Range
  <2>3. /\ \A i \in 1..Len(<<>>) : <<>>[at[i]].call = <<>>[i]
        /\ \A i, j \in 1..Len(<<>>) : i < j => at[i] < at[j]
    OBVIOUS
  <2> HIDE DEF at
  <2> QED
    BY <2>1, <2>2, <2>3 DEF Told
<1>5. messages = <<>> /\ steps = <<>> /\ rejections = <<>> /\ pc = "head" /\ asked = 0
  BY DEF Init
<1>6. Transcript
  BY <1>4, <1>5 DEF Transcript
<1> QED
  BY <1>1, <1>2, <1>3, <1>6

\* The first answer narrows the ladder to its vendor, and every later one is of it.
LEMMA OneVendorStep ==
  ASSUME Basic, OneVendor, [Next]_vars PROVE OneVendor'
<1> USE DEF setup, turn, End
<1>1. ASSUME NEW c \in Call \cup {None}, NEW tokens \in 0..MaxTokens, Proposed(c, tokens)
      PROVE  OneVendor'
  <2>1. Asking \in answering.rungs /\ Identity(Asking) \in Vendor \X Nat
    BY <1>1, AskingIsARung DEF Proposed, Identity, Basic, TypeOK
  <2>2. label' = Identity(Asking) /\ label'[1] = order[Asking[1]] /\ pinned' /\ order' = order
    BY <1>1, <2>1 DEF Proposed, Identity
  <2>3. \A y \in answering'.rungs : order[y[1]] = order[Asking[1]]
    <3>1. CASE pinned
      BY <1>1, <2>1, <3>1 DEF Proposed, OneVendor
    <3>2. CASE ~pinned
      BY <1>1, <2>1, <3>2, PinIsALadder DEF Proposed
    <3> QED
      BY <3>1, <3>2
  <2>4. \A i \in 1..Len(messages) : messages[i].from = order[Asking[1]]
    BY <2>1 DEF OneVendor
  <2>5. messages' = messages
    BY <1>1 DEF Proposed
  <2> QED
    BY <2>1, <2>2, <2>3, <2>4, <2>5 DEF OneVendor
<1>2. ASSUME UNCHANGED <<order, answering, pinned, messages, label>>,
             pc' \in {"check", "run"} => pc \in {"check", "run"}
      PROVE  OneVendor'
  BY <1>2 DEF OneVendor
<1>3. ASSUME Check \/ Run, messages' # messages PROVE OneVendor'
  <2>1. /\ UNCHANGED <<order, answering, pinned, label>> /\ pinned
        /\ \E verdict : messages' = Append(messages, Exchange(verdict))
    BY <1>3 DEF Check, Run, Reject, Silent, OneVendor
  <2>2. PICK verdict : messages' = Append(messages, Exchange(verdict))
    BY <2>1
  <2>3. Exchange(verdict).from = label[1]
    BY DEF Exchange
  <2>4. messages \in Seq(Pair)
    BY DEF Basic, TypeOK
  <2>5. \A i \in 1..Len(messages') : messages'[i].from = label[1]
    BY <2>2, <2>3, <2>4 DEF OneVendor
  <2> QED
    BY <2>1, <2>5 DEF OneVendor
<1> QED
  BY <1>1, <1>2, <1>3
  DEF Next, Ask, Unavailable, Wake, Refused, Waiting, Check, Run, Reject, Crash,
      Silent, vars

\* The ladder is the turn's for as long as it lasts.
LEMMA LocalOnlyStep == LocalOnly /\ [Next]_vars => LocalOnly'
BY DEF LocalOnly, Next, Ask, Unavailable, Wake, Refused, Waiting, Proposed, Check, Run,
   Crash, Silent, setup, vars

\* What is checked has not run, and it runs before anything else is checked.
LEMMA RunsOnceStep == Basic /\ RunsOnce /\ [Next]_vars => RunsOnce'
<1> SUFFICES ASSUME Basic, RunsOnce, [Next]_vars PROVE RunsOnce'
  OBVIOUS
<1> USE DEF setup, turn, End
<1>1. steps \in Seq(Call)
  BY DEF Basic, TypeOK
<1>2. ASSUME Run, steps' = Append(steps, call), pc' = "head" PROVE RunsOnce'
  <2>1. \A i \in 1..Len(steps) : steps[i] # call
    BY <1>1, <1>2 DEF Run, RunsOnce, Range
  <2>2. call \in Call
    BY <1>2 DEF Run, Basic, Asked
  <2>3. /\ DOMAIN steps' = 1..(Len(steps) + 1) /\ steps'[Len(steps) + 1] = call
        /\ \A i \in 1..Len(steps) : steps'[i] = steps[i]
    BY <1>1, <1>2, <2>2
  <2>4. \A i, j \in 1..Len(steps) : steps[i] = steps[j] => i = j
    BY <1>1 DEF RunsOnce, IsInjective
  <2>5. IsInjective(steps')
    BY <1>1, <2>1, <2>3, <2>4 DEF IsInjective
  <2> QED
    BY <1>2, <2>5 DEF RunsOnce
<1>3. ASSUME steps' = steps, pc' # "run" PROVE RunsOnce'
  BY <1>3 DEF RunsOnce
<1>4. ASSUME Check, pc' = "run" PROVE RunsOnce'
  BY <1>4 DEF Check, Checks, Reject, Silent, RunsOnce
<1> QED
  BY <1>2, <1>3, <1>4
  DEF Next, Ask, Unavailable, Wake, Refused, Waiting, Proposed, Check, Run, Reject,
      Crash, Silent, vars, RunsOnce

\* A call is told of with what came of it, before anybody is asked again.
LEMMA TranscriptStep == Basic /\ Transcript /\ [Next]_vars => Transcript'
<1> SUFFICES ASSUME Basic, Transcript, [Next]_vars, pc' # "end" PROVE Transcript'
  BY DEF Transcript
<1> USE DEF setup, turn, End
<1>1. /\ messages \in Seq(Pair) /\ steps \in Seq(Call) /\ rejections \in Seq(Call)
      /\ asked \in Nat
  BY BoundAssumption DEF Basic, TypeOK
<1>2. ASSUME Ask PROVE Transcript'
  BY <1>1, <1>2 DEF Ask, Transcript
<1>3. ASSUME UNCHANGED <<turn, asked>>, pc' = "head" <=> pc = "head", pc # "end"
      PROVE  Transcript'
  BY <1>3 DEF Transcript
<1>4. ASSUME Check \/ Run, pc' = "head" PROVE Transcript'
  <2>1. pc \in {"check", "run"} /\ call \in Call /\ label \in Vendor \X Nat /\ asked' = asked
    BY <1>4 DEF Check, Run, Silent, Basic, Asked
  <2>2. \A verdict \in {"result", "refusal"} :
          /\ Exchange(verdict) \in Pair
          /\ Exchange(verdict).verdict = verdict /\ Exchange(verdict).call = call
    BY <2>1 DEF Exchange, Pair
  <2>3. /\ Len(messages) = asked - 1 /\ Len(steps) + Len(rejections) = Len(messages)
        /\ Told(messages, steps, "result") /\ Told(messages, rejections, "refusal")
    BY <2>1 DEF Transcript
  <2>4. CASE /\ rejections' = Append(rejections, call) /\ steps' = steps
             /\ messages' = Append(messages, Exchange("refusal"))
    <3>1. Told(messages', steps', "result")
      BY <1>1, <2>2, <2>3, <2>4, ToldAsBefore
    <3>2. Told(messages', rejections', "refusal")
      BY <1>1, <2>2, <2>3, <2>4, ToldMore
    <3>3. Len(messages') = asked /\ Len(steps') + Len(rejections') = Len(messages')
      BY <1>1, <2>1, <2>2, <2>3, <2>4
    <3> QED
      BY <1>4, <2>1, <3>1, <3>2, <3>3 DEF Transcript
  <2>5. CASE /\ steps' = Append(steps, call) /\ rejections' = rejections
             /\ messages' = Append(messages, Exchange("result"))
    <3>1. Told(messages', rejections', "refusal")
      BY <1>1, <2>2, <2>3, <2>5, ToldAsBefore
    <3>2. Told(messages', steps', "result")
      BY <1>1, <2>2, <2>3, <2>5, ToldMore
    <3>3. Len(messages') = asked /\ Len(steps') + Len(rejections') = Len(messages')
      BY <1>1, <2>1, <2>2, <2>3, <2>5
    <3> QED
      BY <1>4, <2>1, <3>1, <3>2, <3>3 DEF Transcript
  <2> QED
    BY <1>4, <2>4, <2>5 DEF Check, Run, Reject
<1> QED
  BY <1>2, <1>3, <1>4
  DEF Next, Unavailable, Wake, Refused, Waiting, Proposed, Check, Run, Reject, Crash,
      Silent, vars

\* The cascade sleeps when its first walk has failed on every rung.
LEMMA WaitsStep == Basic /\ WaitsAreAskedFor /\ [Next]_vars => WaitsAreAskedFor'
<1> SUFFICES ASSUME Basic, WaitsAreAskedFor, [Next]_vars, pc' = "sleeping"
             PROVE  WaitsAreAskedFor'
  BY DEF WaitsAreAskedFor
<1> USE DEF End
<1>1. ASSUME NEW wait \in Wait, Unavailable(wait) PROVE WaitsAreAskedFor'
  <2>1. /\ attempt = 1 /\ Unheard = {Asking} /\ Pause({h.wait : h \in heard'})
        /\ heard' = heard \cup {[rung |-> Asking, wait |-> wait]}
        /\ UNCHANGED <<attempt, answering>>
    BY <1>1 DEF Unavailable, Waiting
  <2>2. {h.rung : h \in heard'} = {h.rung : h \in heard} \cup {Asking}
    <3> DEFINE last == [rung |-> Asking, wait |-> wait]
    <3>1. last.rung = Asking /\ heard' = heard \cup {last}
      BY <2>1
    <3> HIDE DEF last
    <3> QED
      BY <3>1
  <2>3. {h.rung : h \in heard} \subseteq answering.rungs
    BY DEF Basic, TypeOK
  <2>4. {h.rung : h \in heard'} = answering.rungs
    BY <2>1, <2>2, <2>3 DEF Unheard
  <2>5. PICK h \in heard' : 0 < h.wait /\ h.wait <= MaxWait
    BY <2>1 DEF Pause
  <2>6. h.wait \in Nat
    BY <1>1, <2>1, <2>5, BoundAssumption DEF Basic, TypeOK
  <2>7. h.wait \in 1..MaxWait
    BY <2>5, <2>6, BoundAssumption
  <2> QED
    BY <2>1, <2>4, <2>5, <2>7 DEF WaitsAreAskedFor
<1>2. CASE UNCHANGED vars
  BY <1>2 DEF vars, WaitsAreAskedFor
<1> QED
  BY <1>1, <1>2
  DEF Next, Ask, Wake, Refused, Proposed, Check, Run, Reject, Crash

\* The invariant holds of every turn.
THEOREM InductiveInvariant == Spec => []IInv
<1>1. Init => IInv
  BY InitBasic, InitRest DEF IInv
<1>2. IInv /\ [Next]_vars => IInv'
  BY NextBasic, OneVendorStep, LocalOnlyStep, RunsOnceStep, TranscriptStep, WaitsStep
  DEF IInv
<1> QED
  BY <1>1, <1>2, PTL DEF Spec

\* A transcript goes to the vendor it came from, and in local mode nowhere.
THEOREM TheTurnStaysWithItsVendor == Spec => []OneVendorPerTurn
<1>1. IInv => OneVendorPerTurn
  <2> SUFFICES ASSUME IInv, pc = "asking" PROVE OneVendorPerTurn
    BY DEF OneVendorPerTurn
  <2>1. Asking \in answering.rungs /\ answering.rungs \subseteq ladder
    BY AskingIsARung DEF IInv, Basic, TypeOK
  <2>2. localOnly => order[Asking[1]] = Local
    BY <2>1 DEF IInv, LocalOnly
  <2>3. \A i \in 1..Len(messages) : messages[i].from = order[Asking[1]]
    BY <2>1 DEF IInv, OneVendor
  <2> QED
    BY <2>2, <2>3 DEF OneVendorPerTurn
<1> QED
  BY <1>1, InductiveInvariant, PTL

\* No call runs twice, however often it is proposed.
THEOREM EveryCallRunsOnce == Spec => []NoCallRunsTwice
<1>1. IInv => NoCallRunsTwice
  BY DEF IInv, RunsOnce, NoCallRunsTwice
<1> QED
  BY <1>1, InductiveInvariant, PTL

\* Whoever is asked is shown every call so far and what came of it.
THEOREM NothingIsKeptFromTheModel == Spec => []ModelSeesEverything
<1>1. IInv => ModelSeesEverything
  BY DEF IInv, Transcript, ModelSeesEverything
<1> QED
  BY <1>1, InductiveInvariant, PTL

\* No wait that nobody asked for, and none before everybody was tried.
THEOREM NoNeedlessWait == Spec => []WaitsAreAskedFor
<1>1. IInv => WaitsAreAskedFor
  BY DEF IInv
<1> QED
  BY <1>1, InductiveInvariant, PTL
=============================================================================
