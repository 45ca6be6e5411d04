----------------------------- MODULE AnswerCache -----------------------------
(***************************************************************************)
(* What the table of computations promises to whoever reads it: an answer, *)
(* once kept, is the answer to its question for as long as the dataset it  *)
(* is about exists.  There is no expiry, no eviction and no second answer; *)
(* only deleting the dataset takes answers away, all of its answers at     *)
(* once, and a deleted dataset is asked nothing any more.                  *)
(***************************************************************************)
CONSTANTS
    Dataset,
    Question,   \* records with a field `dataset`
    Answer

VARIABLES
    kept,       \* the answers, <<question, answer>>
    gone        \* the deleted datasets

About(d, S) == {qa \in S : qa[1].dataset = d}

OneAnswerEach(S) == \A x, y \in S : x[1] = y[1] => x = y

Init == kept = {} /\ gone = {}

\* A transaction commits: its answers join the ones that are there.
Keep ==
    /\ kept \subseteq kept' /\ kept' \subseteq Question \X Answer
    /\ OneAnswerEach(kept')
    /\ \A d \in gone : About(d, kept') = {}
    /\ UNCHANGED gone

\* A dataset is deleted and its answers with it.
Withdraw(d) ==
    /\ d \notin gone
    /\ gone' = gone \cup {d}
    /\ kept' = kept \ About(d, kept)

Next == Keep \/ \E d \in Dataset : Withdraw(d)

Spec == Init /\ [][Next]_<<kept, gone>>
=============================================================================
