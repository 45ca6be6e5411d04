---------------------------- MODULE SchemaHistory ----------------------------
(***************************************************************************)
(* What the contracts of a dataset promise: a history.  Version 1 is what  *)
(* was detected, every correction is applied to the newest version and     *)
(* becomes the next one, nothing is ever changed, and only deleting the    *)
(* dataset ends its history.  No correction is ever lost to another made   *)
(* at the same time.                                                       *)
(***************************************************************************)
EXTENDS Naturals

CONSTANTS
    Dataset,
    Column,
    Type,
    Edit,       \* corrections: functions from some columns to types
    None        \* what version 1 corrects

VARIABLES
    history,    \* the contracts, [dataset, version, columns, edit]
    gone        \* the deleted datasets

Of(d) == {c \in history : c.dataset = d}

Corrected(columns, e) ==
    [col \in Column |-> IF col \in DOMAIN e THEN e[col] ELSE columns[col]]

Init == history = {} /\ gone = {}

\* Ingest: the first contract of a new dataset.
Detect(d) ==
    /\ Of(d) = {} /\ d \notin gone
    /\ \E columns \in [Column -> Type] :
          history' = history \cup
              {[dataset |-> d, version |-> 1, columns |-> columns, edit |-> None]}
    /\ UNCHANGED gone

\* A correction of the newest contract.
Correct(d) ==
    /\ \E newest \in Of(d), e \in Edit :
          /\ \A c \in Of(d) : c.version <= newest.version
          /\ history' = history \cup
                {[dataset |-> d, version |-> newest.version + 1,
                  columns |-> Corrected(newest.columns, e), edit |-> e]}
    /\ UNCHANGED gone

\* Deletion: the whole history goes at once.
Withdraw(d) ==
    /\ d \notin gone
    /\ gone' = gone \cup {d}
    /\ history' = history \ Of(d)

Next == \E d \in Dataset : Detect(d) \/ Correct(d) \/ Withdraw(d)

Spec == Init /\ [][Next]_<<history, gone>>
=============================================================================
