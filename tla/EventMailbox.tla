---------------------------- MODULE EventMailbox ----------------------------
(***************************************************************************)
(* What a key driver promises its readers: one slot that holds the latest  *)
(* report of the key until a single read takes it, in one indivisible      *)
(* step.  A report may replace one nobody has read.                        *)
(***************************************************************************)
CONSTANTS
    Readers,               \* who may read the slot
    Reports,               \* what the key may report
    Nothing                \* the report that says nothing happened

VARIABLES
    slot,                  \* what the next read will be given
    latest,                \* the latest report
    inbox                  \* what each reader was given last

vars == <<slot, latest, inbox>>

TypeOK ==
    /\ slot \in Reports /\ latest \in Reports
    /\ inbox \in [Readers -> Reports]

Init ==
    /\ slot = Nothing /\ latest = Nothing
    /\ inbox = [r \in Readers |-> Nothing]

Report(e) ==
    /\ slot' = e /\ latest' = e
    /\ UNCHANGED inbox

\* A read takes what the slot holds and leaves Nothing in it.
Take(r) ==
    /\ inbox' = [inbox EXCEPT ![r] = slot]
    /\ slot' = Nothing
    /\ UNCHANGED latest

\* The copy to the reader faults: what the slot held is gone all the same.
Fault ==
    /\ slot' = Nothing
    /\ UNCHANGED <<latest, inbox>>

Next ==
    \/ \E e \in Reports : Report(e)
    \/ \E r \in Readers : Take(r)
    \/ Fault

Spec == Init /\ [][Next]_vars
=============================================================================
