---------------------------- MODULE AtomicCommit ----------------------------
(***************************************************************************)
(* What the distributed transactions of FalconFS promise: a transaction    *)
(* has one outcome, each server that takes part in it has a part, and the  *)
(* parts follow the outcome.  A step may move any number of transactions   *)
(* and parts at once, since a crash does.                                  *)
(***************************************************************************)
CONSTANTS Txns, Servers

VARIABLES
    outcome,      \* of each transaction
    part          \* of each server in each transaction

Outcomes == {"undecided", "committed", "aborted"}

PartStates == {"out", "working", "prepared", "applied", "discarded"}

Init ==
    /\ outcome = [t \in Txns |-> "undecided"]
    /\ part = [t \in Txns |-> [s \in Servers |-> "out"]]

\* An outcome is final, and commit needs every part to be prepared.
Decide(t) ==
    \/ outcome'[t] = outcome[t]
    \/ outcome[t] = "undecided" /\ outcome'[t] = "aborted"
    \/ /\ outcome[t] = "undecided" /\ outcome'[t] = "committed"
       /\ \A s \in Servers : part[t][s] \in {"out", "prepared"}

\* A part that is prepared waits for the outcome; one that is not may give up
\* by itself, but only while it can still do so.
Move(t, s) ==
    \/ part'[t][s] = part[t][s]
    \/ part[t][s] = "out" /\ part'[t][s] = "working" /\ outcome[t] = "undecided"
    \/ part[t][s] = "working" /\ part'[t][s] \in {"prepared", "discarded"}
    \/ /\ part[t][s] = "prepared" /\ part'[t][s] = "applied"
       /\ outcome[t] = "committed"
    \/ /\ part[t][s] = "prepared" /\ part'[t][s] = "discarded"
       /\ outcome[t] = "aborted"

Next ==
    /\ outcome' \in [Txns -> Outcomes]
    /\ part' \in [Txns -> [Servers -> PartStates]]
    /\ \A t \in Txns : Decide(t) /\ \A s \in Servers : Move(t, s)

Spec == Init /\ [][Next]_<<outcome, part>>
=============================================================================
