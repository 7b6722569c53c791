-------------------------- MODULE MCTwoPhaseCommit --------------------------
(***************************************************************************)
(* Small instances of TwoPhaseCommit for TLC.                              *)
(***************************************************************************)
EXTENDS TwoPhaseCommit, TLC

CONSTANTS w1, w2

\* mkdir and rmdir write on the CN too (RegisterLocalProcessFlag), on one
\* worker or on both; rename writes on workers and does not set the flag.
MkdirPlans == [parts: {{w1}, {w1, w2}}, localWrite: {TRUE}]

MkdirOnOne == [parts: {{w1}}, localWrite: {TRUE}]

RenamePlans == [parts: {{w1, w2}}, localWrite: {FALSE}]

OneWorkerRename == [parts: {{w1}}, localWrite: {FALSE}]

AllPlans == MkdirPlans \cup RenamePlans

RecoveryPlans == AllPlans \cup OneWorkerRename

Symmetry == Permutations(Txns) \cup Permutations(Backends)
=============================================================================
