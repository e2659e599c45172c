---------------------------- MODULE MCMultiPaxos ----------------------------
(* Instances of MultiPaxos for TLC.                                         *)
EXTENDS MultiPaxos, TLC

CONSTANTS
    MaxAlone,       \* messages explored while one proposer has the field
    MaxRestarting,  \* the same for a proposer that may crash
    MaxContended    \* messages explored once several compete for one value

MCFewMessages ==
    \/ \E p \in Proposers :
          /\ Cardinality(msgs) <= IF p \in Crashing THEN MaxRestarting ELSE MaxAlone
          /\ \A n \in Proposers : round[n] > 0 => n = p
          /\ \A m \in Sent("Prepare") : m.from = p
    \/ /\ Cardinality(msgs) <= MaxContended
       /\ Cardinality({m.command : m \in Sent("Accept")}) <= 1

MCSymmetry == Permutations(Commands)

=============================================================================
