------------------------------- MODULE MCRaft -------------------------------
(* Instances of Raft for TLC.                                               *)
EXTENDS Raft, TLC

CONSTANT MaxMessages

MCFewMessages == Cardinality(msgs) <= MaxMessages

MCSymmetry == Permutations(Ticking) \cup Permutations(Nodes \ Ticking)

===========================================================================
