------------------------- MODULE MCSimulatedNetwork -------------------------
(* Instances of SimulatedNetwork for TLC.                                   *)
EXTENDS SimulatedNetwork

CONSTANTS n1, n2

MCRule(destination, action, consuming) ==
    [ordinal |-> Unset, source |-> Unset, destination |-> destination,
     action |-> action, consuming |-> consuming, consumed |-> FALSE]

MCReorder == MCRule(Unset, [kind |-> "ReorderAtTick", tick |-> 1], FALSE)
MCDelay == MCRule(n2, [kind |-> "Delay", ticks |-> 1], TRUE)
MCDuplicate == MCRule(Unset, [kind |-> "Duplicate", additional_copies |-> 1], TRUE)
MCFlood == MCRule(n2, [kind |-> "Duplicate", additional_copies |-> MaxCopies], TRUE)
MCDrop == [MCRule(Unset, [kind |-> "Drop"], TRUE) EXCEPT !.ordinal = 2]

MCScript == {MCReorder, MCDelay, MCDuplicate, MCFlood, MCDrop}
MCCuts == {<<n1, n2>>}

=============================================================================
