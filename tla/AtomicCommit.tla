--------------------------- MODULE AtomicCommit ---------------------------
(***************************************************************************)
(* What a commit protocol promises, seen from the participants alone: a    *)
(* participant commits only when every participant has voted to, and       *)
(* aborts only while nobody has committed.  TwoPhaseCommit and             *)
(* ThreePhaseCommit are shown to implement it.                             *)
(***************************************************************************)
CONSTANT Participants

VARIABLE state     \* what each participant has done

Undecided == {"working", "prepared"}

Init == state = [p \in Participants |-> "working"]

Prepare(p) ==
    /\ state[p] = "working"
    /\ state' = [state EXCEPT ![p] = "prepared"]

Commit(p) ==
    /\ state[p] = "prepared"
    /\ \A q \in Participants : state[q] \in {"prepared", "committed"}
    /\ state' = [state EXCEPT ![p] = "committed"]

Abort(p) ==
    /\ state[p] \in Undecided
    /\ \A q \in Participants : state[q] # "committed"
    /\ state' = [state EXCEPT ![p] = "aborted"]

Next == \E p \in Participants : Prepare(p) \/ Commit(p) \/ Abort(p)

Spec == Init /\ [][Next]_state

===========================================================================
