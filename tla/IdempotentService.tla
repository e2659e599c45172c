------------------------- MODULE IdempotentService -------------------------
(***************************************************************************)
(* What a node promises its clients, with no table, log, failure or        *)
(* restart in sight: a key gets one outcome, which every retry gets again, *)
(* until the node forgets the key.  It may forget a key at any time, and   *)
(* then promises nothing of it.  RequestPath is shown to implement it.     *)
(***************************************************************************)
CONSTANTS Keys, Outcomes

VARIABLES
    answered,     \* which outcomes were announced under which keys
    forgotten     \* the keys nothing is promised of any more

svcVars == <<answered, forgotten>>

Init == answered = {} /\ forgotten = {}

Answer(k, outcome) ==
    /\ k \notin forgotten
    /\ \A a \in answered : a.key = k => a.outcome = outcome
    /\ answered' = answered \cup {[key |-> k, outcome |-> outcome]}
    /\ UNCHANGED forgotten

Forget(lost) ==
    /\ forgotten' = forgotten \cup lost
    /\ answered' = {a \in answered : a.key \notin lost}

Next ==
    \/ \E k \in Keys, outcome \in Outcomes : Answer(k, outcome)
    \/ \E lost \in SUBSET Keys : Forget(lost)

Spec == Init /\ [][Next]_svcVars

===========================================================================
