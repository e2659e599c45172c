---------------------------- MODULE DurableLog ----------------------------
(***************************************************************************)
(* What a write-ahead log promises to the code above it: an append-only    *)
(* sequence of records of which a prefix is durable.  A record past the    *)
(* durable prefix may be lost, with everything after it, at any time; a    *)
(* record inside the prefix is never lost, changed or given to another     *)
(* append.  Wal.tla is shown to implement this module.                     *)
(***************************************************************************)
EXTENDS Naturals, Sequences

CONSTANT Records

VARIABLES
    log,      \* the records a reader of the log would return, in order
    durable   \* how many of them a completed durability barrier covers

dlVars == <<log, durable>>

Init == log = << >> /\ durable = 0

(* One record is added; the barrier may be part of the append.             *)
Append1(r) ==
    /\ log' = Append(log, r)
    /\ durable' \in {durable, Len(log')}

(* A barrier covers everything appended so far.                            *)
Barrier ==
    /\ durable' = Len(log)
    /\ UNCHANGED log

(* A power loss keeps the durable prefix and some of the rest.             *)
Lose ==
    /\ \E k \in durable .. Len(log) : log' = SubSeq(log, 1, k)
    /\ UNCHANGED durable

Next == Barrier \/ Lose \/ \E r \in Records : Append1(r)

Spec == Init /\ [][Next]_dlVars

===========================================================================
