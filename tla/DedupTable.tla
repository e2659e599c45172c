----------------------------- MODULE DedupTable -----------------------------
(***************************************************************************)
(* iron-core's DedupTable: bounded idempotency with FIFO eviction of       *)
(* completed entries, and its recovery.  The owner is single-threaded, so  *)
(* a call is one step.  begin, complete and abort calls that only report   *)
(* (InFlight, Replay, Conflict, Full, NotReserved, AlreadyCompleted,       *)
(* OutcomeTooLarge, SequenceExhausted) change nothing and are not steps.   *)
(* RequestPath gives the table its owner, its log and its restarts.        *)
(***************************************************************************)
EXTENDS Integers, Selection, Functions, FiniteSetsExt

CONSTANTS
    Keys,
    Fingerprints,
    Outcomes,
    Size,            \* the length of each outcome
    InFlight,        \* the state of a reservation that has no outcome yet
    MaxSequence      \* the largest insertion sequence (u64::MAX in the code)

ASSUME InFlightAssumption == InFlight \notin Outcomes
ASSUME SizeAssumption == Size \in [Outcomes -> Nat]
ASSUME SequenceAssumption == MaxSequence \in Nat

VARIABLES
    config,          \* max_entries, max_outcome, max_total
    table            \* entries, insertion_order, retained_outcome_bytes, last

Empty == [entries |-> << >>, order |-> << >>, bytes |-> 0, last |-> 0]

Present(T) == DOMAIN T.entries
Reserved(T, k) == k \in Present(T) /\ T.entries[k].state = InFlight
Completed(T, k) == k \in Present(T) /\ T.entries[k].state # InFlight

---------------------------------------------------------------------------
(* The algorithms, on a table value.                                       *)

(* Faulty: the in-flight filter of the eviction is missing.                *)
EvictableReserved(T, excluded) == {i \in DOMAIN T.order : T.order[i].key \notin excluded}

(* Where the completed entries other than the excluded key are queued.     *)
Evictable(T, excluded) ==
    {i \in DOMAIN T.order : T.order[i].key \notin excluded /\ Completed(T, T.order[i].key)}

(* The outcome bytes of some entries, one by one; a reservation has none.  *)
OutcomeBytes(T, keys) ==
    UNION {{k} \X (1 .. Size[T.entries[k].state]) : k \in {j \in keys : Completed(T, j)}}

BytesOf(T, keys) == Cardinality(OutcomeBytes(T, keys))

(* Faulty: an eviction does not give its bytes back.                       *)
EvictLeaks(T, positions) ==
    LET gone == {T.order[i].key : i \in positions}
    IN  [T EXCEPT !.entries = Restrict(@, Present(T) \ gone),
                  !.order = Keep(@, DOMAIN @ \ positions)]

(* What an eviction does at each position it selects.                      *)
Evict(T, positions) ==
    LET gone == {T.order[i].key : i \in positions}
    IN  [T EXCEPT !.entries = Restrict(@, Present(T) \ gone),
                  !.order = Keep(@, DOMAIN @ \ positions),
                  !.bytes = @ - BytesOf(T, gone)]

(* Faulty: eviction starts at the newest end.                              *)
EvictNewest(T, excluded, n) ==
    LET positions == Evictable(T, excluded)
    IN  Evict(T, positions \ First(positions, Cardinality(positions) - n))

(* n rounds of evict_oldest_completed, which take the first n positions.   *)
EvictOldest(T, excluded, n) ==
    Evict(T, First(Evictable(T, excluded), n))

(* begin returns New: the sequence is not exhausted, and an entry slot is  *)
(* free or can be freed.                                                   *)
Admits(T, k) ==
    /\ k \notin Present(T)
    /\ T.last < MaxSequence
    /\ Cardinality(Present(T)) < config.max_entries \/ Evictable(T, {}) # {}

(* What begin then does.                                                   *)
Reserve(T, k, f) ==
    LET surplus == Cardinality(Present(T)) - config.max_entries + 1
        E == EvictOldest(T, {}, surplus)
        entry == [fingerprint |-> f, seq |-> T.last + 1, state |-> InFlight]
    IN  [E EXCEPT !.entries = [j \in Present(E) \cup {k} |-> IF j = k THEN entry ELSE E.entries[j]],
                  !.order = Append(@, [seq |-> T.last + 1, key |-> k]),
                  !.last = @ + 1]

(* What complete does to a matching reservation and a valid outcome: evict *)
(* until the outcome fits, then store it.                                  *)
Store(T, k, outcome) ==
    LET Fits(n) == EvictOldest(T, {k}, n).bytes + Size[outcome] <= config.max_total
        E == EvictOldest(T, {k}, Min({n \in 0 .. Cardinality(Evictable(T, {k})) : Fits(n)}))
    IN  [E EXCEPT !.entries[k].state = outcome, !.bytes = @ + Size[outcome]]

(* Faulty: an outcome of exactly the limit is refused.                     *)
RestoreStrict(T, r) ==
    IF ~Admits(T, r.key) THEN T
    ELSE IF Size[r.outcome] < config.max_outcome
         THEN Store(Reserve(T, r.key, r.fingerprint), r.key, r.outcome)
         ELSE Reserve(T, r.key, r.fingerprint)

(* restore_completed: begin, then complete.  A record begin does not admit *)
(* is reported and skipped; an outcome over the limit is reported after    *)
(* its key is reserved.                                                    *)
Restore(T, r) ==
    IF ~Admits(T, r.key) THEN T
    ELSE IF Size[r.outcome] <= config.max_outcome
         THEN Store(Reserve(T, r.key, r.fingerprint), r.key, r.outcome)
         ELSE Reserve(T, r.key, r.fingerprint)

---------------------------------------------------------------------------
(* The calls that change the table.                                        *)

Begin(k, f) == Admits(table, k) /\ table' = Reserve(table, k, f)

Matches(k, f) == Reserved(table, k) /\ table.entries[k].fingerprint = f

Complete(k, f, outcome) ==
    /\ Matches(k, f)
    /\ Size[outcome] <= config.max_outcome
    /\ table' = Store(table, k, outcome)

(* Faulty: the key stays in insertion_order.                               *)
AbortKeepsOrder(k, f) ==
    /\ Matches(k, f)
    /\ table' = [table EXCEPT !.entries = Restrict(@, Present(table) \ {k})]

Abort(k, f) ==
    /\ Matches(k, f)
    /\ table' = [table EXCEPT
          !.entries = Restrict(@, Present(table) \ {k}),
          !.order = Keep(@, {i \in DOMAIN @ : @[i] # [seq |-> table.entries[k].seq, key |-> k]})]

---------------------------------------------------------------------------
(* insertion_order and entries stay two views of one table: every entry is *)
(* queued once, under its own sequence, and in increasing sequence, so     *)
(* eviction always finds what it looks for (the two expects of             *)
(* evict_oldest_completed).                                                *)
OrderMatchesEntries ==
    LET order == table.order
    IN  /\ {o.key : o \in Range(order)} = Present(table)
        /\ \A i \in DOMAIN order : order[i].seq = table.entries[order[i].key].seq
        /\ \A i, j \in DOMAIN order : i < j => order[i].seq < order[j].seq
        /\ \A i \in DOMAIN order : order[i].seq <= table.last

(* Both bounds of the configuration hold at all times, and the byte        *)
(* counter is exactly the retained outcomes' bytes, so that its            *)
(* subtraction never underflows and a valid outcome always fits after      *)
(* evictions.  The insertion sequence never passes its width.              *)
WithinBounds ==
    /\ Cardinality(Present(table)) <= config.max_entries
    /\ table.bytes = BytesOf(table, Present(table))
    /\ table.bytes <= config.max_total
    /\ table.last <= MaxSequence

===========================================================================
