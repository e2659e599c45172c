-------------------------- MODULE SimulatedNetwork --------------------------
(***************************************************************************)
(* iron-testkit's SimulatedNetwork with its Driver, DeterministicClock and *)
(* FaultRule: the network the repository's own simulations run on.  It has *)
(* one owner (a mutex in SimulatedTransport), so a call is one step.  Of   *)
(* an envelope the routing matters: source, destination, and the ordinal   *)
(* of the attempt; the protocol and message type of a predicate filter     *)
(* like its source and destination and are left out.                       *)
(***************************************************************************)
EXTENDS Integers, Selection, SequencesExt, FiniteSetsExt

CONSTANTS
    Nodes,
    Unset,           \* an absent field of a predicate
    Script,          \* the rules a scenario may add
    Cuts,            \* the directed pairs a scenario may partition
    MaxRules, MaxAttempts,   \* bounds on the scenario
    MaxCopies,       \* the largest count of copies (u32::MAX in the code)
    MaxTick,         \* the largest tick (u64::MAX in the code)
    MaxSequence      \* the largest insertion sequence (u64::MAX in the code)

Tick == 0 .. MaxTick

ActionType ==
    [kind : {"Drop"}] \cup [kind : {"Duplicate"}, additional_copies : Nat]
        \cup [kind : {"Delay"}, ticks : Nat] \cup [kind : {"ReorderAtTick"}, tick : Tick]

RuleType ==
    [ordinal : Nat \cup {Unset}, source : Nodes \cup {Unset}, destination : Nodes \cup {Unset},
     action : ActionType, consuming : BOOLEAN, consumed : BOOLEAN]

ASSUME ScriptAssumption ==
    Unset \notin Nodes \cup Nat /\ \A r \in Script : r \in RuleType /\ ~r.consumed
ASSUME CutsAssumption == Cuts \subseteq Nodes \X Nodes
ASSUME BoundsAssumption ==
    {MaxRules, MaxAttempts, MaxCopies, MaxTick, MaxSequence} \subseteq Nat

VARIABLES
    now,             \* the clock
    nextSequence, queue,
    held, rules, partitions, crashed,
    attempts,        \* every send so far; last_ordinal is its length
    delivered,       \* history: what pop_delivery returned
    discarded        \* history: what was blocked at its delivery instant

vars == <<now, nextSequence, queue, held, rules, partitions, crashed,
          attempts, delivered, discarded>>

Envelope == [ordinal : 1 .. MaxAttempts, source : Nodes, destination : Nodes]
Scheduled == [tick : Tick, sequence : 0 .. MaxSequence - 1, event : Envelope]
HeldDelivery == [tick : Tick, envelope : Envelope]

Init ==
    /\ now = 0 /\ nextSequence = 0 /\ queue = {}
    /\ held = << >> /\ rules = << >>
    /\ partitions = {} /\ crashed = {}
    /\ attempts = << >> /\ delivered = << >> /\ discarded = {}

---------------------------------------------------------------------------
(* The scripted rules.                                                     *)

Matches(r, e) ==
    /\ r.ordinal \in {Unset, e.ordinal}
    /\ r.source \in {Unset, e.source}
    /\ r.destination \in {Unset, e.destination}

Live(e) == {i \in 1 .. Len(rules) : ~rules[i].consumed /\ Matches(rules[i], e)}

(* The rule that applies, 0 if none does.                                  *)
Matching(e) == IF Live(e) = {} THEN 0 ELSE Min(Live(e))

(* Faulty: every matching rule is used up, not just the applied one.       *)
TryMatchAll(e) ==
    rules' = [i \in 1 .. Len(rules) |->
                 IF i \in Live(e) /\ rules[i].consuming
                 THEN [rules[i] EXCEPT !.consumed = TRUE] ELSE rules[i]]

TryMatch(e) ==
    LET i == Matching(e)
    IN  rules' = IF i # 0 /\ rules[i].consuming
                 THEN [rules EXCEPT ![i].consumed = TRUE] ELSE rules

Blocked(e) == e.destination \in crashed \/ <<e.source, e.destination>> \in partitions

---------------------------------------------------------------------------
(* The queue.  Schedule inserts the events in order at one tick, up to the *)
(* first that is refused: a tick in the past, or no sequence left.         *)

(* Faulty: the sequence counter is not checked.                            *)
RoomUnchecked(tick) == IF tick < now THEN 0 ELSE MaxSequence - nextSequence + 1

Room(tick) == IF tick < now THEN 0 ELSE MaxSequence - nextSequence

Schedule(tick, events) ==
    LET n == Min({Len(events), Room(tick)})
    IN  /\ queue' = queue \cup {[tick |-> tick, sequence |-> nextSequence + i - 1,
                                 event |-> events[i]] : i \in 1 .. n}
        /\ nextSequence' = nextSequence + n

(* Faulty: of one tick, the last inserted comes first.                     *)
BeforeLifo(a, b) == a.tick < b.tick \/ (a.tick = b.tick /\ a.sequence > b.sequence)

Before(a, b) == a.tick < b.tick \/ (a.tick = b.tick /\ a.sequence < b.sequence)

---------------------------------------------------------------------------
(* The calls of a scenario.                                                *)

AddFault(r) ==
    /\ Len(rules) < MaxRules
    /\ rules' = Append(rules, r)
    /\ UNCHANGED <<now, nextSequence, queue, held, partitions, crashed,
                   attempts, delivered, discarded>>

Partition(pair) ==
    /\ partitions' = partitions \cup {pair}
    /\ UNCHANGED <<now, nextSequence, queue, held, rules, crashed,
                   attempts, delivered, discarded>>

Heal(pair) ==
    /\ partitions' = partitions \ {pair}
    /\ UNCHANGED <<now, nextSequence, queue, held, rules, crashed,
                   attempts, delivered, discarded>>

Crash(n) ==
    /\ crashed' = crashed \cup {n}
    /\ UNCHANGED <<now, nextSequence, queue, held, rules, partitions,
                   attempts, delivered, discarded>>

Restart(n) ==
    /\ crashed' = crashed \ {n}
    /\ UNCHANGED <<now, nextSequence, queue, held, rules, partitions,
                   attempts, delivered, discarded>>

(* The delay that leaves u64, the hold that lies in the past and the count *)
(* of copies that leaves u32 are refused; the attempt then counts, and its *)
(* rule is used up, all the same.                                          *)
Transmit(e, action) ==
    \/ /\ action.kind = "None"
       /\ Schedule(now, <<e>>) /\ UNCHANGED held
    \/ /\ action.kind = "Duplicate" /\ action.additional_copies + 1 <= MaxCopies
       /\ Schedule(now, [i \in 1 .. action.additional_copies + 1 |-> e]) /\ UNCHANGED held
    \/ /\ action.kind = "Delay" /\ now + action.ticks <= MaxTick
       /\ Schedule(now + action.ticks, <<e>>) /\ UNCHANGED held
    \/ /\ action.kind = "ReorderAtTick" /\ action.tick >= now
       /\ held' = Append(held, [tick |-> action.tick, envelope |-> e])
       /\ UNCHANGED <<queue, nextSequence>>
    \/ /\ \/ action.kind = "Drop"
          \/ action.kind = "Duplicate" /\ action.additional_copies + 1 > MaxCopies
          \/ action.kind = "Delay" /\ now + action.ticks > MaxTick
          \/ action.kind = "ReorderAtTick" /\ action.tick < now
       /\ UNCHANGED <<queue, nextSequence, held>>

Send(source, destination) ==
    LET e == [ordinal |-> Len(attempts) + 1, source |-> source, destination |-> destination]
        i == IF Blocked(e) THEN 0 ELSE Matching(e)
        kept == nextSequence' - nextSequence + Len(held') - Len(held)
    IN  /\ Len(attempts) < MaxAttempts
        /\ IF Blocked(e)
           THEN UNCHANGED <<queue, nextSequence, held, rules>>
           ELSE /\ TryMatch(e)
                /\ Transmit(e, IF i = 0 THEN [kind |-> "None"] ELSE rules[i].action)
        /\ attempts' = Append(attempts, [envelope |-> e, rule |-> i, copies |-> kept])
        /\ UNCHANGED <<now, partitions, crashed, delivered, discarded>>

(* The positions of what is held for a tick.                               *)
HeldFor(tick) == {i \in DOMAIN held : held[i].tick = tick}

(* Faulty: only the last held message of the tick is released.             *)
ReleaseReorderedAtLast(tick) ==
    LET releasing == Keep(held, HeldFor(tick))
    IN  /\ releasing # << >>
        /\ held' = Keep(held, DOMAIN held \ HeldFor(tick))
        /\ Schedule(tick, <<releasing[Len(releasing)].envelope>>)
        /\ UNCHANGED <<now, rules, partitions, crashed, attempts, delivered, discarded>>

(* What is held for the tick leaves the hold before it is scheduled, in    *)
(* reverse order.  When scheduling is refused, the rest is lost.           *)
ReleaseReorderedAt(tick) ==
    LET releasing == Reverse(Keep(held, HeldFor(tick)))
    IN  /\ releasing # << >>
        /\ held' = Keep(held, DOMAIN held \ HeldFor(tick))
        /\ Schedule(tick, [i \in 1 .. Len(releasing) |-> releasing[i].envelope])
        /\ UNCHANGED <<now, rules, partitions, crashed, attempts, delivered, discarded>>

Open == {c \in queue : ~Blocked(c.event)}

(* Faulty: the clock stays behind when the queue moves on.                 *)
PopDeliveryClockStays ==
    \E c \in Open :
        /\ \A d \in Open \ {c} : Before(c, d)
        /\ queue' = {d \in queue : Before(c, d)}
        /\ discarded' = discarded \cup {d \in queue : Before(d, c)}
        /\ delivered' = Append(delivered, c)
        /\ UNCHANGED <<now, nextSequence, held, rules, partitions, crashed, attempts>>

(* The first copy that is not blocked now is delivered; those before it    *)
(* are discarded.                                                          *)
PopDelivery ==
    \E c \in Open :
        /\ \A d \in Open \ {c} : Before(c, d)
        /\ queue' = {d \in queue : Before(c, d)}
        /\ discarded' = discarded \cup {d \in queue : Before(d, c)}
        /\ delivered' = Append(delivered, c)
        /\ now' = c.tick
        /\ UNCHANGED <<nextSequence, held, rules, partitions, crashed, attempts>>

(* Every copy is blocked: all are discarded, and nothing is returned.      *)
PopBlocked ==
    /\ queue # {} /\ Open = {}
    /\ queue' = {}
    /\ discarded' = discarded \cup queue
    /\ now' = Max({c.tick : c \in queue})
    /\ UNCHANGED <<nextSequence, held, rules, partitions, crashed, attempts, delivered>>

Next ==
    \/ \E r \in Script : AddFault(r)
    \/ \E pair \in Cuts : Partition(pair) \/ Heal(pair)
    \/ \E n \in Nodes : Crash(n) \/ Restart(n)
    \/ \E s, d \in Nodes : Send(s, d)
    \/ \E tick \in Tick : ReleaseReorderedAt(tick)
    \/ PopDelivery
    \/ PopBlocked

Spec == Init /\ [][Next]_vars

---------------------------------------------------------------------------
TypeOK ==
    /\ now \in Tick /\ nextSequence \in 0 .. MaxSequence
    /\ queue \subseteq Scheduled
    /\ held \in Seq(HeldDelivery) /\ rules \in Seq(RuleType)
    /\ partitions \subseteq Nodes \X Nodes /\ crashed \subseteq Nodes
    /\ attempts \in Seq([envelope : Envelope, rule : 0 .. MaxRules, copies : Nat])
    /\ delivered \in Seq(Scheduled) /\ discarded \subseteq Scheduled

(* Time never runs backwards for an observer (driver.rs:45, :124-134):     *)
(* deliveries come in the order of tick and insertion, and what is still   *)
(* queued, whenever it was sent, comes after all of them.                  *)
DeliveredInOrder ==
    /\ \A i, j \in 1 .. Len(delivered) : i < j => Before(delivered[i], delivered[j])
    /\ \A i \in 1 .. Len(delivered), c \in queue : Before(delivered[i], c)
    /\ \A c \in queue : c.tick >= now

(* Messages that no rule touches are delivered in the order they were sent *)
(* (network.rs:130-134), however the scenario delays and reorders others,  *)
(* cuts links and crashes nodes in between.                                *)
UnfaultedInOrder ==
    \A i, j \in 1 .. Len(delivered) :
        LET o(k) == delivered[k].event.ordinal
        IN  i < j /\ attempts[o(i)].rule = 0 /\ attempts[o(j)].rule = 0 => o(i) < o(j)

(* Every copy send scheduled or held is accounted for (network.rs:107-201):*)
(* it waits, was delivered, or was blocked at its delivery instant.  Only  *)
(* a held message may be missing, and only when its release was refused    *)
(* (too late, or no sequence number left).                                 *)
CopiesAccounted ==
    \A o \in 1 .. Len(attempts) :
        LET Of(S) == Cardinality({c \in S : c.event.ordinal = o})
            present == Of(queue) + Of(ToSet(delivered)) + Of(discarded)
                         + Cardinality({i \in 1 .. Len(held) : held[i].envelope.ordinal = o})
            rule == rules[attempts[o].rule].action
        IN  \/ present = attempts[o].copies
            \/ /\ present = 0 /\ attempts[o].rule # 0 /\ rule.kind = "ReorderAtTick"
               /\ (now > rule.tick \/ nextSequence = MaxSequence)

(* The first matching rule, and no other, is used up by an attempt, and by *)
(* one only (network.rs:41-42, fault.rs:85-95): a scenario with several    *)
(* one-shot rules injects each of its faults exactly once.                 *)
OneShotRules ==
    \A i \in 1 .. Len(rules) :
        LET used == {o \in 1 .. Len(attempts) : attempts[o].rule = i}
        IN  rules[i].consuming => Cardinality(used) = IF rules[i].consumed THEN 1 ELSE 0

=============================================================================
