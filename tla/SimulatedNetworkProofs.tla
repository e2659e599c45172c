----------------------- MODULE SimulatedNetworkProofs -----------------------
(***************************************************************************)
(* Proofs about SimulatedNetwork, for every set of nodes, script of rules  *)
(* and bound on the clock, the insertion sequence and the scenario.        *)
(*                                                                         *)
(* The argument: every copy carries an insertion sequence of its own and   *)
(* no call moves the clock back, so the copies scheduled from now on come  *)
(* after all that were delivered; a message that no rule touched is        *)
(* scheduled at the tick of its sending; and a call moves a copy or a held *)
(* message from one place to exactly one other, or refuses its release.    *)
(* The lemmas about Keep are those of RequestPathProofs.                   *)
(***************************************************************************)
EXTENDS SimulatedNetwork, FiniteSetTheorems, WellFoundedInduction, TLAPS

---------------------------------------------------------------------------
(* The inductive invariant.                                                *)

(* Every copy that was ever scheduled.                                     *)
Arrived == {delivered[i] : i \in DOMAIN delivered}
Known == queue \cup Arrived \cup discarded

(* No two copies have a sequence number, and no copy is in two places.     *)
Numbered ==
    /\ IsFiniteSet(queue) /\ IsFiniteSet(discarded)
    /\ \A c \in Known : c.sequence < nextSequence
    /\ \A c, d \in Known : c.sequence = d.sequence => c = d
    /\ \A c \in queue : c \notin Arrived /\ c \notin discarded
    /\ \A c \in Arrived : c \notin discarded

(* What was delivered was due.                                             *)
Due == \A i \in DOMAIN delivered : delivered[i].tick <= now

(* Only what was attempted is on its way, under rules that were added.     *)
Attempted ==
    /\ Len(rules) <= MaxRules /\ Len(attempts) <= MaxAttempts
    /\ \A c \in Known : c.event.ordinal <= Len(attempts)
    /\ \A i \in DOMAIN held : held[i].envelope.ordinal <= Len(attempts)
    /\ \A o \in DOMAIN attempts : attempts[o].rule <= Len(rules)

Plain(c) == attempts[c.event.ordinal].rule = 0

(* The one copy of a message that no rule touched is due at once, and      *)
(* comes before those of later messages that no rule touched.              *)
PlainInOrder ==
    \A c \in queue \cup Arrived : Plain(c) =>
        /\ c.tick <= now
        /\ \A d \in queue \cup Arrived : Plain(d) =>
              /\ c.event.ordinal < d.event.ordinal => Before(c, d)
              /\ c.event.ordinal = d.event.ordinal => c = d

(* What the rule of an attempt asked for.                                  *)
ActionOf(o) == rules[attempts[o].rule].action

(* A held message is held once, as its rule asked, and has no copy yet.    *)
HeldSound ==
    \A i \in DOMAIN held :
        LET o == held[i].envelope.ordinal
        IN  /\ attempts[o].rule # 0 /\ attempts[o].copies = 1
            /\ ActionOf(o).kind = "ReorderAtTick" /\ ActionOf(o).tick = held[i].tick
            /\ \A c \in Known : c.event.ordinal # o
            /\ \A j \in DOMAIN held : held[j].envelope.ordinal = o => i = j

(* A rule is used up exactly when some attempt used it, and by that alone. *)
UsedOnce ==
    /\ \A o \in DOMAIN attempts :
          LET i == attempts[o].rule
          IN  i # 0 /\ rules[i].consuming =>
                 /\ rules[i].consumed
                 /\ \A p \in DOMAIN attempts : attempts[p].rule = i => o = p
    /\ \A i \in DOMAIN rules : rules[i].consumed => \E o \in DOMAIN attempts : attempts[o].rule = i

CopiesOf(o) == {c \in Known : c.event.ordinal = o}
IsHeld(o) == \E i \in DOMAIN held : held[i].envelope.ordinal = o

(* The release of a held message was refused.                              *)
Lost(o) ==
    /\ attempts[o].rule # 0 /\ ActionOf(o).kind = "ReorderAtTick"
    /\ now > ActionOf(o).tick \/ nextSequence = MaxSequence

Accounted ==
    \A o \in DOMAIN attempts :
        \/ IsHeld(o)
        \/ Cardinality(CopiesOf(o)) = attempts[o].copies
        \/ CopiesOf(o) = {} /\ Lost(o)

NetworkInv ==
    /\ TypeOK /\ Numbered /\ DeliveredInOrder /\ Due /\ Attempted
    /\ PlainInOrder /\ HeldSound /\ UsedOnce /\ Accounted

---------------------------------------------------------------------------
(* Keeping part of a sequence.                                             *)

(* The ranks of some positions of a sequence number them from 1 in order.  *)
LEMMA RankNumbers ==
    ASSUME NEW n \in Nat, NEW P \in SUBSET (1 .. n)
    PROVE  /\ IsFiniteSet(P) /\ Cardinality(P) \in Nat
           /\ \A i \in P : Rank(P, i) \in 1 .. Cardinality(P)
           /\ \A i, j \in P : i < j => Rank(P, i) < Rank(P, j)
           /\ \A r \in 1 .. Cardinality(P) : \E i \in P : Rank(P, i) = r
<1>1. IsFiniteSet(P) /\ Cardinality(P) \in Nat
  <2>1. IsFiniteSet(1 .. n)
    BY FS_Interval
  <2>2. IsFiniteSet(P)
    BY <2>1, FS_Subset
  <2> QED
    BY <2>2, FS_CardinalityType
<1>2. \A i \in P : \E B : Rank(P, i) = Cardinality(B) /\ B = {j \in P : j <= i}
  BY DEF Rank
<1>3. ASSUME NEW i \in P
      PROVE  Rank(P, i) \in 1 .. Cardinality(P)
  <2>1. PICK B : Rank(P, i) = Cardinality(B) /\ B = {j \in P : j <= i}
    BY <1>2
  <2>2. B \in SUBSET P /\ i \in B
    BY <2>1
  <2>3. Cardinality(B) \in Nat /\ Cardinality(B) <= Cardinality(P) /\ IsFiniteSet(B)
    BY <1>1, <2>2, FS_Subset, FS_CardinalityType
  <2>4. Cardinality(B) # 0
    BY <2>2, <2>3, FS_EmptySet
  <2> QED
    BY <1>1, <2>1, <2>3, <2>4
<1>4. ASSUME NEW i \in P, NEW j \in P, i < j
      PROVE  Rank(P, i) < Rank(P, j)
  <2>1. PICK A : Rank(P, i) = Cardinality(A) /\ A = {x \in P : x <= i}
    BY <1>2
  <2>2. PICK B : Rank(P, j) = Cardinality(B) /\ B = {x \in P : x <= j}
    BY <1>2
  <2>3. /\ \A x : x \in A <=> x \in P /\ x <= i
        /\ \A x : x \in B <=> x \in P /\ x <= j
    BY <2>1, <2>2
  <2>4. A \in SUBSET B /\ j \in B /\ j \notin A /\ B \in SUBSET P
    <3>1. \A x \in P : x \in Nat
      OBVIOUS
    <3>2. \A x \in P : x <= i => x <= j
      BY <1>4, <3>1
    <3>3. j \in B /\ j \notin A
      BY <1>4, <2>3, <3>1
    <3> QED
      BY <2>3, <3>2, <3>3
  <2>5. IsFiniteSet(B)
    BY <1>1, <2>4, FS_Subset
  <2>6. Cardinality(A) <= Cardinality(B) /\ Cardinality(A) # Cardinality(B)
    BY <2>4, <2>5, FS_Subset
  <2> QED
    BY <1>3, <2>1, <2>2, <2>6
<1>5. ASSUME NEW r \in 1 .. Cardinality(P)
      PROVE  \E i \in P : Rank(P, i) = r
  <2> DEFINE N == 1 .. Cardinality(P)
             f == [i \in P |-> Rank(P, i)]
  <2>1. f \in [P -> N]
    BY <1>3
  <2>2. \A i, j \in P : f[i] = f[j] => i = j
    BY <1>3, <1>4
  <2>3. f \in Injection(P, N)
    BY <2>1, <2>2 DEF Injection, IsInjective
  <2>4. IsFiniteSet(N) /\ Cardinality(N) = Cardinality(P)
    BY <1>1, FS_Interval
  <2>5. f \in Surjection(P, N)
    BY <2>3, <2>4, FS_Injection
  <2> QED
    BY <2>5 DEF Surjection
<1> QED
  BY <1>1, <1>3, <1>4, <1>5

(* Keep returns the elements at the positions, each once, in order.        *)
LEMMA KeepIs ==
    ASSUME NEW S, NEW s \in Seq(S), NEW P \in SUBSET DOMAIN s
    PROVE  /\ Keep(s, P) \in Seq(S) /\ DOMAIN Keep(s, P) = 1 .. Cardinality(P)
           /\ \A i \in P : /\ Rank(P, i) \in DOMAIN Keep(s, P)
                           /\ Keep(s, P)[Rank(P, i)] = s[i]
           /\ \A r \in DOMAIN Keep(s, P) : \E i \in P : Rank(P, i) = r /\ Keep(s, P)[r] = s[i]
           /\ \A i, j \in P : i < j <=> Rank(P, i) < Rank(P, j)
<1> DEFINE n == Cardinality(P)
           At(r) == CHOOSE i \in P : Rank(P, i) = r
<1>1. P \in SUBSET (1 .. Len(s)) /\ Len(s) \in Nat
  OBVIOUS
<1>2. /\ n \in Nat
      /\ \A i \in P : Rank(P, i) \in 1 .. n
      /\ \A i, j \in P : i < j => Rank(P, i) < Rank(P, j)
      /\ \A r \in 1 .. n : \E i \in P : Rank(P, i) = r
  BY <1>1, RankNumbers
<1>3. \A r \in 1 .. n : At(r) \in P /\ Rank(P, At(r)) = r
  BY <1>2
<1>4. \A i, j \in P : i < j <=> Rank(P, i) < Rank(P, j)
  BY <1>1, <1>2
<1>5. \A i \in P : At(Rank(P, i)) = i
  BY <1>1, <1>2, <1>3, <1>4
<1>6. /\ DOMAIN Keep(s, P) = 1 .. n /\ \A r \in 1 .. n : Keep(s, P)[r] = s[At(r)]
  BY DEF Keep
<1> HIDE DEF n, At
<1>7. Keep(s, P) \in [1 .. n -> S]
  <2>1. \A r \in 1 .. n : s[At(r)] \in S
    BY <1>1, <1>3
  <2>2. Keep(s, P) = [r \in 1 .. n |-> s[At(r)]]
    BY DEF Keep, n, At
  <2> QED
    BY <2>1, <2>2
<1>8. Keep(s, P) \in Seq(S)
  BY <1>2, <1>7
<1> QED
  BY <1>2, <1>3, <1>4, <1>5, <1>6, <1>8 DEF n

---------------------------------------------------------------------------
(* Least members.                                                          *)

(* A set of naturals that is not empty has a least member.                 *)
LEMMA LeastMember ==
    ASSUME NEW T, T \subseteq Nat, T # {}
    PROVE  \E x \in T : \A y \in T : x <= y
<1> DEFINE R == {pair \in Nat \X Nat : pair[1] < pair[2]}
<1>1. IsWellFoundedOn(R, Nat)
  <2>1. OpToRel(<, Nat) = R
    BY DEF OpToRel
  <2>2. QED
    BY <2>1, NatLessThanWellFounded
<1>2. PICK x \in T : \A y \in T : ~(<<y, x>> \in R)
  <2> HIDE DEF R
  <2>1. QED
    BY <1>1, WFMin
<1>3. ASSUME NEW y \in T, ~(x <= y) PROVE FALSE
  <2>1. <<y, x>> \in Nat \X Nat /\ <<y, x>>[1] < <<y, x>>[2]
    BY <1>3
  <2>2. QED
    BY <1>2, <2>1
<1>4. QED
  BY <1>3

(* The rule that applies is a live one, if there is one.                   *)
LEMMA MatchingIs ==
    ASSUME NEW e, rules \in Seq(RuleType)
    PROVE  /\ Matching(e) \in 0 .. Len(rules)
           /\ Matching(e) # 0 => ~rules[Matching(e)].consumed
<1>1. Live(e) \subseteq 1 .. Len(rules)
  BY DEF Live
<1>2. CASE Live(e) = {}
  BY <1>2 DEF Matching
<1>3. CASE Live(e) # {}
  <2>1. Live(e) \subseteq Nat
    BY <1>1
  <2>2. \E x \in Live(e) : \A y \in Live(e) : x <= y
    BY <1>3, <2>1, LeastMember
  <2>3. Min(Live(e)) \in Live(e)
    BY <2>2 DEF Min
  <2>4. Matching(e) = Min(Live(e))
    BY <1>3 DEF Matching
  <2> QED
    BY <1>1, <2>3, <2>4 DEF Live
<1> QED
  BY <1>2, <1>3

(* A finite set of ticks has a last one.                                   *)
LEMMA LastTick ==
    ASSUME NEW T, T \subseteq Tick, T # {}
    PROVE  Max(T) \in T /\ \A t \in T : t <= Max(T)
<1>1. MaxTick \in Nat
  BY BoundsAssumption
<1> DEFINE D == {MaxTick - t : t \in T}
<1>2. D \subseteq Nat /\ D # {}
  <2>1. \A t \in T : MaxTick - t \in Nat
    BY <1>1 DEF Tick
  <2> QED
    BY <2>1
<1>3. PICK x \in D : \A y \in D : x <= y
  <2> HIDE DEF D
  <2> QED
    BY <1>2, LeastMember
<1>4. PICK t \in T : x = MaxTick - t
  BY <1>3
<1>5. ASSUME NEW u \in T PROVE u <= t
  <2>1. MaxTick - u \in D
    OBVIOUS
  <2>2. x <= MaxTick - u
    BY <1>3, <2>1
  <2> QED
    BY <1>1, <1>4, <2>2 DEF Tick
<1>6. \A u \in T : u <= t
  BY <1>5
<1> QED
  BY <1>6 DEF Max

---------------------------------------------------------------------------
(* What scheduling adds to the queue.                                      *)

Copies(tick, events, n) ==
    {[tick |-> tick, sequence |-> nextSequence + i - 1, event |-> events[i]] : i \in 1 .. n}

(* Some copies enter the queue, none in the past, each with a new number.  *)
Joins(added) ==
    /\ queue' = queue \cup added
    /\ IsFiniteSet(added) /\ added \subseteq Scheduled
    /\ nextSequence' \in Nat /\ nextSequence <= nextSequence' /\ nextSequence' <= MaxSequence
    /\ \A c \in added : /\ c.tick >= now
                        /\ nextSequence <= c.sequence /\ c.sequence < nextSequence'
    /\ \A c, d \in added : c.sequence = d.sequence => c = d

(* Schedule makes one copy of each event, up to the first it refuses.      *)
LEMMA ScheduleJoins ==
    ASSUME TypeOK, NEW tick \in Tick, NEW events \in Seq(Envelope), Schedule(tick, events)
    PROVE  \E n \in 0 .. Len(events) :
              /\ Joins(Copies(tick, events, n))
              /\ Cardinality(Copies(tick, events, n)) = n
              /\ nextSequence' = nextSequence + n
              /\ n = Len(events) \/ tick < now \/ nextSequence' = MaxSequence
<1> DEFINE r == Room(tick)
           n == Min({Len(events), r})
           added == Copies(tick, events, n)
<1>1. /\ now \in Nat /\ nextSequence \in Nat /\ MaxSequence \in Nat /\ tick \in Nat
      /\ nextSequence <= MaxSequence /\ Len(events) \in Nat
  BY BoundsAssumption DEF TypeOK, Tick
<1>2. r \in Nat /\ (tick < now => r = 0) /\ (~(tick < now) => r = MaxSequence - nextSequence)
  BY <1>1 DEF Room
<1>3. n \in {Len(events), r} /\ n <= Len(events) /\ n <= r
  <2> HIDE DEF r
  <2>1. \E x \in {Len(events), r} : \A y \in {Len(events), r} : x <= y
    BY <1>1, <1>2
  <2>2. n \in {Len(events), r} /\ \A y \in {Len(events), r} : n <= y
    BY <2>1 DEF Min
  <2> QED
    BY <2>2
<1>4. queue' = queue \cup added /\ nextSequence' = nextSequence + n
  BY DEF Schedule, Copies
<1>5. n \in Nat /\ nextSequence' <= MaxSequence /\ (n > 0 => tick >= now)
  <2> HIDE DEF n, r
  <2> QED
    BY <1>1, <1>2, <1>3, <1>4
<1> HIDE DEF n, r
<1> DEFINE copy(i) == [tick |-> tick, sequence |-> nextSequence + i - 1, event |-> events[i]]
           f == [i \in 1 .. n |-> copy(i)]
<1>6. \A c : c \in added <=> \E i \in 1 .. n : c = copy(i)
  BY DEF Copies
<1>7. \A i \in 1 .. n :
         /\ copy(i) \in Scheduled /\ copy(i).tick = tick
         /\ copy(i).sequence = nextSequence + i - 1
  <2>1. \A i \in 1 .. n : events[i] \in Envelope
    BY <1>1, <1>3, <1>5
  <2>2. \A i \in 1 .. n : nextSequence + i - 1 \in 0 .. MaxSequence - 1
    BY <1>1, <1>4, <1>5
  <2> QED
    BY <2>1, <2>2 DEF Scheduled
<1> HIDE DEF copy
<1>8. \A i, j \in 1 .. n : copy(i).sequence = copy(j).sequence => i = j
  BY <1>1, <1>5, <1>7
<1>9. f \in Bijection(1 .. n, added)
  <2> HIDE DEF added
  <2>1. f \in [1 .. n -> added]
    BY <1>6
  <2>2. \A i, j \in 1 .. n : f[i] = f[j] => i = j
    BY <1>8
  <2>3. \A c \in added : \E i \in 1 .. n : f[i] = c
    BY <1>6
  <2>4. f \in Injection(1 .. n, added)
    BY <2>1, <2>2 DEF Injection, IsInjective
  <2>5. f \in Surjection(1 .. n, added)
    BY <2>1, <2>3 DEF Surjection
  <2> QED
    BY <2>4, <2>5 DEF Bijection
<1>10. IsFiniteSet(added) /\ Cardinality(added) = n
  <2> HIDE DEF added
  <2>1. IsFiniteSet(1 .. n) /\ Cardinality(1 .. n) = n
    BY <1>5, FS_Interval
  <2>2. ExistsBijection(1 .. n, added)
    BY <1>9 DEF ExistsBijection
  <2> QED
    BY <2>1, <2>2, FS_Bijection
<1> HIDE DEF added, f
<1>11. Joins(added)
  <2>1. added \subseteq Scheduled
    BY <1>6, <1>7
  <2>2. \A c \in added : /\ c.tick >= now
                         /\ nextSequence <= c.sequence /\ c.sequence < nextSequence'
    BY <1>1, <1>4, <1>5, <1>6, <1>7
  <2>3. \A c, d \in added : c.sequence = d.sequence => c = d
    BY <1>6, <1>8
  <2> QED
    BY <1>1, <1>4, <1>5, <1>10, <2>1, <2>2, <2>3 DEF Joins
<1>12. n = Len(events) \/ tick < now \/ nextSequence' = MaxSequence
  BY <1>1, <1>2, <1>3, <1>4
<1>13. n \in 0 .. Len(events)
  BY <1>1, <1>3, <1>5
<1> QED
  BY <1>4, <1>10, <1>11, <1>12, <1>13 DEF added

LEMMA NothingJoins ==
    ASSUME TypeOK, queue' = queue, nextSequence' = nextSequence
    PROVE  Joins({})
<1>1. IsFiniteSet({})
  BY FS_EmptySet
<1> QED
  BY <1>1, BoundsAssumption DEF TypeOK, Joins

(* A copy's fields.                                                        *)
LEMMA ScheduledIs ==
    ASSUME NEW c \in Scheduled
    PROVE  /\ c.tick \in Nat /\ c.tick \in Tick /\ c.sequence \in Nat /\ c.event \in Envelope
           /\ c.event.ordinal \in 1 .. MaxAttempts /\ c.event.ordinal \in Nat
<1>1. MaxAttempts \in Nat
  BY BoundsAssumption
<1> QED
  BY <1>1 DEF Scheduled, Envelope, Tick

LEMMA KnownTyped ==
    ASSUME TypeOK
    PROVE  Known \subseteq Scheduled
BY DEF TypeOK, Known, Arrived

(* The copies there are after some have joined.                            *)
LEMMA JoinedKnown ==
    ASSUME NEW added, Joins(added), delivered' = delivered, discarded' = discarded
    PROVE  /\ Arrived' = Arrived
           /\ \A c : c \in Known' <=> c \in Known \/ c \in added
BY DEF Joins, Arrived, Known

(* Copies that join are told apart from all others, and come after what    *)
(* was delivered.                                                          *)
LEMMA JoinsKeepsOrder ==
    ASSUME TypeOK, Numbered, DeliveredInOrder, Due, NEW added, Joins(added),
           delivered' = delivered, discarded' = discarded, now' = now
    PROVE  Numbered' /\ DeliveredInOrder' /\ Due'
<1>1. /\ now \in Nat /\ nextSequence \in Nat /\ nextSequence' \in Nat
      /\ nextSequence <= nextSequence'
      /\ \A c \in Known \cup added : c.sequence \in Nat /\ c.tick \in Nat
  <2>1. now \in Nat /\ nextSequence \in Nat
    BY DEF TypeOK, Tick
  <2>2. \A c \in Known \cup added : c \in Scheduled
    BY KnownTyped DEF Joins
  <2> QED
    BY <2>1, <2>2, ScheduledIs DEF Joins
<1>2. Arrived' = Arrived /\ \A c : c \in Known' <=> c \in Known \/ c \in added
  BY JoinedKnown
<1>3. \A c \in Known, d \in added : c.sequence < d.sequence
  BY <1>1 DEF Numbered, Joins
<1>4. \A c \in added : c \notin Known
  BY <1>1, <1>3
<1>5. IsFiniteSet(queue') /\ IsFiniteSet(discarded')
  BY FS_Union DEF Numbered, Joins
<1>6. \A c \in Known' : c.sequence < nextSequence'
  BY <1>1, <1>2 DEF Numbered, Joins
<1>7. ASSUME NEW c \in Known', NEW d \in Known', c.sequence = d.sequence PROVE c = d
  <2>1. c \in Known /\ d \in Known => c = d
    BY <1>7 DEF Numbered
  <2>2. c \in added /\ d \in added => c = d
    BY <1>7 DEF Joins
  <2> QED
    BY <1>1, <1>2, <1>3, <1>7, <2>1, <2>2
<1>8. \A c \in queue' : c \notin Arrived /\ c \notin discarded
  BY <1>4 DEF Numbered, Joins, Known
<1>9. Numbered'
  BY <1>2, <1>5, <1>6, <1>7, <1>8 DEF Numbered
<1>10. ASSUME NEW i \in 1 .. Len(delivered), NEW c \in added
       PROVE  Before(delivered[i], c)
  <2>1. delivered[i] \in Known /\ delivered[i].tick <= now /\ c.tick >= now
    <3>1. i \in DOMAIN delivered
      BY DEF TypeOK
    <3> QED
      BY <3>1 DEF Due, Joins, Known, Arrived
  <2>2. delivered[i].sequence < c.sequence
    BY <1>3, <2>1
  <2> QED
    BY <1>1, <2>1, <2>2 DEF Before
<1>11. DeliveredInOrder'
  <2>1. \A c \in queue' : c \in queue \/ c \in added
    BY DEF Joins
  <2>2. \A i, j \in 1 .. Len(delivered) : i < j => Before(delivered[i], delivered[j])
    BY DEF DeliveredInOrder
  <2>3. \A i \in 1 .. Len(delivered), c \in queue' : Before(delivered[i], c)
    BY <1>10, <2>1 DEF DeliveredInOrder
  <2>4. \A c \in queue' : c.tick >= now
    BY <2>1 DEF DeliveredInOrder, Joins
  <2>5. \A c, d : Before(c, d)' = Before(c, d)
    BY DEF Before
  <2> QED
    BY <2>2, <2>3, <2>4 DEF DeliveredInOrder, Before
<1>12. Due'
  BY DEF Due
<1> QED
  BY <1>9, <1>11, <1>12

---------------------------------------------------------------------------
(* What the delivery of a copy does.                                       *)

(* Queued copies are ordered.                                              *)
LEMMA QueueOrdered ==
    ASSUME TypeOK, Numbered, NEW c \in queue, NEW d \in queue
    PROVE  /\ c.tick \in Nat /\ c.sequence \in Nat /\ d.tick \in Nat /\ d.sequence \in Nat
           /\ c = d \/ Before(c, d) \/ Before(d, c)
           /\ ~Before(c, c) /\ ~(Before(c, d) /\ Before(d, c))
<1>1. c.tick \in Nat /\ c.sequence \in Nat /\ d.tick \in Nat /\ d.sequence \in Nat
  BY DEF TypeOK, Scheduled, Tick
<1>2. c.sequence = d.sequence => c = d
  BY DEF Numbered, Known
<1> QED
  BY <1>1, <1>2 DEF Before

(* Some queued copies are discarded and some delivered; the clock moves    *)
(* forward, and what stays in the queue is not due before it.              *)
Passes ==
    /\ Known' = Known
    /\ queue' \subseteq queue /\ discarded' \subseteq discarded \cup queue
    /\ \A c \in Arrived' : c \in Arrived \/ c \in queue
    /\ delivered' \in Seq(Scheduled)
    /\ now' \in Tick /\ now <= now'
    /\ UNCHANGED <<nextSequence, held, rules, partitions, crashed, attempts>>


LEMMA PopDeliveryPasses ==
    ASSUME TypeOK, Numbered, DeliveredInOrder, Due, PopDelivery
    PROVE  Passes /\ Numbered' /\ DeliveredInOrder' /\ Due'
<1>1. PICK c \in Open :
         /\ \A d \in Open \ {c} : Before(c, d)
         /\ queue' = {d \in queue : Before(c, d)}
         /\ discarded' = discarded \cup {d \in queue : Before(d, c)}
         /\ delivered' = Append(delivered, c)
         /\ now' = c.tick
         /\ UNCHANGED <<nextSequence, held, rules, partitions, crashed, attempts>>
  BY DEF PopDelivery
<1>2. c \in queue /\ c \in Scheduled /\ c.tick \in Nat /\ c.tick \in Tick
  BY <1>1, ScheduledIs DEF Open, TypeOK
<1>3. /\ \A d \in queue : d = c \/ Before(c, d) \/ Before(d, c)
      /\ \A d \in queue : ~(Before(c, d) /\ Before(d, c))
      /\ ~Before(c, c)
  BY <1>2, QueueOrdered
<1>4. /\ Len(delivered) \in Nat /\ DOMAIN delivered = 1 .. Len(delivered)
      /\ Len(delivered') = Len(delivered) + 1
      /\ DOMAIN delivered' = 1 .. Len(delivered')
      /\ \A i \in 1 .. Len(delivered) : delivered'[i] = delivered[i]
      /\ delivered'[Len(delivered) + 1] = c
  BY <1>1, <1>2 DEF TypeOK
<1>5. \A d : d \in Arrived' <=> d \in Arrived \/ d = c
  <2>1. \A i \in DOMAIN delivered' : i \in DOMAIN delivered \/ i = Len(delivered) + 1
    BY <1>4
  <2>2. \A i \in DOMAIN delivered : i \in DOMAIN delivered'
    BY <1>4
  <2>3. Len(delivered) + 1 \in DOMAIN delivered'
    BY <1>4
  <2> QED
    BY <1>4, <2>1, <2>2, <2>3 DEF Arrived
<1>6. /\ \A d : d \in queue' <=> d \in queue /\ Before(c, d)
      /\ \A d : d \in discarded' <=> d \in discarded \/ (d \in queue /\ Before(d, c))
  BY <1>1
<1>7. Known' = Known
  <2>1. \A d : d \in Known' <=> d \in Known
    BY <1>2, <1>3, <1>5, <1>6 DEF Known
  <2> QED
    BY <2>1
<1>8. now \in Nat /\ now <= c.tick
  BY <1>2 DEF DeliveredInOrder, TypeOK, Tick
<1>9. Passes
  <2>1. delivered' \in Seq(Scheduled)
    BY <1>1, <1>2 DEF TypeOK
  <2> QED
    BY <1>1, <1>2, <1>5, <1>6, <1>7, <1>8, <2>1 DEF Passes
<1>10. Numbered'
  <2>1. IsFiniteSet(queue') /\ IsFiniteSet(discarded')
    <3>1. IsFiniteSet({d \in queue : Before(d, c)})
      BY FS_Subset DEF Numbered
    <3>2. IsFiniteSet(queue')
      BY <1>1, FS_Subset DEF Numbered
    <3> QED
      BY <1>1, <3>1, <3>2, FS_Union DEF Numbered
  <2>2. /\ \A d \in Known' : d.sequence < nextSequence'
        /\ \A d, e \in Known' : d.sequence = e.sequence => d = e
    BY <1>1, <1>7 DEF Numbered
  <2>3. /\ \A d \in queue' : d \notin Arrived' /\ d \notin discarded'
        /\ \A d \in Arrived' : d \notin discarded'
    BY <1>2, <1>3, <1>5, <1>6 DEF Numbered
  <2> QED
    BY <2>1, <2>2, <2>3 DEF Numbered
<1>11. DeliveredInOrder'
  <2>1. \A i, j \in 1 .. Len(delivered') : i < j => Before(delivered'[i], delivered'[j])
    <3>1. ASSUME NEW i \in 1 .. Len(delivered'), NEW j \in 1 .. Len(delivered'), i < j
          PROVE  Before(delivered'[i], delivered'[j])
      <4>1. i \in 1 .. Len(delivered)
        BY <1>4, <3>1
      <4>2. CASE j \in 1 .. Len(delivered)
        BY <1>4, <3>1, <4>1, <4>2 DEF DeliveredInOrder
      <4>3. CASE j = Len(delivered) + 1
        BY <1>2, <1>4, <4>1, <4>3 DEF DeliveredInOrder
      <4> QED
        BY <1>4, <4>2, <4>3
    <3> QED
      BY <3>1
  <2>2. \A i \in 1 .. Len(delivered'), d \in queue' : Before(delivered'[i], d)
    <3>1. ASSUME NEW i \in 1 .. Len(delivered'), NEW d \in queue'
          PROVE  Before(delivered'[i], d)
      <4>1. CASE i \in 1 .. Len(delivered)
        BY <1>4, <1>6, <4>1 DEF DeliveredInOrder
      <4>2. CASE i = Len(delivered) + 1
        BY <1>4, <1>6, <4>2
      <4> QED
        BY <1>4, <4>1, <4>2
    <3> QED
      BY <3>1
  <2>3. ASSUME NEW d \in queue' PROVE d.tick >= now'
    <3>1. d \in queue /\ Before(c, d)
      BY <1>6, <2>3
    <3>2. d.tick \in Nat
      BY <1>2, <3>1, QueueOrdered
    <3> QED
      BY <1>1, <1>2, <3>1, <3>2 DEF Before
  <2> QED
    BY <2>1, <2>2, <2>3 DEF DeliveredInOrder, Before
<1>12. Due'
  <2>1. ASSUME NEW i \in 1 .. Len(delivered) PROVE delivered[i].tick <= c.tick
    <3>1. delivered[i] \in Scheduled
      BY DEF TypeOK
    <3>2. delivered[i].tick \in Nat /\ delivered[i].tick <= now
      BY <1>4, <3>1, ScheduledIs DEF Due
    <3> QED
      BY <1>2, <1>8, <3>2
  <2> QED
    BY <1>1, <1>2, <1>4, <2>1 DEF Due
<1> QED
  BY <1>9, <1>10, <1>11, <1>12

LEMMA PopBlockedPasses ==
    ASSUME TypeOK, Numbered, DeliveredInOrder, Due, PopBlocked
    PROVE  Passes /\ Numbered' /\ DeliveredInOrder' /\ Due'
<1> DEFINE T == {c.tick : c \in queue}
<1>1. /\ queue # {} /\ queue' = {} /\ discarded' = discarded \cup queue
      /\ now' = Max(T)
      /\ UNCHANGED <<nextSequence, held, rules, partitions, crashed, attempts, delivered>>
  BY DEF PopBlocked
<1>2. T \subseteq Tick /\ T # {}
  BY <1>1, ScheduledIs DEF TypeOK
<1>3. now' \in T
  <2> HIDE DEF T
  <2> QED
    BY <1>1, <1>2, LastTick
<1>4. PICK c \in queue : now' = c.tick
  BY <1>3
<1>5. c.tick \in Tick /\ c.tick \in Nat /\ now \in Nat /\ now <= now'
  BY <1>4, ScheduledIs DEF TypeOK, Tick, DeliveredInOrder
<1>6. Arrived' = Arrived
  BY <1>1 DEF Arrived
<1>7. Known' = Known
  BY <1>1, <1>6 DEF Known
<1>8. Passes
  <2>1. delivered' \in Seq(Scheduled)
    BY <1>1 DEF TypeOK
  <2> QED
    BY <1>1, <1>4, <1>5, <1>6, <1>7, <2>1 DEF Passes
<1>9. Numbered'
  <2>1. IsFiniteSet(queue') /\ IsFiniteSet(discarded')
    BY <1>1, FS_EmptySet, FS_Union DEF Numbered
  <2> QED
    BY <1>1, <1>6, <1>7, <2>1 DEF Numbered
<1>10. DeliveredInOrder'
  BY <1>1 DEF DeliveredInOrder, Before
<1>11. Due'
  <2>1. ASSUME NEW i \in DOMAIN delivered PROVE delivered[i].tick <= now'
    <3>1. delivered[i].tick \in Nat /\ delivered[i].tick <= now
      BY ScheduledIs DEF TypeOK, Due
    <3> QED
      BY <1>4, <1>5, <3>1
  <2> QED
    BY <1>1, <2>1 DEF Due
<1> QED
  BY <1>8, <1>9, <1>10, <1>11

---------------------------------------------------------------------------
(* What sending does.                                                      *)

LEMMA RuleIs ==
    ASSUME NEW r \in RuleType
    PROVE  /\ r.action \in ActionType /\ r.consuming \in BOOLEAN /\ r.consumed \in BOOLEAN
           /\ [r EXCEPT !.consumed = TRUE] \in RuleType
           /\ [r EXCEPT !.consumed = TRUE].action = r.action
           /\ [r EXCEPT !.consumed = TRUE].consuming = r.consuming
           /\ [r EXCEPT !.consumed = TRUE].consumed
BY DEF RuleType

LEMMA ActionIs ==
    ASSUME NEW a \in ActionType
    PROVE  /\ a.kind # "None"
           /\ a.kind = "Duplicate" => a.additional_copies \in Nat
           /\ a.kind = "Delay" => a.ticks \in Nat
           /\ a.kind = "ReorderAtTick" => a.tick \in Tick
BY DEF ActionType

(* No call changes what a rule asks for.                                   *)
RulesGrow ==
    /\ rules' \in Seq(RuleType) /\ Len(rules) <= Len(rules')
    /\ \A i \in 1 .. Len(rules) : /\ rules'[i].action = rules[i].action
                                  /\ rules'[i].consuming = rules[i].consuming

(* Attempting under rule i uses up that rule, if it is to be used up.      *)
Uses(i) ==
    /\ RulesGrow /\ Len(rules') = Len(rules)
    /\ \A j \in 1 .. Len(rules) : j # i => rules'[j] = rules[j]
    /\ i # 0 => ~rules[i].consumed /\ (rules'[i].consumed <=> rules[i].consuming)

LEMMA TryMatchUses ==
    ASSUME NEW e, rules \in Seq(RuleType), TryMatch(e)
    PROVE  Matching(e) \in 0 .. Len(rules) /\ Uses(Matching(e))
<1> DEFINE i == Matching(e)
           used == [rules[i] EXCEPT !.consumed = TRUE]
<1>1. i \in 0 .. Len(rules) /\ (i # 0 => ~rules[i].consumed)
  BY MatchingIs
<1>2. Len(rules) \in Nat /\ \A j \in 1 .. Len(rules) : rules[j] \in RuleType
  OBVIOUS
<1>3. rules' = IF i # 0 /\ rules[i].consuming THEN [rules EXCEPT ![i] = used] ELSE rules
  BY DEF TryMatch
<1>4. i # 0 => /\ used \in RuleType /\ used.consumed
               /\ used.action = rules[i].action /\ used.consuming = rules[i].consuming
               /\ rules[i].consuming \in BOOLEAN
  <2>1. i # 0 => rules[i] \in RuleType
    BY <1>1, <1>2
  <2> QED
    BY <2>1, RuleIs
<1> HIDE DEF i, used
<1>5. ASSUME i # 0, rules[i].consuming
      PROVE  Uses(i)
  <2>1. /\ rules' \in Seq(RuleType) /\ Len(rules') = Len(rules)
        /\ \A j \in 1 .. Len(rules) : rules'[j] = IF j = i THEN used ELSE rules[j]
    BY <1>1, <1>2, <1>3, <1>4, <1>5
  <2>2. rules'[i] = used /\ \A j \in 1 .. Len(rules) : j # i => rules'[j] = rules[j]
    BY <1>1, <1>2, <1>5, <2>1
  <2>3. RulesGrow
    <3>1. ASSUME NEW j \in 1 .. Len(rules)
          PROVE  rules'[j].action = rules[j].action /\ rules'[j].consuming = rules[j].consuming
      <4>1. CASE j = i
        BY <1>4, <1>5, <2>2, <4>1
      <4>2. CASE j # i
        BY <2>2, <4>2
      <4> QED
        BY <4>1, <4>2
    <3> QED
      BY <1>2, <2>1, <3>1 DEF RulesGrow
  <2> QED
    BY <1>1, <1>4, <1>5, <2>1, <2>2, <2>3 DEF Uses
<1>6. ASSUME ~(i # 0 /\ rules[i].consuming)
      PROVE  Uses(i)
  BY <1>1, <1>2, <1>3, <1>4, <1>6, RuleIs DEF Uses, RulesGrow
<1> QED
  BY <1>1, <1>5, <1>6 DEF i

(* The attempt e ends under rule i with some copies queued, or held.       *)
SentAs(e, i, added) ==
    /\ e \in Envelope /\ e.ordinal = Len(attempts) + 1
    /\ i \in 0 .. Len(rules)
    /\ Joins(added) /\ \A c \in added : c.event = e
    /\ \/ /\ held' = held
          /\ attempts' = Append(attempts, [envelope |-> e, rule |-> i,
                                           copies |-> Cardinality(added)])
       \/ /\ i # 0 /\ rules[i].action.kind = "ReorderAtTick" /\ added = {}
          /\ held' = Append(held, [tick |-> rules[i].action.tick, envelope |-> e])
          /\ attempts' = Append(attempts, [envelope |-> e, rule |-> i, copies |-> 1])
    /\ i = 0 => /\ \A c \in added : c.tick = now
                /\ \A c, d \in added : c = d
    /\ Uses(i)
    /\ Len(attempts) < MaxAttempts
    /\ UNCHANGED <<now, partitions, crashed, delivered, discarded>>

(* What is transmitted was queued, or held, or neither.                    *)
LEMMA TransmitIs ==
    ASSUME TypeOK, NEW e \in Envelope, NEW a, Transmit(e, a),
           a = [kind |-> "None"] \/ a \in ActionType
    PROVE  \/ /\ held' = held
              /\ \E added : /\ Joins(added) /\ \A c \in added : c.event = e
                            /\ nextSequence' = nextSequence + Cardinality(added)
                            /\ Cardinality(added) \in Nat
                            /\ a = [kind |-> "None"] => /\ \A c \in added : c.tick = now
                                                        /\ \A c, d \in added : c = d
           \/ /\ a \in ActionType /\ a.kind = "ReorderAtTick"
              /\ Joins({}) /\ nextSequence' = nextSequence
              /\ held' = Append(held, [tick |-> a.tick, envelope |-> e])
<1>1. now \in Tick /\ now \in Nat /\ nextSequence \in Nat /\ MaxTick \in Nat
  BY BoundsAssumption DEF TypeOK, Tick
<1>2. a.kind = "None" => a = [kind |-> "None"]
  BY ActionIs
<1>3. a = [kind |-> "None"] => a.kind = "None"
  OBVIOUS
<1>4. ASSUME NEW tick \in Tick, NEW events \in Seq(Envelope), Schedule(tick, events),
             \A i \in 1 .. Len(events) : events[i] = e,
             a.kind = "None" => tick = now /\ Len(events) = 1,
             UNCHANGED held
      PROVE  \E added : /\ Joins(added) /\ \A c \in added : c.event = e
                        /\ nextSequence' = nextSequence + Cardinality(added)
                        /\ Cardinality(added) \in Nat
                        /\ a = [kind |-> "None"] => /\ \A c \in added : c.tick = now
                                                    /\ \A c, d \in added : c = d
  <2>1. PICK n \in 0 .. Len(events) :
           /\ Joins(Copies(tick, events, n)) /\ Cardinality(Copies(tick, events, n)) = n
           /\ nextSequence' = nextSequence + n
    BY <1>4, ScheduleJoins
  <2>2. ASSUME NEW c \in Copies(tick, events, n)
        PROVE  /\ c.event = e /\ c.tick = tick
               /\ Len(events) = 1 => c = [tick |-> tick, sequence |-> nextSequence + 1 - 1,
                                          event |-> events[1]]
    <3>1. PICK i \in 1 .. n : c = [tick |-> tick, sequence |-> nextSequence + i - 1,
                                   event |-> events[i]]
      BY DEF Copies
    <3>2. i \in 1 .. Len(events)
      BY <2>1
    <3> QED
      BY <1>4, <3>1, <3>2
  <2>3. n \in Nat
    BY <2>1
  <2>4. a = [kind |-> "None"] =>
           /\ \A c \in Copies(tick, events, n) : c.tick = now
           /\ \A c, d \in Copies(tick, events, n) : c = d
    BY <1>3, <1>4, <2>2
  <2> QED
    BY <2>1, <2>2, <2>3, <2>4
<1>5. CASE a.kind = "None" /\ Schedule(now, <<e>>) /\ UNCHANGED held
  <2>1. <<e>> \in Seq(Envelope) /\ Len(<<e>>) = 1 /\ \A i \in 1 .. Len(<<e>>) : <<e>>[i] = e
    OBVIOUS
  <2> QED
    BY <1>1, <1>4, <1>5, <2>1
<1>6. CASE /\ a.kind = "Duplicate" /\ a.additional_copies + 1 <= MaxCopies
           /\ Schedule(now, [i \in 1 .. a.additional_copies + 1 |-> e]) /\ UNCHANGED held
  <2> DEFINE events == [i \in 1 .. a.additional_copies + 1 |-> e]
  <2>1. a.additional_copies \in Nat
    BY <1>3, <1>6, ActionIs
  <2>2. events \in Seq(Envelope) /\ Len(events) = a.additional_copies + 1
        /\ \A i \in 1 .. Len(events) : events[i] = e
    BY <2>1
  <2> HIDE DEF events
  <2>3. Schedule(now, events)
    BY <1>6 DEF events
  <2> QED
    BY <1>1, <1>4, <1>6, <2>2, <2>3
<1>7. CASE /\ a.kind = "Delay" /\ now + a.ticks <= MaxTick
           /\ Schedule(now + a.ticks, <<e>>) /\ UNCHANGED held
  <2>1. now + a.ticks \in Tick
    BY <1>1, <1>3, <1>7, ActionIs DEF Tick
  <2>2. <<e>> \in Seq(Envelope) /\ \A i \in 1 .. Len(<<e>>) : <<e>>[i] = e
    OBVIOUS
  <2> QED
    BY <1>4, <1>7, <2>1, <2>2
<1>8. CASE /\ a.kind = "ReorderAtTick"
           /\ held' = Append(held, [tick |-> a.tick, envelope |-> e])
           /\ UNCHANGED <<queue, nextSequence>>
  BY <1>3, <1>8, NothingJoins
<1>9. CASE /\ a.kind \in {"Drop", "Duplicate", "Delay", "ReorderAtTick"}
           /\ UNCHANGED <<queue, nextSequence, held>>
  <2>1. Joins({}) /\ Cardinality({}) = 0
    BY <1>9, NothingJoins, FS_EmptySet
  <2> QED
    BY <1>1, <1>9, <2>1
<1> QED
  BY <1>5, <1>6, <1>7, <1>8, <1>9 DEF Transmit

LEMMA SendIs ==
    ASSUME TypeOK, NEW source \in Nodes, NEW destination \in Nodes, Send(source, destination)
    PROVE  \E e, i, added : SentAs(e, i, added)
<1> DEFINE e == [ordinal |-> Len(attempts) + 1, source |-> source, destination |-> destination]
           i == IF Blocked(e) THEN 0 ELSE Matching(e)
           a == IF i = 0 THEN [kind |-> "None"] ELSE rules[i].action
           kept == nextSequence' - nextSequence + Len(held') - Len(held)
<1>1. /\ Len(attempts) \in Nat /\ Len(held) \in Nat /\ Len(rules) \in Nat
      /\ nextSequence \in Nat /\ MaxAttempts \in Nat
  BY BoundsAssumption DEF TypeOK
<1>2. /\ Len(attempts) < MaxAttempts
      /\ attempts' = Append(attempts, [envelope |-> e, rule |-> i, copies |-> kept])
      /\ UNCHANGED <<now, partitions, crashed, delivered, discarded>>
      /\ Blocked(e) => UNCHANGED <<queue, nextSequence, held, rules>>
      /\ ~Blocked(e) => TryMatch(e) /\ Transmit(e, a)
  BY DEF Send
<1>3. e \in Envelope /\ e.ordinal = Len(attempts) + 1
  BY <1>1, <1>2 DEF Envelope
<1> HIDE DEF e
<1>4. i \in 0 .. Len(rules) /\ Uses(i)
  <2>1. CASE Blocked(e)
    BY <1>1, <1>2, <2>1 DEF Uses, RulesGrow, TypeOK
  <2>2. CASE ~Blocked(e)
    BY <1>2, <2>2, TryMatchUses DEF TypeOK
  <2> QED
    BY <2>1, <2>2
<1>5. i # 0 => rules[i].action \in ActionType
  <2> HIDE DEF i
  <2>1. i # 0 => rules[i] \in RuleType
    BY <1>1, <1>4 DEF TypeOK
  <2> QED
    BY <2>1, RuleIs
<1>6. CASE Blocked(e)
  <2>1. Joins({}) /\ Cardinality({}) = 0 /\ kept = 0 /\ i = 0
    BY <1>1, <1>2, <1>6, NothingJoins, FS_EmptySet
  <2> HIDE DEF i, kept
  <2>2. SentAs(e, i, {})
    BY <1>2, <1>3, <1>4, <1>6, <2>1 DEF SentAs
  <2> QED
    BY <2>2
<1>7. CASE ~Blocked(e)
  <2>1. a = [kind |-> "None"] \/ a \in ActionType
    BY <1>5
  <2>2. i = 0 => a = [kind |-> "None"]
    OBVIOUS
  <2>3. Transmit(e, a)
    BY <1>2, <1>7
  <2>4. a \in ActionType => i # 0 /\ a = rules[i].action
    BY ActionIs
  <2> HIDE DEF a, i
  <2>5. CASE /\ held' = held
             /\ \E added : /\ Joins(added) /\ \A c \in added : c.event = e
                           /\ nextSequence' = nextSequence + Cardinality(added)
                           /\ Cardinality(added) \in Nat
                           /\ a = [kind |-> "None"] => /\ \A c \in added : c.tick = now
                                                       /\ \A c, d \in added : c = d
    <3>1. PICK added : /\ Joins(added) /\ \A c \in added : c.event = e
                       /\ nextSequence' = nextSequence + Cardinality(added)
                       /\ Cardinality(added) \in Nat
                       /\ a = [kind |-> "None"] => /\ \A c \in added : c.tick = now
                                                   /\ \A c, d \in added : c = d
      BY <2>5
    <3>2. kept = Cardinality(added)
      BY <1>1, <2>5, <3>1
    <3> HIDE DEF kept
    <3>3. SentAs(e, i, added)
      BY <1>2, <1>3, <1>4, <2>2, <2>5, <3>1, <3>2 DEF SentAs
    <3> QED
      BY <3>3
  <2>6. CASE /\ a \in ActionType /\ a.kind = "ReorderAtTick"
             /\ Joins({}) /\ nextSequence' = nextSequence
             /\ held' = Append(held, [tick |-> a.tick, envelope |-> e])
    <3>1. kept = 1
      <4>1. Len(held') = Len(held) + 1
        BY <2>6 DEF TypeOK
      <4> QED
        BY <1>1, <2>6, <4>1
    <3> HIDE DEF kept
    <3>2. SentAs(e, i, {})
      BY <1>2, <1>3, <1>4, <2>4, <2>6, <3>1 DEF SentAs
    <3> QED
      BY <3>2
  <2> QED
    BY <1>3, <2>1, <2>3, <2>5, <2>6, TransmitIs
<1> QED
  BY <1>6, <1>7

---------------------------------------------------------------------------
(* What releasing does.                                                    *)

HeldOnce ==
    \A i, j \in DOMAIN held : held[i].envelope.ordinal = held[j].envelope.ordinal => i = j

(* What is held for the tick leaves the hold, each message as at most one  *)
(* copy, and as none only when its release is refused.                     *)
ReleasedAs(tick, added) ==
    /\ Joins(added) /\ held' \in Seq(HeldDelivery)
    /\ \A c \in added : \E j \in DOMAIN held : held[j].tick = tick /\ c.event = held[j].envelope
    /\ \A c, d \in added : c.event.ordinal = d.event.ordinal => c = d
    /\ \/ tick < now \/ nextSequence' = MaxSequence
       \/ \A j \in DOMAIN held : held[j].tick = tick => \E c \in added : c.event = held[j].envelope
    /\ \A k \in DOMAIN held' : \E j \in DOMAIN held : held[j].tick # tick /\ held'[k] = held[j]
    /\ \A j \in DOMAIN held : held[j].tick # tick => \E k \in DOMAIN held' : held'[k] = held[j]
    /\ HeldOnce'
    /\ UNCHANGED <<now, rules, partitions, crashed, attempts, delivered, discarded>>

LEMMA ReleaseIs ==
    ASSUME TypeOK, HeldOnce, NEW tick \in Tick, ReleaseReorderedAt(tick)
    PROVE  \E added : ReleasedAs(tick, added)
<1> DEFINE P == HeldFor(tick)
           Q == DOMAIN held \ P
           K == Keep(held, P)
           R == Reverse(K)
           events == [i \in 1 .. Len(R) |-> R[i].envelope]
<1>1. /\ held' = Keep(held, Q) /\ Schedule(tick, events)
      /\ UNCHANGED <<now, rules, partitions, crashed, attempts, delivered, discarded>>
  BY DEF ReleaseReorderedAt
<1>2. /\ held \in Seq(HeldDelivery) /\ P \in SUBSET DOMAIN held /\ Q \in SUBSET DOMAIN held
      /\ \A j \in DOMAIN held : j \in P <=> held[j].tick = tick
      /\ \A j \in DOMAIN held : j \in Q <=> held[j].tick # tick
  BY DEF TypeOK, HeldFor
<1> HIDE DEF P, Q
<1>3. /\ K \in Seq(HeldDelivery)
      /\ \A j \in P : Rank(P, j) \in DOMAIN K /\ K[Rank(P, j)] = held[j]
      /\ \A r \in DOMAIN K : \E j \in P : Rank(P, j) = r /\ K[r] = held[j]
  BY <1>2, KeepIs
<1>4. /\ held' \in Seq(HeldDelivery)
      /\ \A j \in Q : Rank(Q, j) \in DOMAIN held' /\ held'[Rank(Q, j)] = held[j]
      /\ \A r \in DOMAIN held' : \E j \in Q : Rank(Q, j) = r /\ held'[r] = held[j]
  BY <1>1, <1>2, KeepIs
<1> HIDE DEF K
<1>5. Len(K) \in Nat /\ DOMAIN K = 1 .. Len(K)
  BY <1>3
<1>6. Len(R) = Len(K) /\ \A m \in 1 .. Len(K) : R[m] = K[Len(K) - m + 1]
  BY <1>5 DEF Reverse
<1> HIDE DEF R
<1>7. /\ events \in Seq(Envelope) /\ Len(events) = Len(K)
      /\ \A m \in 1 .. Len(K) : events[m] = K[Len(K) - m + 1].envelope
  <2>1. ASSUME NEW m \in 1 .. Len(K) PROVE K[Len(K) - m + 1] \in HeldDelivery
    <3>1. Len(K) - m + 1 \in 1 .. Len(K)
      BY <1>5
    <3> QED
      BY <1>3, <1>5, <3>1
  <2>2. \A m \in 1 .. Len(K) : R[m].envelope \in Envelope
    BY <1>6, <2>1 DEF HeldDelivery
  <2> QED
    BY <1>5, <1>6, <2>2
<1> HIDE DEF events
<1>8. PICK n \in 0 .. Len(events) :
         /\ Joins(Copies(tick, events, n))
         /\ n = Len(events) \/ tick < now \/ nextSequence' = MaxSequence
  BY <1>1, <1>2, <1>7, ScheduleJoins
<1> DEFINE added == Copies(tick, events, n)
           copy(m) == [tick |-> tick, sequence |-> nextSequence + m - 1, event |-> events[m]]
<1>9. \A c : c \in added <=> \E m \in 1 .. n : c = copy(m)
  BY DEF Copies
<1>10. \A m \in 1 .. n : copy(m).event = events[m]
  OBVIOUS
<1> HIDE DEF added, copy
<1>11. ASSUME NEW m \in 1 .. n
       PROVE  \E j \in P : Rank(P, j) = Len(K) - m + 1 /\ events[m] = held[j].envelope
  <2>1. m \in 1 .. Len(K) /\ Len(K) - m + 1 \in DOMAIN K
    BY <1>5, <1>7
  <2> QED
    BY <1>3, <1>7, <2>1, ZenonT(60)
<1>12. \A c \in added : \E j \in DOMAIN held : held[j].tick = tick /\ c.event = held[j].envelope
  BY <1>2, <1>9, <1>10, <1>11
<1>13. ASSUME NEW c \in added, NEW d \in added, c.event.ordinal = d.event.ordinal
       PROVE  c = d
  <2>1. PICK m \in 1 .. n : c = copy(m)
    BY <1>9
  <2>2. PICK l \in 1 .. n : d = copy(l)
    BY <1>9
  <2>3. PICK i \in P : Rank(P, i) = Len(K) - m + 1 /\ events[m] = held[i].envelope
    BY <1>11
  <2>4. PICK j \in P : Rank(P, j) = Len(K) - l + 1 /\ events[l] = held[j].envelope
    BY <1>11
  <2>5. i = j
    BY <1>2, <1>10, <1>13, <2>1, <2>2, <2>3, <2>4 DEF HeldOnce
  <2>6. m = l
    BY <1>5, <2>3, <2>4, <2>5
  <2> QED
    BY <2>1, <2>2, <2>6
<1>14. ASSUME n = Len(events), NEW j \in DOMAIN held, held[j].tick = tick
       PROVE  \E c \in added : c.event = held[j].envelope
  <2>1. j \in P /\ Rank(P, j) \in 1 .. Len(K) /\ K[Rank(P, j)] = held[j]
    BY <1>2, <1>3, <1>5, <1>14
  <2> DEFINE m == Len(K) - Rank(P, j) + 1
  <2>2. m \in 1 .. Len(K) /\ Len(K) - m + 1 = Rank(P, j)
    BY <1>5, <2>1
  <2>3. m \in 1 .. n /\ events[m] = held[j].envelope
    <3> HIDE DEF m
    <3> QED
      BY <1>7, <1>14, <2>1, <2>2
  <2> HIDE DEF m
  <2> QED
    BY <1>9, <1>10, <2>3
<1>15. /\ \A k \in DOMAIN held' : \E j \in DOMAIN held : held[j].tick # tick /\ held'[k] = held[j]
       /\ \A j \in DOMAIN held : held[j].tick # tick => \E k \in DOMAIN held' : held'[k] = held[j]
  BY <1>2, <1>4
<1>16. HeldOnce'
  <2>1. ASSUME NEW k \in DOMAIN held', NEW l \in DOMAIN held',
               held'[k].envelope.ordinal = held'[l].envelope.ordinal
        PROVE  k = l
    <3>1. PICK i \in Q : Rank(Q, i) = k /\ held'[k] = held[i]
      BY <1>4
    <3>2. PICK j \in Q : Rank(Q, j) = l /\ held'[l] = held[j]
      BY <1>4
    <3>3. i = j
      BY <1>2, <2>1, <3>1, <3>2 DEF HeldOnce
    <3> QED
      BY <3>1, <3>2, <3>3
  <2> QED
    BY <2>1 DEF HeldOnce
<1>17. ReleasedAs(tick, added)
  BY <1>1, <1>4, <1>8, <1>12, <1>13, <1>14, <1>15, <1>16 DEF ReleasedAs, added
<1> QED
  BY <1>17

---------------------------------------------------------------------------
(* What the other calls do: a fault is scripted, a link or a node changes. *)

Arranges ==
    /\ \/ rules' = rules
       \/ \E r \in Script : Len(rules) < MaxRules /\ rules' = Append(rules, r)
    /\ partitions' \subseteq Nodes \X Nodes /\ crashed' \subseteq Nodes
    /\ UNCHANGED <<now, nextSequence, queue, held, attempts, delivered, discarded>>

(* Every step is one of four kinds.                                        *)
LEMMA StepIs ==
    ASSUME TypeOK, Numbered, DeliveredInOrder, Due, HeldOnce, Next
    PROVE  \/ Arranges
           \/ \E e, i, added : SentAs(e, i, added)
           \/ \E tick \in Tick : \E added : ReleasedAs(tick, added)
           \/ Passes /\ Numbered' /\ DeliveredInOrder' /\ Due'
<1>1. ASSUME NEW r \in Script, AddFault(r) PROVE Arranges
  BY <1>1 DEF AddFault, Arranges, TypeOK
<1>2. ASSUME NEW pair \in Cuts, Partition(pair) \/ Heal(pair) PROVE Arranges
  BY <1>2, CutsAssumption DEF Partition, Heal, Arranges, TypeOK
<1>3. ASSUME NEW n \in Nodes, Crash(n) \/ Restart(n) PROVE Arranges
  BY <1>3 DEF Crash, Restart, Arranges, TypeOK
<1>4. ASSUME NEW a \in Nodes, NEW b \in Nodes, Send(a, b)
      PROVE  \E e, i, added : SentAs(e, i, added)
  BY <1>4, SendIs
<1>5. ASSUME NEW tick \in Tick, ReleaseReorderedAt(tick)
      PROVE  \E t \in Tick : \E added : ReleasedAs(t, added)
  BY <1>5, ReleaseIs
<1> QED
  BY <1>1, <1>2, <1>3, <1>4, <1>5, PopDeliveryPasses, PopBlockedPasses DEF Next

---------------------------------------------------------------------------
(* What a message and a copy refer to.                                     *)

LEMMA HeldIs ==
    ASSUME TypeOK, Attempted, NEW i \in DOMAIN held
    PROVE  /\ held[i].envelope \in Envelope /\ held[i].tick \in Tick
           /\ held[i].envelope.ordinal \in DOMAIN attempts
<1>1. held[i] \in HeldDelivery /\ Len(attempts) \in Nat /\ DOMAIN attempts = 1 .. Len(attempts)
  BY DEF TypeOK
<1>2. held[i].envelope \in Envelope /\ held[i].tick \in Tick
  BY <1>1 DEF HeldDelivery
<1>3. held[i].envelope.ordinal \in 1 .. MaxAttempts /\ MaxAttempts \in Nat
  BY <1>2, BoundsAssumption DEF Envelope
<1> QED
  BY <1>1, <1>2, <1>3 DEF Attempted

LEMMA KnownIs ==
    ASSUME TypeOK, Attempted, NEW c \in Known
    PROVE  c \in Scheduled /\ c.event.ordinal \in DOMAIN attempts
<1>1. c \in Scheduled
  BY KnownTyped
<1>2. Len(attempts) \in Nat /\ DOMAIN attempts = 1 .. Len(attempts) /\ MaxAttempts \in Nat
  BY BoundsAssumption DEF TypeOK
<1>3. c.event.ordinal \in 1 .. MaxAttempts
  BY <1>1, ScheduledIs
<1> QED
  BY <1>1, <1>2, <1>3 DEF Attempted

LEMMA AttemptIs ==
    ASSUME TypeOK, Attempted, NEW o \in DOMAIN attempts
    PROVE  /\ attempts[o].envelope \in Envelope /\ attempts[o].copies \in Nat
           /\ attempts[o].rule \in 0 .. Len(rules) /\ attempts[o].rule \in Nat
<1> DEFINE A == [envelope : Envelope, rule : 0 .. MaxRules, copies : Nat]
<1>1. attempts[o] \in A
  <2>1. attempts \in Seq(A)
    BY DEF TypeOK
  <2> HIDE DEF A
  <2> QED
    BY <2>1
<1>2. Len(rules) \in Nat /\ MaxRules \in Nat
  BY BoundsAssumption DEF TypeOK
<1> QED
  BY <1>1, <1>2 DEF Attempted

(* What the rule of an attempt asks for is settled.                        *)
LEMMA ActionKept ==
    ASSUME TypeOK, Attempted, RulesGrow, NEW o \in DOMAIN attempts,
           attempts'[o] = attempts[o], attempts[o].rule # 0
    PROVE  rules'[attempts'[o].rule].action = rules[attempts[o].rule].action
<1>1. attempts[o].rule \in 1 .. Len(rules)
  BY AttemptIs DEF TypeOK
<1> QED
  BY <1>1 DEF RulesGrow

---------------------------------------------------------------------------
(* Steps that leave the attempts and the messages held as they were.       *)

LEMMA QuietKeeps ==
    ASSUME TypeOK, Attempted, HeldSound, Accounted, RulesGrow, Known' = Known,
           now' \in Nat, now <= now', UNCHANGED <<nextSequence, held, attempts>>
    PROVE  HeldSound' /\ Accounted'
<1>1. HeldSound'
  <2>1. ASSUME NEW i \in DOMAIN held
        PROVE  LET o == held[i].envelope.ordinal
               IN  rules'[attempts'[o].rule].action = rules[attempts[o].rule].action
    <3>1. held[i].envelope.ordinal \in DOMAIN attempts
          /\ attempts[held[i].envelope.ordinal].rule # 0
      BY HeldIs DEF HeldSound
    <3> QED
      BY <3>1, ActionKept
  <2> QED
    BY <2>1 DEF HeldSound, ActionOf
<1>2. ASSUME NEW o \in DOMAIN attempts
      PROVE  (\/ IsHeld(o)
              \/ Cardinality(CopiesOf(o)) = attempts[o].copies
              \/ CopiesOf(o) = {} /\ Lost(o))'
  <2>1. CopiesOf(o)' = CopiesOf(o)
    BY DEF CopiesOf
  <2>2. IsHeld(o)' <=> IsHeld(o)
    BY DEF IsHeld
  <2>3. Lost(o) => Lost(o)'
    <3>1. ASSUME Lost(o) PROVE Lost(o)'
      <4>1. ActionOf(o)' = ActionOf(o)
        BY <3>1, ActionKept DEF Lost, ActionOf
      <4>2. ActionOf(o).tick \in Nat
        <5>1. attempts[o].rule \in 0 .. Len(rules) /\ attempts[o].rule # 0
          BY <3>1, AttemptIs DEF Lost
        <5>2. rules[attempts[o].rule] \in RuleType
          BY <5>1 DEF TypeOK
        <5>3. ActionOf(o) \in ActionType
          BY <5>2, RuleIs DEF ActionOf
        <5> QED
          BY <3>1, <5>3, ActionIs DEF Lost, Tick
      <4>3. now \in Nat
        BY DEF TypeOK, Tick
      <4> QED
        BY <3>1, <4>1, <4>2, <4>3 DEF Lost
    <3> QED
      BY <3>1
  <2> QED
    BY <2>1, <2>2, <2>3 DEF Accounted
<1> QED
  BY <1>1, <1>2 DEF Accounted

LEMMA QuietPlain ==
    ASSUME TypeOK, PlainInOrder, now' \in Nat, now <= now', attempts' = attempts,
           \A c \in queue' \cup Arrived' : c \in queue \cup Arrived
    PROVE  PlainInOrder'
<1>1. \A c \in queue \cup Arrived : c.tick \in Nat
  <2>1. \A c \in queue \cup Arrived : c \in Scheduled
    BY KnownTyped DEF Known
  <2> QED
    BY <2>1, ScheduledIs
<1>2. now \in Nat
  BY DEF TypeOK, Tick
<1>3. ASSUME NEW c \in (queue \cup Arrived)', Plain(c)'
      PROVE  /\ c.tick <= now'
             /\ \A d \in (queue \cup Arrived)' : Plain(d)' =>
                   /\ c.event.ordinal < d.event.ordinal => Before(c, d)'
                   /\ c.event.ordinal = d.event.ordinal => c = d
  <2>1. c \in queue \cup Arrived /\ Plain(c)
    BY <1>3 DEF Plain
  <2>2. c.tick <= now'
    BY <1>1, <1>2, <2>1 DEF PlainInOrder
  <2>3. ASSUME NEW d \in (queue \cup Arrived)', Plain(d)'
        PROVE  /\ c.event.ordinal < d.event.ordinal => Before(c, d)'
               /\ c.event.ordinal = d.event.ordinal => c = d
    <3>1. d \in queue \cup Arrived /\ Plain(d)
      BY <2>3 DEF Plain
    <3> QED
      BY <2>1, <3>1 DEF PlainInOrder, Before
  <2> QED
    BY <2>2, <2>3
<1> QED
  BY <1>3 DEF PlainInOrder

---------------------------------------------------------------------------
(* The four kinds of step keep the invariant.                              *)

LEMMA ArrangesKeeps ==
    ASSUME NetworkInv, Arranges
    PROVE  NetworkInv'
<1> USE DEF NetworkInv
<1>1. /\ rules \in Seq(RuleType) /\ Len(rules) \in Nat /\ Len(rules) <= MaxRules
      /\ DOMAIN rules = 1 .. Len(rules) /\ MaxRules \in Nat
      /\ partitions' \subseteq Nodes \X Nodes /\ crashed' \subseteq Nodes
      /\ UNCHANGED <<now, nextSequence, queue, held, attempts, delivered, discarded>>
  BY BoundsAssumption DEF Arranges, TypeOK, Attempted
<1>2. /\ rules' \in Seq(RuleType) /\ DOMAIN rules' = 1 .. Len(rules')
      /\ Len(rules') \in Nat /\ Len(rules) <= Len(rules') /\ Len(rules') <= MaxRules
      /\ \A i \in 1 .. Len(rules) : rules'[i] = rules[i]
      /\ \A i \in DOMAIN rules' : i \in DOMAIN rules \/ ~rules'[i].consumed
  <2>1. CASE rules' = rules
    BY <1>1, <2>1
  <2>2. ASSUME NEW r \in Script, Len(rules) < MaxRules, rules' = Append(rules, r)
        PROVE  /\ rules' \in Seq(RuleType) /\ DOMAIN rules' = 1 .. Len(rules')
               /\ Len(rules') = Len(rules) + 1
               /\ \A i \in 1 .. Len(rules) : rules'[i] = rules[i]
               /\ rules'[Len(rules) + 1] = r /\ ~r.consumed
    BY <1>1, <2>2, ScriptAssumption
  <2> QED
    BY <1>1, <2>1, <2>2 DEF Arranges
<1>3. RulesGrow
  BY <1>2 DEF RulesGrow
<1>4. Arrived' = Arrived /\ Known' = Known
  BY <1>1 DEF Arrived, Known
<1>5. now \in Nat
  BY DEF TypeOK, Tick
<1>6. HeldSound' /\ Accounted'
  BY <1>1, <1>3, <1>4, <1>5, QuietKeeps
<1>7. PlainInOrder'
  BY <1>1, <1>4, <1>5, QuietPlain
<1>8. TypeOK'
  BY <1>1, <1>2 DEF TypeOK
<1>9. Numbered' /\ DeliveredInOrder' /\ Due'
  BY <1>1, <1>4 DEF Numbered, DeliveredInOrder, Due, Before
<1>10. Attempted'
  <2>1. \A o \in DOMAIN attempts : attempts[o].rule <= Len(rules')
    BY <1>1, <1>2, AttemptIs
  <2> QED
    BY <1>1, <1>2, <1>4, <2>1 DEF Attempted
<1>11. UsedOnce'
  <2>1. ASSUME NEW o \in DOMAIN attempts, attempts[o].rule # 0, rules'[attempts[o].rule].consuming
        PROVE  /\ rules'[attempts[o].rule].consumed
               /\ \A p \in DOMAIN attempts : attempts[p].rule = attempts[o].rule => o = p
    <3>1. attempts[o].rule \in 1 .. Len(rules)
      BY <1>1, <2>1, AttemptIs
    <3> QED
      BY <1>2, <2>1, <3>1 DEF UsedOnce
  <2>2. ASSUME NEW i \in DOMAIN rules', rules'[i].consumed
        PROVE  \E o \in DOMAIN attempts : attempts[o].rule = i
    BY <1>1, <1>2, <2>2 DEF UsedOnce
  <2> QED
    BY <1>1, <2>1, <2>2 DEF UsedOnce
<1> QED
  BY <1>6, <1>7, <1>8, <1>9, <1>10, <1>11

LEMMA PassesKeeps ==
    ASSUME NetworkInv, Passes, Numbered', DeliveredInOrder', Due'
    PROVE  NetworkInv'
<1> USE DEF NetworkInv
<1>1. /\ Known' = Known /\ queue' \subseteq queue /\ discarded' \subseteq discarded \cup queue
      /\ \A c \in Arrived' : c \in Arrived \/ c \in queue
      /\ now' \in Tick /\ now' \in Nat /\ now <= now' /\ delivered' \in Seq(Scheduled)
      /\ UNCHANGED <<nextSequence, held, rules, partitions, crashed, attempts>>
  BY DEF Passes, Tick
<1>2. RulesGrow
  BY <1>1 DEF RulesGrow, TypeOK
<1>3. HeldSound' /\ Accounted'
  BY <1>1, <1>2, QuietKeeps
<1>4. PlainInOrder'
  BY <1>1, QuietPlain
<1>5. TypeOK'
  BY <1>1 DEF TypeOK
<1>6. Attempted'
  BY <1>1 DEF Attempted
<1>7. UsedOnce'
  BY <1>1 DEF UsedOnce
<1> QED
  BY <1>3, <1>4, <1>5, <1>6, <1>7

(* Attempt n is the last, and its copies are new.                          *)
SentLast(n, e, i, added) ==
    /\ n \in Nat /\ DOMAIN attempts = 1 .. n - 1 /\ DOMAIN attempts' = 1 .. n
    /\ n \in DOMAIN attempts'
    /\ \A o \in DOMAIN attempts' : o \in DOMAIN attempts \/ o = n
    /\ attempts' \in Seq([envelope : Envelope, rule : 0 .. MaxRules, copies : Nat])
    /\ \A o \in DOMAIN attempts : o \in Nat /\ o < n /\ attempts'[o] = attempts[o]
    /\ attempts'[n].rule = i /\ i \in 0 .. Len(rules) /\ i \in Nat
    /\ \/ held' = held /\ attempts'[n].copies = Cardinality(added)
       \/ /\ i # 0 /\ rules[i].action.kind = "ReorderAtTick" /\ added = {}
          /\ held' = Append(held, [tick |-> rules[i].action.tick, envelope |-> e])
          /\ attempts'[n].copies = 1
    /\ e.ordinal = n /\ \A c \in added : c.event.ordinal = n
    /\ \A c \in Known : c.event.ordinal \in DOMAIN attempts
    /\ \A j \in DOMAIN held : held[j].envelope.ordinal \in DOMAIN attempts
    /\ Arrived' = Arrived /\ \A c : c \in Known' <=> c \in Known \/ c \in added

LEMMA SentIs ==
    ASSUME NetworkInv, NEW e, NEW i, NEW added, SentAs(e, i, added)
    PROVE  SentLast(Len(attempts) + 1, e, i, added)
<1> USE DEF NetworkInv
<1> DEFINE A == [envelope : Envelope, rule : 0 .. MaxRules, copies : Nat]
<1>1. /\ attempts \in Seq(A) /\ Len(attempts) \in Nat /\ Len(rules) \in Nat /\ MaxRules \in Nat
      /\ Len(rules) <= MaxRules
  BY BoundsAssumption DEF TypeOK, Attempted
<1>2. /\ e \in Envelope /\ e.ordinal = Len(attempts) + 1
      /\ i \in 0 .. Len(rules) /\ i \in Nat
      /\ Joins(added) /\ \A c \in added : c.event = e
      /\ UNCHANGED <<now, partitions, crashed, delivered, discarded>>
  BY <1>1 DEF SentAs
<1>3. Cardinality(added) \in Nat
  BY <1>2, FS_CardinalityType DEF Joins
<1>4. PICK k \in Nat :
         /\ attempts' = Append(attempts, [envelope |-> e, rule |-> i, copies |-> k])
         /\ \/ held' = held /\ k = Cardinality(added)
            \/ /\ i # 0 /\ rules[i].action.kind = "ReorderAtTick" /\ added = {}
               /\ held' = Append(held, [tick |-> rules[i].action.tick, envelope |-> e])
               /\ k = 1
  BY <1>3 DEF SentAs
<1> DEFINE new == [envelope |-> e, rule |-> i, copies |-> k]
<1>5. new \in A /\ new.rule = i /\ new.copies = k
  BY <1>1, <1>2
<1> HIDE DEF A, new
<1>6. /\ attempts' \in Seq(A) /\ DOMAIN attempts = 1 .. Len(attempts)
      /\ DOMAIN attempts' = 1 .. Len(attempts) + 1
      /\ \A o \in DOMAIN attempts : attempts'[o] = attempts[o]
      /\ attempts'[Len(attempts) + 1] = new
  <2>1. attempts' = Append(attempts, new)
    BY <1>4 DEF new
  <2> QED
    BY <1>1, <1>5, <2>1
<1>7. Arrived' = Arrived /\ \A c : c \in Known' <=> c \in Known \/ c \in added
  BY <1>2, JoinedKnown
<1>8. /\ \A c \in Known : c.event.ordinal \in DOMAIN attempts
      /\ \A j \in DOMAIN held : held[j].envelope.ordinal \in DOMAIN attempts
  BY HeldIs, KnownIs
<1>9. /\ \A o \in DOMAIN attempts : o \in Nat /\ o < Len(attempts) + 1
      /\ \A o \in DOMAIN attempts' : o \in DOMAIN attempts \/ o = Len(attempts) + 1
  BY <1>1, <1>6
<1>10. /\ Len(attempts) + 1 \in Nat /\ (Len(attempts) + 1) - 1 = Len(attempts)
       /\ Len(attempts) + 1 \in DOMAIN attempts'
  BY <1>1, <1>6
<1> QED
  BY <1>2, <1>4, <1>5, <1>6, <1>7, <1>8, <1>9, <1>10 DEF A, SentLast

LEMMA SentPlain ==
    ASSUME NetworkInv, NEW e, NEW i, NEW added, SentAs(e, i, added)
    PROVE  PlainInOrder'
<1> USE DEF NetworkInv
<1> DEFINE n == Len(attempts) + 1
<1>1. /\ n \in Nat /\ \A o \in DOMAIN attempts : o < n /\ o \in Nat /\ attempts'[o] = attempts[o]
      /\ attempts'[n].rule = i /\ \A c \in added : c.event.ordinal = n
      /\ \A c \in Known : c.event.ordinal \in DOMAIN attempts
      /\ Arrived' = Arrived
  BY SentIs DEF SentLast
<1> HIDE DEF n
<1>2. /\ Joins(added) /\ now' = now
      /\ i = 0 => (\A c \in added : c.tick = now) /\ (\A c, d \in added : c = d)
  BY DEF SentAs
<1>3. \A c : c \in (queue \cup Arrived)' <=> c \in queue \cup Arrived \/ c \in added
  BY <1>1, <1>2 DEF Joins
<1>4. now \in Nat /\ nextSequence \in Nat
      /\ \A c \in Known \cup added : c.tick \in Nat /\ c.sequence \in Nat
  <2>1. \A c \in Known \cup added : c \in Scheduled
    BY <1>2, KnownTyped DEF Joins
  <2> QED
    BY <2>1, ScheduledIs DEF TypeOK, Tick
<1>5. \A c \in queue \cup Arrived : c \in Known
  BY DEF Known
<1>6. \A c \in queue \cup Arrived : Plain(c)' <=> Plain(c)
  BY <1>1, <1>5 DEF Plain
<1>7. \A c \in added : Plain(c)' <=> i = 0
  BY <1>1 DEF Plain
<1>8. ASSUME NEW c \in (queue \cup Arrived)', Plain(c)'
      PROVE  c.tick <= now'
  <2>1. CASE c \in queue \cup Arrived
    BY <1>2, <1>6, <1>8, <2>1 DEF PlainInOrder
  <2>2. CASE c \in added
    BY <1>2, <1>4, <1>7, <1>8, <2>2
  <2> QED
    BY <1>3, <2>1, <2>2
<1>9. ASSUME NEW c \in (queue \cup Arrived)', Plain(c)', NEW d \in (queue \cup Arrived)', Plain(d)'
      PROVE  /\ c.event.ordinal < d.event.ordinal => Before(c, d)
             /\ c.event.ordinal = d.event.ordinal => c = d
  <2>1. CASE c \in queue \cup Arrived /\ d \in queue \cup Arrived
    BY <1>6, <1>9, <2>1 DEF PlainInOrder
  <2>2. CASE c \in queue \cup Arrived /\ d \in added
    <3>1. c.tick <= now /\ d.tick = now /\ c.event.ordinal < n /\ d.event.ordinal = n
      BY <1>1, <1>2, <1>5, <1>6, <1>7, <1>9, <2>2 DEF PlainInOrder
    <3>2. c.sequence < d.sequence
      <4>1. c.sequence < nextSequence /\ nextSequence <= d.sequence
        BY <1>2, <1>5, <2>2 DEF Numbered, Joins
      <4> QED
        BY <1>4, <1>5, <2>2, <4>1
    <3>3. Before(c, d)
      BY <1>4, <1>5, <2>2, <3>1, <3>2 DEF Before
    <3>4. c.event.ordinal # d.event.ordinal
      BY <1>1, <1>5, <2>2, <3>1
    <3> QED
      BY <3>3, <3>4
  <2>3. CASE c \in added /\ d \in queue \cup Arrived
    <3>1. d.event.ordinal < n /\ d.event.ordinal \in Nat /\ c.event.ordinal = n
      BY <1>1, <1>5, <2>3
    <3> QED
      BY <1>1, <3>1
  <2>4. CASE c \in added /\ d \in added
    BY <1>1, <1>2, <1>7, <1>9, <2>4
  <2> QED
    BY <1>3, <2>1, <2>2, <2>3, <2>4
<1>10. \A c, d : Before(c, d)' <=> Before(c, d)
  BY DEF Before
<1> QED
  BY <1>8, <1>9, <1>10 DEF PlainInOrder

LEMMA SentTypes ==
    ASSUME NetworkInv, NEW e, NEW i, NEW added, SentAs(e, i, added)
    PROVE  TypeOK' /\ Attempted'
<1> USE DEF NetworkInv
<1> DEFINE n == Len(attempts) + 1
<1>1. SentLast(n, e, i, added)
  BY SentIs
<1>2. /\ n <= MaxAttempts /\ MaxAttempts \in Nat /\ MaxRules \in Nat
      /\ Len(rules) \in Nat /\ Len(rules) <= MaxRules
  BY BoundsAssumption DEF SentAs, TypeOK, Attempted
<1> HIDE DEF n
<1>3. /\ Joins(added) /\ e \in Envelope /\ RulesGrow /\ Len(rules') = Len(rules)
      /\ UNCHANGED <<now, partitions, crashed, delivered, discarded>>
  BY DEF SentAs, Uses
<1>4. held' = held \/ \E h \in HeldDelivery : h.envelope = e /\ held' = Append(held, h)
  <2> DEFINE new == [tick |-> rules[i].action.tick, envelope |-> e]
  <2>1. ASSUME i # 0, rules[i].action.kind = "ReorderAtTick"
        PROVE  new \in HeldDelivery
    <3>1. i \in 1 .. Len(rules)
      BY <1>1, <1>2, <2>1 DEF SentLast
    <3>2. rules[i] \in RuleType
      BY <3>1 DEF TypeOK
    <3>3. rules[i].action.tick \in Tick
      BY <2>1, <3>2, RuleIs, ActionIs
    <3> QED
      BY <1>3, <3>3 DEF HeldDelivery
  <2>2. new.envelope = e
    OBVIOUS
  <2>3. \/ held' = held
        \/ i # 0 /\ rules[i].action.kind = "ReorderAtTick" /\ held' = Append(held, new)
    BY <1>1 DEF SentLast
  <2> HIDE DEF new
  <2> QED
    BY <2>1, <2>2, <2>3
<1>5. TypeOK'
  <2>1. held' \in Seq(HeldDelivery)
    <3>1. held \in Seq(HeldDelivery)
      BY DEF TypeOK
    <3>2. ASSUME NEW h \in HeldDelivery PROVE Append(held, h) \in Seq(HeldDelivery)
      BY <3>1
    <3> QED
      BY <1>4, <3>1, <3>2
  <2>2. queue' \subseteq Scheduled /\ nextSequence' \in 0 .. MaxSequence
    BY <1>3, BoundsAssumption DEF Joins, TypeOK
  <2> QED
    BY <1>1, <1>3, <2>1, <2>2 DEF TypeOK, RulesGrow, SentLast
<1>6. Attempted'
  <2>1. Len(attempts') = n
    BY <1>1 DEF SentLast
  <2>2. ASSUME NEW c \in Known' PROVE c.event.ordinal <= n
    BY <1>1, <2>2 DEF SentLast
  <2>3. ASSUME NEW j \in DOMAIN held' PROVE held'[j].envelope.ordinal <= n
    <3>1. held \in Seq(HeldDelivery)
      BY DEF TypeOK
    <3>2. \A k \in DOMAIN held : held[k].envelope.ordinal <= n
      BY <1>1 DEF SentLast
    <3>3. CASE held' = held
      BY <2>3, <3>2, <3>3
    <3>4. ASSUME NEW h \in HeldDelivery, h.envelope = e, held' = Append(held, h)
          PROVE  held'[j].envelope.ordinal <= n
      <4>1. CASE j \in DOMAIN held
        BY <3>1, <3>2, <3>4, <4>1
      <4>2. CASE j \notin DOMAIN held
        <5>1. held'[j] = h
          BY <2>3, <3>1, <3>4, <4>2
        <5> QED
          BY <1>1, <3>4, <5>1 DEF SentLast
      <4> QED
        BY <4>1, <4>2
    <3> QED
      BY <1>4, <3>3, <3>4
  <2>4. ASSUME NEW o \in DOMAIN attempts' PROVE attempts'[o].rule <= Len(rules')
    <3>1. CASE o \in DOMAIN attempts
      BY <1>1, <1>2, <1>3, <3>1, AttemptIs DEF SentLast
    <3>2. CASE o = n
      BY <1>1, <1>2, <1>3, <3>2 DEF SentLast
    <3> QED
      BY <1>1, <3>1, <3>2 DEF SentLast
  <2> QED
    BY <1>2, <1>3, <2>1, <2>2, <2>3, <2>4 DEF Attempted
<1> QED
  BY <1>5, <1>6

LEMMA SentUses ==
    ASSUME NetworkInv, NEW e, NEW i, NEW added, SentAs(e, i, added)
    PROVE  UsedOnce'
<1> USE DEF NetworkInv
<1> DEFINE n == Len(attempts) + 1
<1>1. SentLast(n, e, i, added)
  BY SentIs
<1> HIDE DEF n
<1>2. /\ n \in DOMAIN attempts' /\ \A o \in DOMAIN attempts' : o \in DOMAIN attempts \/ o = n
      /\ \A o \in DOMAIN attempts : o \in DOMAIN attempts' /\ attempts'[o] = attempts[o]
      /\ attempts'[n].rule = i
  BY <1>1 DEF SentLast
<1>3. /\ rules \in Seq(RuleType) /\ DOMAIN rules = 1 .. Len(rules) /\ Len(rules) \in Nat
      /\ DOMAIN rules' = DOMAIN rules
      /\ \A j \in DOMAIN rules : /\ rules'[j].consuming = rules[j].consuming
                                 /\ j # i => rules'[j] = rules[j]
      /\ i # 0 => /\ i \in DOMAIN rules /\ ~rules[i].consumed
                  /\ (rules'[i].consumed <=> rules[i].consuming)
  <2>1. /\ rules \in Seq(RuleType) /\ rules' \in Seq(RuleType) /\ Len(rules') = Len(rules)
        /\ i \in 0 .. Len(rules)
        /\ \A j \in 1 .. Len(rules) : /\ rules'[j].consuming = rules[j].consuming
                                      /\ j # i => rules'[j] = rules[j]
        /\ i # 0 => ~rules[i].consumed /\ (rules'[i].consumed <=> rules[i].consuming)
    BY <1>1 DEF SentAs, SentLast, Uses, RulesGrow, TypeOK
  <2>2. DOMAIN rules = 1 .. Len(rules) /\ Len(rules) \in Nat /\ DOMAIN rules' = 1 .. Len(rules')
    BY <2>1
  <2> QED
    BY <2>1, <2>2
<1>4. \A o \in DOMAIN attempts : attempts[o].rule # 0 => attempts[o].rule \in DOMAIN rules
  BY <1>3, AttemptIs
<1>5. ASSUME NEW o \in DOMAIN attempts', attempts'[o].rule # 0,
             rules'[attempts'[o].rule].consuming
      PROVE  /\ rules'[attempts'[o].rule].consumed
             /\ \A p \in DOMAIN attempts' : attempts'[p].rule = attempts'[o].rule => o = p
  <2>1. CASE o \in DOMAIN attempts
    <3>1. attempts'[o] = attempts[o] /\ attempts[o].rule \in DOMAIN rules
      BY <1>2, <1>4, <1>5, <2>1
    <3>2. /\ rules[attempts[o].rule].consumed
          /\ \A p \in DOMAIN attempts : attempts[p].rule = attempts[o].rule => o = p
      BY <1>3, <1>5, <2>1, <3>1 DEF UsedOnce
    <3>3. attempts[o].rule # i
      BY <1>3, <1>5, <3>1, <3>2
    <3> QED
      BY <1>2, <1>3, <3>1, <3>2, <3>3
  <2>2. CASE o = n
    <3>1. i # 0 /\ rules[i].consuming /\ rules'[i].consumed /\ ~rules[i].consumed
      BY <1>2, <1>3, <1>5, <2>2
    <3>2. \A p \in DOMAIN attempts : attempts[p].rule # i
      BY <3>1 DEF UsedOnce
    <3> QED
      BY <1>2, <2>2, <3>1, <3>2
  <2> QED
    BY <1>2, <2>1, <2>2
<1>6. ASSUME NEW j \in DOMAIN rules', rules'[j].consumed
      PROVE  \E o \in DOMAIN attempts' : attempts'[o].rule = j
  <2>1. CASE j = i
    BY <1>2, <2>1
  <2>2. CASE j # i
    <3>1. PICK o \in DOMAIN attempts : attempts[o].rule = j
      BY <1>3, <1>6, <2>2 DEF UsedOnce
    <3> QED
      BY <1>2, <3>1
  <2> QED
    BY <2>1, <2>2
<1> QED
  BY <1>5, <1>6 DEF UsedOnce

LEMMA SentHeld ==
    ASSUME NetworkInv, NEW e, NEW i, NEW added, SentAs(e, i, added)
    PROVE  HeldSound'
<1> USE DEF NetworkInv
<1> DEFINE n == Len(attempts) + 1
<1>1. SentLast(n, e, i, added)
  BY SentIs
<1> HIDE DEF n
<1>2. /\ n \notin DOMAIN attempts /\ attempts'[n].rule = i /\ e.ordinal = n
      /\ \A o \in DOMAIN attempts : attempts'[o] = attempts[o]
      /\ \A c \in Known' : c \in Known \/ c.event.ordinal = n
      /\ \A c \in Known : c.event.ordinal \in DOMAIN attempts
      /\ \A j \in DOMAIN held : held[j].envelope.ordinal \in DOMAIN attempts
  BY <1>1 DEF SentLast
<1>3. RulesGrow /\ held \in Seq(HeldDelivery)
  BY DEF SentAs, Uses, TypeOK
(* What was held is as it was.                                             *)
<1>4. ASSUME NEW j \in DOMAIN held
      PROVE  LET o == held[j].envelope.ordinal
             IN  /\ attempts'[o].rule # 0 /\ attempts'[o].copies = 1
                 /\ rules'[attempts'[o].rule].action.kind = "ReorderAtTick"
                 /\ rules'[attempts'[o].rule].action.tick = held[j].tick
                 /\ \A c \in Known' : c.event.ordinal # o
  <2> DEFINE o == held[j].envelope.ordinal
  <2>1. o \in DOMAIN attempts /\ attempts'[o] = attempts[o] /\ o # n
    BY <1>2
  <2>2. /\ attempts[o].rule # 0 /\ attempts[o].copies = 1
        /\ rules[attempts[o].rule].action.kind = "ReorderAtTick"
        /\ rules[attempts[o].rule].action.tick = held[j].tick
        /\ \A c \in Known : c.event.ordinal # o
    BY DEF HeldSound, ActionOf
  <2> HIDE DEF o
  <2>3. rules'[attempts'[o].rule].action = rules[attempts[o].rule].action
    BY <1>3, <2>1, <2>2, ActionKept
  <2>4. \A c \in Known' : c.event.ordinal # o
    BY <1>2, <2>1, <2>2
  <2>5. /\ attempts'[o].rule # 0 /\ attempts'[o].copies = 1
        /\ rules'[attempts'[o].rule].action.kind = "ReorderAtTick"
        /\ rules'[attempts'[o].rule].action.tick = held[j].tick
    BY <2>1, <2>2, <2>3
  <2> QED
    BY <2>4, <2>5 DEF o
<1>5. \A j, k \in DOMAIN held : held[k].envelope.ordinal = held[j].envelope.ordinal => j = k
  BY DEF HeldSound
<1>6. CASE held' = held
  BY <1>4, <1>5, <1>6 DEF HeldSound, ActionOf
<1>7. CASE /\ i # 0 /\ rules[i].action.kind = "ReorderAtTick" /\ added = {}
           /\ held' = Append(held, [tick |-> rules[i].action.tick, envelope |-> e])
           /\ attempts'[n].copies = 1
  <2> DEFINE new == [tick |-> rules[i].action.tick, envelope |-> e]
             m == Len(held) + 1
  <2>1. new.tick = rules[i].action.tick /\ new.envelope.ordinal = n
    BY <1>2
  <2>2. /\ m \notin DOMAIN held /\ held'[m] = new
        /\ \A j \in DOMAIN held' : j \in DOMAIN held \/ j = m
        /\ \A j \in DOMAIN held : held'[j] = held[j]
    <3>1. held' = Append(held, new)
      BY <1>7
    <3> HIDE DEF new
    <3> QED
      BY <1>3, <3>1
  <2> HIDE DEF new, m
  <2>3. rules'[i].action = rules[i].action
    <3>1. i \in 1 .. Len(rules)
      BY <1>1, <1>7 DEF SentLast, TypeOK
    <3> QED
      BY <1>3, <3>1 DEF RulesGrow
  <2>4. \A c \in Known' : c.event.ordinal # n
    BY <1>1, <1>2, <1>7 DEF SentLast
  <2>5. ASSUME NEW j \in DOMAIN held'
        PROVE  LET o == held'[j].envelope.ordinal
               IN  /\ attempts'[o].rule # 0 /\ attempts'[o].copies = 1
                   /\ rules'[attempts'[o].rule].action.kind = "ReorderAtTick"
                   /\ rules'[attempts'[o].rule].action.tick = held'[j].tick
                   /\ \A c \in Known' : c.event.ordinal # o
                   /\ \A k \in DOMAIN held' : held'[k].envelope.ordinal = o => j = k
    <3>1. CASE j \in DOMAIN held
      <4>1. \A k \in DOMAIN held' :
               held'[k].envelope.ordinal = held'[j].envelope.ordinal => j = k
        BY <1>2, <1>5, <2>1, <2>2, <3>1
      <4> QED
        BY <1>4, <2>2, <3>1, <4>1
    <3>2. CASE j = m
      <4>1. held'[j].envelope.ordinal = n /\ held'[j].tick = rules[i].action.tick
        BY <2>1, <2>2, <3>2
      <4>2. \A k \in DOMAIN held' : held'[k].envelope.ordinal = n => j = k
        BY <1>2, <2>2, <3>2
      <4>3. /\ attempts'[n].rule = i /\ i # 0 /\ attempts'[n].copies = 1
            /\ rules'[i].action.kind = "ReorderAtTick"
            /\ rules'[i].action.tick = rules[i].action.tick
        BY <1>2, <1>7, <2>3
      <4> QED
        BY <2>4, <4>1, <4>2, <4>3
    <3> QED
      BY <2>2, <3>1, <3>2
  <2> QED
    BY <2>5 DEF HeldSound, ActionOf
<1> QED
  BY <1>1, <1>6, <1>7 DEF SentLast

LEMMA SentAccounted ==
    ASSUME NetworkInv, NEW e, NEW i, NEW added, SentAs(e, i, added)
    PROVE  Accounted'
<1> USE DEF NetworkInv
<1> DEFINE n == Len(attempts) + 1
<1>1. SentLast(n, e, i, added)
  BY SentIs
<1> HIDE DEF n
<1>2. Joins(added) /\ RulesGrow /\ now' = now /\ held \in Seq(HeldDelivery)
  BY DEF SentAs, Uses, TypeOK
<1>3. ASSUME NEW o \in DOMAIN attempts
      PROVE  (\/ IsHeld(o)
              \/ Cardinality(CopiesOf(o)) = attempts[o].copies
              \/ CopiesOf(o) = {} /\ Lost(o))'
  <2>1. o # n /\ attempts'[o] = attempts[o]
    BY <1>1 DEF SentLast
  <2>2. CopiesOf(o)' = CopiesOf(o)
    <3>1. \A c : c \in Known' /\ c.event.ordinal = o <=> c \in Known /\ c.event.ordinal = o
      BY <1>1, <2>1 DEF SentLast
    <3> QED
      BY <3>1 DEF CopiesOf
  <2>3. IsHeld(o) => IsHeld(o)'
    <3>1. \A j \in DOMAIN held : j \in DOMAIN held' /\ held'[j] = held[j]
      <4>1. ASSUME NEW h, held' = Append(held, h)
            PROVE  \A j \in DOMAIN held : j \in DOMAIN held' /\ held'[j] = held[j]
        BY <1>2, <4>1
      <4> QED
        BY <1>1, <4>1 DEF SentLast
    <3> QED
      BY <3>1 DEF IsHeld
  <2>4. ASSUME Lost(o) PROVE Lost(o)'
    <3>1. ActionOf(o)' = ActionOf(o)
      BY <1>2, <2>1, <2>4, ActionKept DEF Lost, ActionOf
    <3>2. nextSequence = MaxSequence => nextSequence' = MaxSequence
      BY <1>2, BoundsAssumption DEF Joins
    <3> QED
      BY <1>2, <2>1, <2>4, <3>1, <3>2 DEF Lost
  <2> QED
    BY <2>1, <2>2, <2>3, <2>4 DEF Accounted
<1>4. ASSUME NEW o, o = n
      PROVE  (\/ IsHeld(o)
              \/ Cardinality(CopiesOf(o)) = attempts[o].copies
              \/ CopiesOf(o) = {} /\ Lost(o))'
  <2>1. CASE held' = held /\ attempts'[n].copies = Cardinality(added)
    <3>1. n \notin DOMAIN attempts
      BY <1>1 DEF SentLast
    <3>2. \A c : c \in Known' /\ c.event.ordinal = n <=> c \in added
      BY <1>1, <3>1 DEF SentLast
    <3>3. CopiesOf(o)' = added
      BY <1>4, <3>2 DEF CopiesOf
    <3> QED
      BY <1>4, <2>1, <3>3
  <2>2. ASSUME NEW h, held' = Append(held, h), h.envelope = e
        PROVE  IsHeld(o)'
    <3>1. Len(held) + 1 \in DOMAIN held' /\ held'[Len(held) + 1] = h
      BY <1>2, <2>2
    <3> QED
      BY <1>1, <1>4, <2>2, <3>1 DEF IsHeld, SentLast
  <2>3. [tick |-> rules[i].action.tick, envelope |-> e].envelope = e
    OBVIOUS
  <2> QED
    BY <1>1, <2>1, <2>2, <2>3 DEF SentLast
<1>5. \A o \in DOMAIN attempts' : o \in DOMAIN attempts \/ o = n
  BY <1>1 DEF SentLast
<1> QED
  BY <1>3, <1>4, <1>5 DEF Accounted

LEMMA SentKeeps ==
    ASSUME NetworkInv, NEW e, NEW i, NEW added, SentAs(e, i, added)
    PROVE  NetworkInv'
<1>1. Numbered' /\ DeliveredInOrder' /\ Due'
  BY JoinsKeepsOrder DEF SentAs, NetworkInv
<1> QED
  BY <1>1, SentTypes, SentPlain, SentHeld, SentUses, SentAccounted DEF NetworkInv

LEMMA HeldAreOnce ==
    ASSUME HeldSound
    PROVE  HeldOnce
BY DEF HeldSound, HeldOnce

(* What a released copy was.                                               *)
LEMMA ReleasedIs ==
    ASSUME NetworkInv, NEW tick \in Tick, NEW added, ReleasedAs(tick, added)
    PROVE  /\ Joins(added) /\ Arrived' = Arrived /\ \A c : c \in Known' <=> c \in Known \/ c \in added
           /\ \A c \in added : \E j \in DOMAIN held :
                 /\ held[j].tick = tick /\ c.event = held[j].envelope
                 /\ c.event.ordinal \in DOMAIN attempts /\ attempts[c.event.ordinal].rule # 0
           /\ RulesGrow
           /\ UNCHANGED <<now, rules, partitions, crashed, attempts, delivered, discarded>>
<1> USE DEF NetworkInv
<1>1. /\ Joins(added) /\ UNCHANGED <<now, rules, partitions, crashed, attempts, delivered, discarded>>
      /\ \A c \in added : \E j \in DOMAIN held : held[j].tick = tick /\ c.event = held[j].envelope
  BY DEF ReleasedAs
<1>2. \A j \in DOMAIN held : /\ held[j].envelope.ordinal \in DOMAIN attempts
                             /\ attempts[held[j].envelope.ordinal].rule # 0
  BY HeldIs DEF HeldSound
<1>3. RulesGrow
  BY <1>1 DEF RulesGrow, TypeOK
<1>4. Arrived' = Arrived /\ \A c : c \in Known' <=> c \in Known \/ c \in added
  BY <1>1, JoinedKnown
<1>5. ASSUME NEW c \in added
      PROVE  \E j \in DOMAIN held :
                /\ held[j].tick = tick /\ c.event = held[j].envelope
                /\ c.event.ordinal \in DOMAIN attempts /\ attempts[c.event.ordinal].rule # 0
  <2>1. PICK j \in DOMAIN held : held[j].tick = tick /\ c.event = held[j].envelope
    BY <1>1
  <2> QED
    BY <1>2, <2>1
<1> QED
  BY <1>1, <1>3, <1>4, <1>5

LEMMA ReleasedPlain ==
    ASSUME NetworkInv, NEW tick \in Tick, NEW added, ReleasedAs(tick, added)
    PROVE  PlainInOrder'
<1>1. /\ \A c \in added : attempts[c.event.ordinal].rule # 0
      /\ attempts' = attempts /\ now' = now /\ Arrived' = Arrived
      /\ \A c \in queue' : c \in queue \/ c \in added
  BY ReleasedIs DEF Joins
<1>2. \A c : c \in (queue \cup Arrived)' /\ Plain(c)' => c \in queue \cup Arrived /\ Plain(c)
  BY <1>1 DEF Plain
<1>3. \A c, d : Before(c, d)' <=> Before(c, d)
  BY DEF Before
<1>4. PlainInOrder
  BY DEF NetworkInv
<1> QED
  BY <1>1, <1>2, <1>3, <1>4 DEF PlainInOrder

LEMMA ReleasedHeld ==
    ASSUME NetworkInv, NEW tick \in Tick, NEW added, ReleasedAs(tick, added)
    PROVE  HeldSound'
<1> USE DEF NetworkInv
<1>1. /\ attempts' = attempts /\ rules' = rules
      /\ \A c : c \in Known' <=> c \in Known \/ c \in added
      /\ \A c \in added : \E j \in DOMAIN held : held[j].tick = tick /\ c.event = held[j].envelope
  BY ReleasedIs
<1>2. /\ \A k \in DOMAIN held' : \E j \in DOMAIN held : held[j].tick # tick /\ held'[k] = held[j]
      /\ HeldOnce'
  BY DEF ReleasedAs
<1>3. ASSUME NEW k \in DOMAIN held'
      PROVE  LET o == held'[k].envelope.ordinal
             IN  /\ attempts[o].rule # 0 /\ attempts[o].copies = 1
                 /\ ActionOf(o).kind = "ReorderAtTick" /\ ActionOf(o).tick = held'[k].tick
                 /\ \A c \in Known' : c.event.ordinal # o
  <2>1. PICK j \in DOMAIN held : held[j].tick # tick /\ held'[k] = held[j]
    BY <1>2
  <2>2. \A c \in added : c.event.ordinal # held[j].envelope.ordinal
    BY <1>1, <2>1, HeldAreOnce DEF HeldOnce
  <2>3. \A c \in Known : c.event.ordinal # held[j].envelope.ordinal
    BY DEF HeldSound
  <2>4. LET o == held[j].envelope.ordinal
        IN  /\ attempts[o].rule # 0 /\ attempts[o].copies = 1
            /\ ActionOf(o).kind = "ReorderAtTick" /\ ActionOf(o).tick = held[j].tick
    BY DEF HeldSound
  <2> QED
    BY <1>1, <2>1, <2>2, <2>3, <2>4
<1>4. \A j, k \in DOMAIN held' : held'[k].envelope.ordinal = held'[j].envelope.ordinal => j = k
  BY <1>2 DEF HeldOnce
<1> QED
  BY <1>1, <1>3, <1>4 DEF HeldSound, ActionOf

LEMMA ReleasedAccounted ==
    ASSUME NetworkInv, NEW tick \in Tick, NEW added, ReleasedAs(tick, added)
    PROVE  Accounted'
<1> USE DEF NetworkInv
<1>1. /\ attempts' = attempts /\ rules' = rules /\ now' = now /\ Joins(added)
      /\ \A c : c \in Known' <=> c \in Known \/ c \in added
      /\ \A c \in added : \E j \in DOMAIN held : held[j].tick = tick /\ c.event = held[j].envelope
  BY ReleasedIs
<1>2. /\ \A c, d \in added : c.event.ordinal = d.event.ordinal => c = d
      /\ \/ tick < now \/ nextSequence' = MaxSequence
         \/ \A j \in DOMAIN held : held[j].tick = tick => \E c \in added : c.event = held[j].envelope
      /\ \A j \in DOMAIN held : held[j].tick # tick => \E k \in DOMAIN held' : held'[k] = held[j]
  BY DEF ReleasedAs
<1>3. nextSequence = MaxSequence => nextSequence' = MaxSequence
  BY <1>1, BoundsAssumption DEF Joins
<1>4. \A o : ActionOf(o)' = ActionOf(o)
  BY <1>1 DEF ActionOf
<1>5. ASSUME NEW o \in DOMAIN attempts, ~IsHeld(o)
      PROVE  (\/ IsHeld(o)
              \/ Cardinality(CopiesOf(o)) = attempts[o].copies
              \/ CopiesOf(o) = {} /\ Lost(o))'
  <2>1. \A c \in added : c.event.ordinal # o
    BY <1>1, <1>5 DEF IsHeld
  <2>2. CopiesOf(o)' = CopiesOf(o)
    <3>1. \A c : c \in Known' /\ c.event.ordinal = o <=> c \in Known /\ c.event.ordinal = o
      BY <1>1, <2>1
    <3> QED
      BY <3>1 DEF CopiesOf
  <2>3. Lost(o) => Lost(o)'
    BY <1>1, <1>3, <1>4 DEF Lost
  <2> QED
    BY <1>1, <1>5, <2>2, <2>3 DEF Accounted
<1>6. ASSUME NEW o \in DOMAIN attempts, NEW j \in DOMAIN held, held[j].envelope.ordinal = o
      PROVE  (\/ IsHeld(o)
              \/ Cardinality(CopiesOf(o)) = attempts[o].copies
              \/ CopiesOf(o) = {} /\ Lost(o))'
  <2>1. CASE held[j].tick # tick
    BY <1>2, <1>6, <2>1 DEF IsHeld
  <2>2. /\ attempts[o].rule # 0 /\ attempts[o].copies = 1
        /\ ActionOf(o).kind = "ReorderAtTick" /\ ActionOf(o).tick = held[j].tick
        /\ \A c \in Known : c.event.ordinal # o
    BY <1>6 DEF HeldSound
  <2>3. CASE \E c \in added : c.event = held[j].envelope
    <3>1. PICK c \in added : c.event = held[j].envelope
      BY <2>3
    <3>2. \A d : d \in Known' /\ d.event.ordinal = o <=> d = c
      BY <1>1, <1>2, <1>6, <2>2, <3>1
    <3>3. CopiesOf(o)' = {c}
      BY <3>2 DEF CopiesOf
    <3>4. Cardinality({c}) = 1
      BY FS_Singleton
    <3> QED
      BY <1>1, <2>2, <3>3, <3>4
  <2>4. CASE held[j].tick = tick /\ ~\E c \in added : c.event = held[j].envelope
    <3>1. tick < now \/ nextSequence' = MaxSequence
      BY <1>2, <2>4
    <3>2. \A c \in added : c.event.ordinal # o
      <4>1. ASSUME NEW c \in added, c.event.ordinal = o PROVE FALSE
        <5>1. PICK k \in DOMAIN held : c.event = held[k].envelope
          BY <1>1
        <5>2. k = j
          BY <1>6, <4>1, <5>1, HeldAreOnce DEF HeldOnce
        <5> QED
          BY <2>4, <5>1, <5>2
      <4> QED
        BY <4>1
    <3>3. CopiesOf(o)' = {}
      BY <1>1, <2>2, <3>2 DEF CopiesOf
    <3>4. now > ActionOf(o).tick \/ nextSequence' = MaxSequence
      BY <2>2, <2>4, <3>1 DEF TypeOK, Tick
    <3>5. Lost(o)'
      BY <1>1, <1>4, <2>2, <3>4 DEF Lost
    <3> QED
      BY <3>3, <3>5
  <2> QED
    BY <2>1, <2>3, <2>4
<1> QED
  BY <1>1, <1>5, <1>6 DEF Accounted, IsHeld

LEMMA ReleasedKeeps ==
    ASSUME NetworkInv, NEW tick \in Tick, NEW added, ReleasedAs(tick, added)
    PROVE  NetworkInv'
<1> USE DEF NetworkInv
<1>1. /\ Joins(added) /\ UNCHANGED <<now, rules, partitions, crashed, attempts, delivered, discarded>>
      /\ \A c : c \in Known' <=> c \in Known \/ c \in added
      /\ \A c \in added : c.event.ordinal \in DOMAIN attempts
  BY ReleasedIs
<1>2. Numbered' /\ DeliveredInOrder' /\ Due'
  BY <1>1, JoinsKeepsOrder
<1>3. TypeOK'
  <2>1. queue' \subseteq Scheduled /\ nextSequence' \in 0 .. MaxSequence
    BY <1>1, BoundsAssumption DEF Joins, TypeOK
  <2>2. held' \in Seq(HeldDelivery)
    BY DEF ReleasedAs
  <2> QED
    BY <1>1, <2>1, <2>2 DEF TypeOK
<1>4. Attempted'
  <2>1. DOMAIN attempts = 1 .. Len(attempts)
    BY DEF TypeOK
  <2>2. \A c \in Known' : c.event.ordinal <= Len(attempts)
    BY <1>1, <2>1 DEF Attempted
  <2>3. \A k \in DOMAIN held' : held'[k].envelope.ordinal <= Len(attempts)
    BY DEF ReleasedAs, Attempted
  <2> QED
    BY <1>1, <2>2, <2>3 DEF Attempted
<1>5. UsedOnce'
  BY <1>1 DEF UsedOnce
<1> QED
  BY <1>2, <1>3, <1>4, <1>5, ReleasedPlain, ReleasedHeld, ReleasedAccounted

---------------------------------------------------------------------------
(* The invariant, and what follows from it.                                *)

LEMMA NetworkInit ==
    ASSUME Init
    PROVE  NetworkInv
<1> USE DEF Init
<1>1. TypeOK
  BY BoundsAssumption DEF TypeOK, Tick
<1>2. /\ DOMAIN << >> = {} /\ Len(<< >>) = 0
      /\ Known = {} /\ queue = {} /\ Arrived = {} /\ discarded = {}
  BY DEF Known, Arrived
<1>3. Numbered /\ DeliveredInOrder /\ Due
  BY <1>2, FS_EmptySet DEF Numbered, DeliveredInOrder, Due
<1>4. Attempted
  BY <1>2, BoundsAssumption DEF Attempted
<1> QED
  BY <1>1, <1>2, <1>3, <1>4 DEF NetworkInv, PlainInOrder, HeldSound, UsedOnce, Accounted

LEMMA NetworkNext ==
    ASSUME NetworkInv, [Next]_vars
    PROVE  NetworkInv'
<1>1. CASE UNCHANGED vars
  <2>1. Arranges
    BY <1>1 DEF vars, Arranges, NetworkInv, TypeOK
  <2> QED
    BY <2>1, ArrangesKeeps
<1>2. CASE Next
  <2>1. HeldOnce
    BY HeldAreOnce DEF NetworkInv
  <2>2. \/ Arranges
        \/ \E e, i, added : SentAs(e, i, added)
        \/ \E tick \in Tick : \E added : ReleasedAs(tick, added)
        \/ Passes /\ Numbered' /\ DeliveredInOrder' /\ Due'
    BY <1>2, <2>1, StepIs DEF NetworkInv
  <2> QED
    BY <2>2, ArrangesKeeps, SentKeeps, ReleasedKeeps, PassesKeeps
<1> QED
  BY <1>1, <1>2

LEMMA NetworkAlways == Spec => []NetworkInv
BY NetworkInit, NetworkNext, PTL DEF Spec

(* Every variable keeps its type: in particular the insertion sequence     *)
(* stays within its counter and the clock within its range.                *)
THEOREM NetworkTyped == Spec => []TypeOK
<1>1. NetworkInv => TypeOK
  BY DEF NetworkInv
<1> QED
  BY <1>1, NetworkAlways, PTL

(* Deliveries never go back in time, and everything still queued comes     *)
(* after them (driver.rs:86-134).                                          *)
THEOREM AlwaysDeliveredInOrder == Spec => []DeliveredInOrder
<1>1. NetworkInv => DeliveredInOrder
  BY DEF NetworkInv
<1> QED
  BY <1>1, NetworkAlways, PTL

(* Messages no rule touches arrive in the order they were sent             *)
(* (network.rs:130-134).                                                   *)
THEOREM AlwaysUnfaultedInOrder == Spec => []UnfaultedInOrder
<1>1. ASSUME NetworkInv PROVE UnfaultedInOrder
  <2>1. ASSUME NEW i \in 1 .. Len(delivered), NEW j \in 1 .. Len(delivered), i < j,
               Plain(delivered[i]), Plain(delivered[j])
        PROVE  delivered[i].event.ordinal < delivered[j].event.ordinal
    <3> DEFINE c == delivered[i]
               d == delivered[j]
    <3>1. c \in Arrived /\ d \in Arrived /\ c \in Scheduled /\ d \in Scheduled
      BY <1>1 DEF Arrived, NetworkInv, TypeOK
    <3>2. Before(c, d)
      BY <1>1, <2>1 DEF NetworkInv, DeliveredInOrder
    <3> HIDE DEF c, d
    <3>3. /\ c.tick \in Nat /\ c.sequence \in Nat /\ c.event.ordinal \in Nat
          /\ d.tick \in Nat /\ d.sequence \in Nat /\ d.event.ordinal \in Nat
      BY <3>1, ScheduledIs
    <3>4. ~Before(d, c) /\ c # d
      BY <3>2, <3>3 DEF Before
    <3>5. Plain(c) /\ Plain(d)
      BY <2>1 DEF c, d
    <3>6. /\ d.event.ordinal < c.event.ordinal => Before(d, c)
          /\ c.event.ordinal = d.event.ordinal => c = d
      BY <1>1, <3>1, <3>5 DEF NetworkInv, PlainInOrder
    <3>7. c.event.ordinal < d.event.ordinal
      BY <3>3, <3>4, <3>6
    <3> QED
      BY <3>7 DEF c, d
  <2> QED
    BY <2>1 DEF UnfaultedInOrder, Plain
<1> QED
  BY <1>1, NetworkAlways, PTL

(* A one-shot rule strikes one attempt at most, and counts as used up      *)
(* exactly when it did (fault.rs:85-95).                                   *)
THEOREM AlwaysOneShot == Spec => []OneShotRules
<1>1. ASSUME NetworkInv PROVE OneShotRules
  <2>1. ASSUME NEW i \in 1 .. Len(rules), rules[i].consuming,
               NEW used, used = {o \in 1 .. Len(attempts) : attempts[o].rule = i}
        PROVE  Cardinality(used) = IF rules[i].consumed THEN 1 ELSE 0
    <3>1. /\ DOMAIN attempts = 1 .. Len(attempts) /\ DOMAIN rules = 1 .. Len(rules)
          /\ Len(rules) \in Nat
      BY <1>1 DEF NetworkInv, TypeOK
    <3>2. i # 0
      BY <3>1
    <3>3. CASE rules[i].consumed
      <4>1. PICK o \in DOMAIN attempts : attempts[o].rule = i
        BY <1>1, <3>1, <3>3, <2>1 DEF NetworkInv, UsedOnce
      <4>2. \A p : p \in used <=> p = o
        BY <1>1, <2>1, <3>1, <3>2, <4>1 DEF NetworkInv, UsedOnce
      <4>3. used = {o}
        BY <4>2
      <4>4. Cardinality({o}) = 1
        BY FS_Singleton
      <4> QED
        BY <3>3, <4>3, <4>4
    <3>4. CASE ~rules[i].consumed
      <4>1. \A p : p \notin used
        BY <1>1, <2>1, <3>1, <3>2, <3>4 DEF NetworkInv, UsedOnce
      <4>2. used = {}
        BY <4>1
      <4> QED
        BY <3>4, <4>2, FS_EmptySet
    <3> QED
      BY <3>3, <3>4
  <2> QED
    BY <2>1 DEF OneShotRules
<1> QED
  BY <1>1, NetworkAlways, PTL

LEMMA ArrivedFinite ==
    ASSUME TypeOK
    PROVE  IsFiniteSet(Arrived) /\ ToSet(delivered) = Arrived
<1>1. /\ Len(delivered) \in Nat /\ DOMAIN delivered = 1 .. Len(delivered)
      /\ delivered \in [1 .. Len(delivered) -> Arrived]
  BY DEF TypeOK, Arrived
<1>2. \A c \in Arrived : \E i \in 1 .. Len(delivered) : delivered[i] = c
  BY <1>1 DEF Arrived
<1>3. delivered \in Surjection(1 .. Len(delivered), Arrived)
  BY <1>1, <1>2 DEF Surjection
<1>4. IsFiniteSet(1 .. Len(delivered))
  BY <1>1, FS_Interval
<1>5. IsFiniteSet(Arrived)
  BY <1>3, <1>4, FS_Surjection
<1> QED
  BY <1>5 DEF ToSet, Arrived

(* The copies of an attempt, counted place by place.                       *)
LEMMA CopiesCounted ==
    ASSUME NetworkInv, NEW o
    PROVE  LET Of(S) == {c \in S : c.event.ordinal = o}
           IN  /\ Cardinality(Of(queue)) \in Nat
               /\ Cardinality(Of(Arrived)) \in Nat
               /\ Cardinality(Of(discarded)) \in Nat
               /\ Cardinality(CopiesOf(o)) =
                     Cardinality(Of(queue)) + Cardinality(Of(Arrived)) + Cardinality(Of(discarded))
<1> DEFINE Of(S) == {c \in S : c.event.ordinal = o}
           A == Of(queue)
           B == Of(Arrived)
           C == Of(discarded)
<1>1. IsFiniteSet(queue) /\ IsFiniteSet(Arrived) /\ IsFiniteSet(discarded)
  BY ArrivedFinite DEF NetworkInv, Numbered
<1>2. IsFiniteSet(A) /\ IsFiniteSet(B) /\ IsFiniteSet(C)
  <2>1. A \in SUBSET queue /\ B \in SUBSET Arrived /\ C \in SUBSET discarded
    OBVIOUS
  <2> HIDE DEF A, B, C
  <2> QED
    BY <1>1, <2>1, FS_Subset
<1>3. A \cap B = {} /\ (A \cup B) \cap C = {}
  BY DEF NetworkInv, Numbered
<1>4. CopiesOf(o) = (A \cup B) \cup C
  BY DEF CopiesOf, Known
<1> HIDE DEF A, B, C
<1>5. Cardinality(A) \in Nat /\ Cardinality(B) \in Nat /\ Cardinality(C) \in Nat
  BY <1>2, FS_CardinalityType
<1>6. Cardinality({}) = 0
  BY FS_EmptySet
<1>7. IsFiniteSet(A \cup B) /\ Cardinality(A \cup B) = Cardinality(A) + Cardinality(B)
  <2>1. /\ IsFiniteSet(A \cup B)
        /\ Cardinality(A \cup B) = Cardinality(A) + Cardinality(B) - Cardinality(A \cap B)
    BY <1>2, FS_Union
  <2>2. Cardinality(A \cap B) = 0
    BY <1>3, <1>6
  <2> QED
    BY <1>5, <2>1, <2>2
<1>8. Cardinality((A \cup B) \cup C) = Cardinality(A \cup B) + Cardinality(C)
  <2>1. Cardinality((A \cup B) \cup C)
           = Cardinality(A \cup B) + Cardinality(C) - Cardinality((A \cup B) \cap C)
    BY <1>2, <1>7, FS_Union
  <2>2. Cardinality((A \cup B) \cap C) = 0
    BY <1>3, <1>6
  <2> QED
    BY <1>5, <1>7, <2>1, <2>2
<1>9. Cardinality(CopiesOf(o)) = Cardinality(A) + Cardinality(B) + Cardinality(C)
  BY <1>4, <1>7, <1>8
<1> QED
  BY <1>5, <1>9 DEF A, B, C

(* Nothing that send accepted vanishes: each of its copies is queued,      *)
(* delivered or was blocked at its instant, or the message is still held;  *)
(* or its release was refused (network.rs:107-201).                        *)
THEOREM AlwaysCopiesAccounted == Spec => []CopiesAccounted
<1>1. ASSUME NetworkInv PROVE CopiesAccounted
  <2>1. ASSUME NEW o \in 1 .. Len(attempts),
               NEW q, q = Cardinality({c \in queue : c.event.ordinal = o}),
               NEW a, a = Cardinality({c \in ToSet(delivered) : c.event.ordinal = o}),
               NEW d, d = Cardinality({c \in discarded : c.event.ordinal = o}),
               NEW h, h = Cardinality({i \in 1 .. Len(held) : held[i].envelope.ordinal = o})
        PROVE  \/ q + a + d + h = attempts[o].copies
               \/ q + a + d + h = 0 /\ Lost(o)
    <3>1. /\ o \in DOMAIN attempts /\ DOMAIN held = 1 .. Len(held)
          /\ ToSet(delivered) = Arrived
      BY <1>1, ArrivedFinite DEF NetworkInv, TypeOK
    <3>2. /\ q \in Nat /\ a \in Nat /\ d \in Nat /\ Cardinality(CopiesOf(o)) = q + a + d
      BY <1>1, <2>1, <3>1, CopiesCounted
    <3>3. CopiesOf(o) = {} => q + a + d = 0
      BY <3>2, FS_EmptySet
    <3> DEFINE H == {i \in 1 .. Len(held) : held[i].envelope.ordinal = o}
    <3>4. CASE IsHeld(o)
      <4>1. PICK i \in DOMAIN held : held[i].envelope.ordinal = o
        BY <3>4 DEF IsHeld
      <4>2. /\ attempts[o].copies = 1 /\ \A c \in Known : c.event.ordinal # o
            /\ \A j \in DOMAIN held : held[j].envelope.ordinal = o => i = j
        BY <1>1, <4>1 DEF NetworkInv, HeldSound
      <4>3. CopiesOf(o) = {}
        BY <4>2 DEF CopiesOf
      <4>4. H = {i}
        BY <3>1, <4>1, <4>2
      <4>5. Cardinality({i}) = 1
        BY FS_Singleton
      <4>6. h = 1
        BY <2>1, <4>4, <4>5
      <4> QED
        BY <3>3, <4>2, <4>3, <4>6
    <3>5. CASE ~IsHeld(o)
      <4>1. H = {}
        BY <3>1, <3>5 DEF IsHeld
      <4>2. h = 0
        BY <2>1, <4>1, FS_EmptySet
      <4>3. Cardinality(CopiesOf(o)) = attempts[o].copies \/ (CopiesOf(o) = {} /\ Lost(o))
        BY <1>1, <3>1, <3>5 DEF NetworkInv, Accounted
      <4> QED
        BY <3>2, <3>3, <4>2, <4>3
    <3> QED
      BY <3>4, <3>5
  <2> QED
    BY <2>1, SMTT(30) DEF CopiesAccounted, Lost, ActionOf
<1> QED
  BY <1>1, NetworkAlways, PTL

=============================================================================
