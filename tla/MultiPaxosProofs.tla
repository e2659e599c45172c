-------------------------- MODULE MultiPaxosProofs --------------------------
(***************************************************************************)
(* Proofs about MultiPaxos: its types, the quorums behind every proposal   *)
(* and every decision, the promises of nodes that stay up, and what holds  *)
(* of agreement when callers are careful.                                  *)
(***************************************************************************)
EXTENDS MultiPaxos, FiniteSetTheorems, TLAPS

(* What the messages carry.                                                *)
Shape(m) ==
    /\ m.type \in {"Prepare", "Promise", "Accept", "Accepted", "Decision"}
    /\ m.ballot \in Ballot
    /\ m.type = "Prepare" => m.ballot.proposer = m.from
    /\ m.type \in {"Promise", "Accepted"} => m.from \in Nodes
    /\ m.type = "Promise" => m.accepted \in [Slots -> AcceptedValue \cup {None}]
    /\ m.type \in {"Accept", "Accepted", "Decision"} => m.slot \in Slots /\ m.command \in Commands

MessagesShaped == \A m \in msgs : Shape(m)

TypeInv == TypeOK /\ MessagesShaped

(* A promise a proposer counts was sent for its own ballot, or is its own. *)
Promisers(b) == {b.proposer} \cup {p.from : p \in {q \in Sent("Promise") : q.ballot = b}}

PromisesWereSent == \A n \in Nodes : promises[n] \subseteq Promisers(Own(n))

(* A vote a proposer counts was cast under one of its ballots so far.      *)
VotesUpTo(n, s, r) ==
    {v \in Sent("Accepted") : v.slot = s /\ v.ballot.proposer = n /\ v.ballot.round <= r}

VotesWereSent ==
    \A n \in Nodes, s \in Slots :
        acceptedVotes[n][s] \subseteq {v.from : v \in VotesUpTo(n, s, round[n])}

QuorumInv ==
    TypeInv /\ PromisesWereSent /\ VotesWereSent /\ ProposalsHavePromises /\ DecisionsHaveVotes

(* A node that stays up has promised at least all it answered or voted for. *)
Answered(n) == {m \in msgs : m.type \in {"Promise", "Accepted"} /\ m.from = n}

PromiseCovers ==
    \A n \in Nodes \ Crashing : \A m \in Answered(n) :
        promised[n] # None /\ ~Newer(m.ballot, promised[n])

PromiseInv == TypeInv /\ PromiseCovers

(* What a step owes the promises of a node.                                *)
PromiseKept(n) ==
    /\ \A m \in Answered(n)' : promised'[n] # None /\ ~Newer(m.ballot, promised'[n])
    /\ \A m \in Answered(n) :
          /\ promised'[n] # None /\ ~Newer(m.ballot, promised'[n])
          /\ \A x \in msgs' \ msgs : x.type = "Accepted" /\ x.from = n =>
                ~Newer(m.ballot, x.ballot)

(* What careful callers keep: one that stays up remembers all it proposed  *)
(* under its node's ballot, so such a ballot proposes one value for a      *)
(* slot; and what is voted for and decided was proposed under that ballot. *)
Alike(m1, m2) == m1.slot = m2.slot /\ m1.ballot = m2.ballot /\ m1.command = m2.command

CallerRemembers(n) ==
    /\ \A m \in Sent("Accept") : m.ballot.proposer = n =>
          /\ m.ballot.round <= round[n]
          /\ m.ballot = Own(n) => <<m.slot, m.command>> \in proposals[n]
    /\ \A s \in Slots, c, d \in Commands :
          <<s, c>> \in proposals[n] /\ <<s, d>> \in proposals[n] => c = d

ProposedOnce(n) ==
    \A m1, m2 \in Sent("Accept") :
        m1.slot = m2.slot /\ m1.ballot = m2.ballot /\ m1.ballot.proposer = n
        => m1.command = m2.command

OnlyProposed ==
    \A v \in Sent("Accepted") \cup Sent("Decision") : \E m \in Sent("Accept") : Alike(m, v)

BallotInv ==
    /\ TypeInv /\ OnlyProposed
    /\ \A n \in Nodes \ Crashing : CallerRemembers(n) /\ ProposedOnce(n)

---------------------------------------------------------------------------
(* Types.                                                                  *)

LEMMA InitTypeInv == Init => TypeInv
BY BoundsAssumption DEF Init, TypeInv, TypeOK, MessagesShaped

LEMMA OwnTyped == ASSUME TypeInv, NEW n \in Nodes PROVE Own(n) \in Ballot
BY DEF TypeInv, TypeOK, Own, Ballot

(* The steps of one node keep the types.                                   *)
LEMMA StartRoundTyped ==
    ASSUME TypeInv, NEW n \in Nodes, StartRound(n) PROVE TypeInv'
<1>1. round[n] + 1 \in 0 .. MaxRound
  BY BoundsAssumption DEF StartRound, TypeInv, TypeOK
<1>2. [round |-> round[n] + 1, proposer |-> n] \in Ballot
  BY <1>1 DEF Ballot
<1>3. TypeOK'
  BY <1>1 DEF StartRound, TypeInv, TypeOK
<1>4. MessagesShaped'
  BY <1>2 DEF StartRound, TypeInv, MessagesShaped, Shape
<1>5. QED
  BY <1>3, <1>4 DEF TypeInv

LEMMA ProposeTyped ==
    ASSUME TypeInv, NEW n \in Nodes, NEW s \in Slots, NEW c \in Commands, Propose(n, s, c)
    PROVE  TypeInv'
<1>1. TypeOK'
  BY DEF Propose, TypeInv, TypeOK
<1>2. MessagesShaped'
  BY OwnTyped DEF Propose, TypeInv, MessagesShaped, Shape
<1>3. QED
  BY <1>1, <1>2 DEF TypeInv

LEMMA PromiseTyped ==
    ASSUME TypeInv, NEW n \in Nodes, Promise(n) PROVE TypeInv'
<1>1. PICK m \in Received(n, "Promise") :
         /\ promises' = [promises EXCEPT ![n] = @ \cup {m.from}]
         /\ \E taken : accepted' = [accepted EXCEPT ![n] =
               [s \in Slots |-> IF s \in taken THEN m.accepted[s] ELSE @[s]]]
         /\ UNCHANGED <<round, promised, acceptedVotes, proposals, msgs>>
  <2>1. PICK m \in Received(n, "Promise") :
           /\ promises' = [promises EXCEPT ![n] = @ \cup {m.from}]
           /\ accepted' = [accepted EXCEPT ![n] =
                 [s \in Slots |->
                    IF /\ m.accepted[s] # None
                       /\ accepted[n][s] # None =>
                             Newer(m.accepted[s].ballot, accepted[n][s].ballot)
                    THEN m.accepted[s] ELSE @[s]]]
           /\ UNCHANGED <<round, promised, acceptedVotes, proposals, msgs>>
    BY DEF Promise
  <2> DEFINE taken == {s \in Slots :
                          /\ m.accepted[s] # None
                          /\ accepted[n][s] # None =>
                                Newer(m.accepted[s].ballot, accepted[n][s].ballot)}
  <2>2. accepted' = [accepted EXCEPT ![n] =
               [s \in Slots |-> IF s \in taken THEN m.accepted[s] ELSE @[s]]]
    BY <2>1
  <2> HIDE DEF taken
  <2>3. QED
    BY <2>1, <2>2
<1>2. PICK taken : accepted' = [accepted EXCEPT ![n] =
               [s \in Slots |-> IF s \in taken THEN m.accepted[s] ELSE @[s]]]
  BY <1>1
<1>3. m \in msgs /\ m.type = "Promise"
  BY DEF Received, Sent
<1>4. m.from \in Nodes /\ m.accepted \in [Slots -> AcceptedValue \cup {None}]
  BY <1>3 DEF TypeInv, MessagesShaped, Shape
<1>5. accepted[n] \in [Slots -> AcceptedValue \cup {None}]
  BY DEF TypeInv, TypeOK
<1>6. [s \in Slots |-> IF s \in taken THEN m.accepted[s] ELSE accepted[n][s]]
        \in [Slots -> AcceptedValue \cup {None}]
  BY <1>4, <1>5
<1>7. accepted' \in [Nodes -> [Slots -> AcceptedValue \cup {None}]]
  BY <1>2, <1>6 DEF TypeInv, TypeOK
<1>8. QED
  BY <1>1, <1>4, <1>7 DEF TypeInv, TypeOK, MessagesShaped

Decisions(m) ==
    {[type |-> "Decision", to |-> p, ballot |-> m.ballot,
      slot |-> m.slot, command |-> m.command] : p \in Nodes}

(* A counted vote, and the decision that goes with a majority.             *)
LEMMA AcceptedVoteCounts ==
    ASSUME NEW n \in Nodes, AcceptedVote(n)
    PROVE  \E m \in Received(n, "Accepted") :
             /\ m.ballot = Own(n)
             /\ acceptedVotes' = [acceptedVotes EXCEPT ![n][m.slot] = @ \cup {m.from}]
             /\ \/ msgs' = msgs
                \/ /\ IsMajority(acceptedVotes'[n][m.slot])
                   /\ msgs' = msgs \cup Decisions(m)
             /\ UNCHANGED <<round, promised, accepted, promises, proposals>>
<1>1. PICK m \in Received(n, "Accepted") :
         /\ m.ballot = Own(n)
         /\ acceptedVotes' = [acceptedVotes EXCEPT ![n][m.slot] = @ \cup {m.from}]
         /\ msgs' = msgs \cup IF IsMajority(acceptedVotes'[n][m.slot]) THEN Decisions(m) ELSE {}
         /\ UNCHANGED <<round, promised, accepted, promises, proposals>>
  BY Zenon DEF AcceptedVote, Decisions
<1>2. CASE IsMajority(acceptedVotes'[n][m.slot])
  BY <1>1, <1>2
<1>3. CASE ~IsMajority(acceptedVotes'[n][m.slot])
  <2>1. msgs' = msgs
    BY <1>1, <1>3
  <2>2. QED
    BY <1>1, <2>1
<1>4. QED
  BY <1>2, <1>3

LEMMA AcceptedVoteTyped ==
    ASSUME TypeInv, NEW n \in Nodes, AcceptedVote(n) PROVE TypeInv'
<1>1. PICK m \in Received(n, "Accepted") :
         /\ acceptedVotes' = [acceptedVotes EXCEPT ![n][m.slot] = @ \cup {m.from}]
         /\ msgs' = msgs \/ msgs' = msgs \cup Decisions(m)
         /\ UNCHANGED <<round, promised, accepted, promises, proposals>>
  BY AcceptedVoteCounts
<1>2. m \in msgs /\ m.type = "Accepted"
  BY DEF Received, Sent
<1>3. m.ballot \in Ballot /\ m.from \in Nodes /\ m.slot \in Slots /\ m.command \in Commands
  BY <1>2 DEF TypeInv, MessagesShaped, Shape
<1>4. acceptedVotes' \in [Nodes -> [Slots -> SUBSET Nodes]]
  BY <1>1, <1>3 DEF TypeInv, TypeOK
<1>5. MessagesShaped'
  BY <1>1, <1>3 DEF TypeInv, MessagesShaped, Shape, Decisions
<1>6. QED
  BY <1>1, <1>4, <1>5 DEF TypeInv, TypeOK

LEMMA PrepareTyped ==
    ASSUME TypeInv, NEW n \in Nodes, Prepare(n) PROVE TypeInv'
<1>1. PICK m \in Received(n, "Prepare") :
         /\ promised' = [promised EXCEPT ![n] = m.ballot]
         /\ msgs' = msgs \cup {[type |-> "Promise", to |-> m.from, from |-> n,
                                ballot |-> m.ballot, accepted |-> accepted[n]]}
         /\ UNCHANGED <<round, accepted, promises, acceptedVotes, proposals>>
  BY DEF Prepare
<1>2. m.ballot \in Ballot
  BY DEF Received, Sent, TypeInv, MessagesShaped, Shape
<1>3. TypeOK'
  BY <1>1, <1>2 DEF TypeInv, TypeOK
<1>4. MessagesShaped'
  BY <1>1, <1>2 DEF TypeInv, TypeOK, MessagesShaped, Shape
<1>5. QED
  BY <1>3, <1>4 DEF TypeInv

(* A value with its ballot replaces a node's accepted value of a slot.     *)
LEMMA StoredTyped ==
    ASSUME TypeInv, NEW n \in Nodes, NEW m \in msgs,
           m.type \in {"Accept", "Decision"},
           accepted' = [accepted EXCEPT ![n][m.slot] =
                           [ballot |-> m.ballot, command |-> m.command]]
    PROVE  /\ m.ballot \in Ballot /\ m.slot \in Slots /\ m.command \in Commands
           /\ accepted' \in [Nodes -> [Slots -> AcceptedValue \cup {None}]]
<1>1. m.ballot \in Ballot /\ m.slot \in Slots /\ m.command \in Commands
  BY DEF TypeInv, MessagesShaped, Shape
<1>2. [ballot |-> m.ballot, command |-> m.command] \in AcceptedValue
  BY <1>1 DEF AcceptedValue
<1>3. QED
  BY <1>1, <1>2 DEF TypeInv, TypeOK

LEMMA AcceptTyped ==
    ASSUME TypeInv, NEW n \in Nodes, Accept(n) PROVE TypeInv'
<1>1. PICK m \in Received(n, "Accept") :
         /\ promised' = [promised EXCEPT ![n] = m.ballot]
         /\ accepted' = [accepted EXCEPT ![n][m.slot] =
                            [ballot |-> m.ballot, command |-> m.command]]
         /\ msgs' = msgs \cup {[type |-> "Accepted", to |-> m.ballot.proposer, from |-> n,
                                ballot |-> m.ballot, slot |-> m.slot, command |-> m.command]}
         /\ UNCHANGED <<round, promises, acceptedVotes, proposals>>
  BY DEF Accept
<1>2. m \in msgs /\ m.type = "Accept"
  BY DEF Received, Sent
<1>3. TypeOK'
  BY <1>1, <1>2, StoredTyped DEF TypeInv, TypeOK
<1>4. MessagesShaped'
  BY <1>1, <1>2, StoredTyped DEF TypeInv, MessagesShaped, Shape
<1>5. QED
  BY <1>3, <1>4 DEF TypeInv

LEMMA DecisionTyped ==
    ASSUME TypeInv, NEW n \in Nodes, Decision(n) PROVE TypeInv'
<1>1. PICK m \in Received(n, "Decision") :
         /\ accepted' = [accepted EXCEPT ![n][m.slot] =
                            [ballot |-> m.ballot, command |-> m.command]]
         /\ UNCHANGED <<round, promised, promises, acceptedVotes, proposals, msgs>>
  BY DEF Decision
<1>2. m \in msgs /\ m.type = "Decision"
  BY DEF Received, Sent
<1>3. QED
  BY <1>1, <1>2, StoredTyped DEF TypeInv, TypeOK, MessagesShaped

LEMMA RestartTyped ==
    ASSUME TypeInv, NEW n \in Nodes, Restart(n) PROVE TypeInv'
<1>1. PICK stored \in [Slots -> AcceptedValue \cup {None}] : NewNode(n, stored)
  BY DEF Restart
<1>2. msgs' = msgs
  BY DEF Restart
<1>3. 0 \in 0 .. MaxRound
  BY BoundsAssumption
<1>4. TypeOK'
  BY <1>1, <1>3 DEF NewNode, TypeInv, TypeOK
<1>5. QED
  BY <1>2, <1>4 DEF TypeInv, MessagesShaped

LEMMA NextTypeInv == TypeInv /\ [Next]_vars => TypeInv'
<1> SUFFICES ASSUME TypeInv, [Next]_vars PROVE TypeInv'
  OBVIOUS
<1>1. ASSUME NEW n \in Proposers, StartRound(n) PROVE TypeInv'
  BY <1>1, RolesAssumption, StartRoundTyped
<1>2. ASSUME NEW n \in Proposers, NEW s \in Slots, NEW c \in Commands, Propose(n, s, c)
      PROVE TypeInv'
  BY <1>2, RolesAssumption, ProposeTyped
<1>3. ASSUME NEW n \in Nodes,
             Promise(n) \/ AcceptedVote(n) \/ Prepare(n) \/ Accept(n) \/ Decision(n)
      PROVE TypeInv'
  BY <1>3, PromiseTyped, AcceptedVoteTyped, PrepareTyped, AcceptTyped, DecisionTyped
<1>4. ASSUME NEW n \in Crashing, Restart(n) PROVE TypeInv'
  BY <1>4, RolesAssumption, RestartTyped
<1>5. CASE UNCHANGED vars
  BY <1>5 DEF vars, TypeInv, TypeOK, MessagesShaped
<1>6. QED
  BY <1>1, <1>2, <1>3, <1>4, <1>5 DEF Next

---------------------------------------------------------------------------
(* Quorums.  A set that holds a majority is one.                           *)
LEMMA MajorityGrows ==
    ASSUME NEW S, NEW T, T \subseteq Nodes, S \subseteq T, IsMajority(S)
    PROVE  IsMajority(T)
<1>1. IsFiniteSet(T) /\ IsFiniteSet(Nodes)
  BY NodesAssumption, FS_Subset
<1>2. IsFiniteSet(S) /\ Cardinality(S) <= Cardinality(T)
  BY <1>1, FS_Subset
<1>3. Cardinality(S) \in Nat /\ Cardinality(T) \in Nat /\ Cardinality(Nodes) \in Nat
  BY <1>1, <1>2, FS_CardinalityType
<1>4. QED
  BY <1>2, <1>3 DEF IsMajority

(* Everybody who promised or voted is a node.                              *)
LEMMA QuorumsOfNodes ==
    ASSUME TypeInv
    PROVE  /\ \A b \in Ballot : Promisers(b) \subseteq Nodes
           /\ \A n, s, r : {v.from : v \in VotesUpTo(n, s, r)} \subseteq Nodes
BY DEF TypeInv, MessagesShaped, Shape, Promisers, VotesUpTo, Sent, Ballot

(* No message is withdrawn: every set of promises and votes only grows.    *)
LEMMA EvidenceGrows ==
    ASSUME TypeInv, msgs \subseteq msgs'
    PROVE  /\ \A b : Promisers(b) \subseteq Promisers(b)'
           /\ \A n, s, r : VotesUpTo(n, s, r) \subseteq VotesUpTo(n, s, r)'
           /\ \A type : Sent(type) \subseteq Sent(type)'
BY DEF Promisers, VotesUpTo, Sent

(* Proposals and decisions already made keep their quorums.                *)
LEMMA EvidenceKept ==
    ASSUME TypeInv, TypeInv', msgs \subseteq msgs', ProposalsHavePromises, DecisionsHaveVotes
    PROVE  /\ \A m \in Sent("Accept") : IsMajority(Promisers(m.ballot))'
           /\ \A m \in Sent("Decision") :
                 LET votes == VotesUpTo(m.ballot.proposer, m.slot, m.ballot.round)'
                 IN  /\ IsMajority({v.from : v \in votes})
                     /\ \E v \in votes : v.ballot = m.ballot /\ v.command = m.command
<1>1. ASSUME NEW m \in Sent("Accept") PROVE IsMajority(Promisers(m.ballot))'
  <2>1. m.ballot \in Ballot
    BY DEF TypeInv, MessagesShaped, Shape, Sent
  <2>2. IsMajority(Promisers(m.ballot))
    BY DEF ProposalsHavePromises, Promisers
  <2>3. Promisers(m.ballot) \subseteq Promisers(m.ballot)'
    BY EvidenceGrows
  <2>4. Promisers(m.ballot)' \subseteq Nodes
    BY <2>1 DEF TypeInv, MessagesShaped, Shape, Promisers, Sent, Ballot
  <2>5. IsMajority(Promisers(m.ballot)')
    BY <2>2, <2>3, <2>4, MajorityGrows
  <2>6. QED
    BY <2>5 DEF IsMajority
<1>2. ASSUME NEW m \in Sent("Decision")
      PROVE  LET votes == VotesUpTo(m.ballot.proposer, m.slot, m.ballot.round)'
             IN  /\ IsMajority({v.from : v \in votes})
                 /\ \E v \in votes : v.ballot = m.ballot /\ v.command = m.command
  <2> DEFINE before == VotesUpTo(m.ballot.proposer, m.slot, m.ballot.round)
             after == VotesUpTo(m.ballot.proposer, m.slot, m.ballot.round)'
  <2>1. /\ IsMajority({v.from : v \in before})
        /\ \E v \in before : v.ballot = m.ballot /\ v.command = m.command
    BY DEF DecisionsHaveVotes, VotesUpTo
  <2>2. before \subseteq after
    BY EvidenceGrows
  <2>3. {v.from : v \in after} \subseteq Nodes
    BY DEF TypeInv, MessagesShaped, Shape, VotesUpTo, Sent
  <2> HIDE DEF before, after
  <2>4. {v.from : v \in before} \subseteq {v.from : v \in after}
    BY <2>2
  <2>5. IsMajority({v.from : v \in after})
    BY <2>1, <2>3, <2>4, MajorityGrows
  <2>6. QED
    BY <2>1, <2>2, <2>5 DEF after
<1>3. QED
  BY <1>1, <1>2

(* A step that proposes nothing keeps the quorums of the proposals.        *)
LEMMA ProposalsKept ==
    ASSUME QuorumInv, TypeInv', msgs \subseteq msgs', Sent("Accept")' = Sent("Accept")
    PROVE  ProposalsHavePromises'
<1>1. ASSUME NEW m \in Sent("Accept")' PROVE IsMajority(Promisers(m.ballot)')
  <2>1. m \in Sent("Accept")
    BY <1>1
  <2>2. IsMajority(Promisers(m.ballot))'
    BY <2>1, EvidenceKept DEF QuorumInv
  <2>3. QED
    BY <2>2 DEF IsMajority
<1>2. QED
  BY <1>1 DEF ProposalsHavePromises, Promisers, IsMajority

(* A step that decides nothing keeps the quorums of the decisions.         *)
LEMMA DecisionsKept ==
    ASSUME QuorumInv, TypeInv', msgs \subseteq msgs', Sent("Decision")' = Sent("Decision")
    PROVE  DecisionsHaveVotes'
<1>1. ASSUME NEW m \in Sent("Decision")'
      PROVE  LET votes == VotesUpTo(m.ballot.proposer, m.slot, m.ballot.round)'
             IN  /\ IsMajority({v.from : v \in votes})
                 /\ \E v \in votes : v.ballot = m.ballot /\ v.command = m.command
  <2>1. m \in Sent("Decision")
    BY <1>1
  <2>2. QED
    BY <2>1, EvidenceKept DEF QuorumInv
<1>2. QED
  BY <1>1 DEF DecisionsHaveVotes, VotesUpTo, IsMajority

(* A step that sends neither proposal nor decision and counts nothing.     *)
LEMMA QuietStep ==
    ASSUME QuorumInv, TypeInv', msgs \subseteq msgs',
           \A m \in msgs' \ msgs : m.type \notin {"Accept", "Decision"},
           UNCHANGED <<round, promises, acceptedVotes, proposals>>
    PROVE  QuorumInv'
<1>1. ProposalsHavePromises'
  <2>1. Sent("Accept")' = Sent("Accept")
    BY DEF Sent
  <2>2. QED
    BY <2>1, ProposalsKept
<1>2. DecisionsHaveVotes'
  <2>1. Sent("Decision")' = Sent("Decision")
    BY DEF Sent
  <2>2. QED
    BY <2>1, DecisionsKept
<1>3. PromisesWereSent'
  BY DEF QuorumInv, PromisesWereSent, Promisers, Own, Sent
<1>4. VotesWereSent'
  BY DEF QuorumInv, VotesWereSent, VotesUpTo, Sent
<1>5. QED
  BY <1>1, <1>2, <1>3, <1>4 DEF QuorumInv

(* A new round starts with the proposer's own promise, and keeps votes.    *)
LEMMA StartRoundStep ==
    ASSUME QuorumInv, TypeInv', NEW n \in Nodes, StartRound(n) PROVE QuorumInv'
<1>1. /\ msgs \subseteq msgs' /\ \A m \in msgs' \ msgs : m.type = "Prepare"
      /\ round' = [round EXCEPT ![n] = @ + 1] /\ promises' = [promises EXCEPT ![n] = {n}]
      /\ acceptedVotes' = acceptedVotes
  BY DEF StartRound
<1>2. ProposalsHavePromises' /\ DecisionsHaveVotes'
  <2>1. Sent("Accept")' = Sent("Accept") /\ Sent("Decision")' = Sent("Decision")
    BY <1>1 DEF Sent
  <2>2. msgs \subseteq msgs'
    BY <1>1
  <2>3. QED
    BY <2>1, <2>2, ProposalsKept, DecisionsKept
<1>3. PromisesWereSent'
  BY <1>1 DEF QuorumInv, TypeInv, TypeOK, PromisesWereSent, Promisers, Own, Sent
<1>4. VotesWereSent'
  <2>1. ASSUME NEW p \in Nodes, NEW s \in Slots
        PROVE  VotesUpTo(p, s, round[p]) \subseteq VotesUpTo(p, s, round[p])'
    <3>1. round[p] \in Nat /\ round'[p] \in Nat /\ round[p] <= round'[p]
      <4>1. round \in [Nodes -> 0 .. MaxRound] /\ round' \in [Nodes -> 0 .. MaxRound]
        BY DEF QuorumInv, TypeInv, TypeOK
      <4>2. round'[p] = IF p = n THEN round[n] + 1 ELSE round[p]
        BY <1>1, <4>1
      <4>3. round[p] \in 0 .. MaxRound /\ round'[p] \in 0 .. MaxRound
        BY <4>1
      <4>4. QED
        BY <4>2, <4>3, BoundsAssumption
    <3>2. \A v \in Sent("Accepted") : v.ballot.round \in Nat
      BY BoundsAssumption DEF QuorumInv, TypeInv, MessagesShaped, Shape, Sent, Ballot
    <3>3. QED
      BY <1>1, <3>1, <3>2 DEF VotesUpTo, Sent
  <2>2. QED
    BY <1>1, <2>1 DEF QuorumInv, VotesWereSent
<1>5. QED
  BY <1>2, <1>3, <1>4 DEF QuorumInv

(* A proposal is made with a majority of promises for its ballot.          *)
LEMMA ProposeStep ==
    ASSUME QuorumInv, TypeInv', NEW n \in Nodes, NEW s \in Slots, NEW c \in Commands,
           Propose(n, s, c)
    PROVE  QuorumInv'
<1> PICK b : b = Own(n)
  OBVIOUS
<1>1. /\ msgs \subseteq msgs'
      /\ \A m \in msgs' \ msgs : m.type = "Accept" /\ m.ballot = b
      /\ UNCHANGED <<round, promises, acceptedVotes>> /\ IsMajority(promises[n])
  BY DEF Propose
<1>2. IsMajority(Promisers(b)')
  <2>1. promises[n] \subseteq Promisers(b)
    BY DEF QuorumInv, PromisesWereSent
  <2>2. Promisers(b) \subseteq Promisers(b)'
    BY <1>1 DEF Promisers, Sent
  <2>3. Promisers(b)' \subseteq Nodes
    BY DEF TypeInv, MessagesShaped, Shape, Promisers, Sent, Own
  <2>4. QED
    BY <1>1, <2>1, <2>2, <2>3, MajorityGrows
<1>3. ProposalsHavePromises'
  <2>1. ASSUME NEW m \in Sent("Accept")' PROVE IsMajority(Promisers(m.ballot)')
    <3>1. CASE m \in Sent("Accept")
      <4>1. IsMajority(Promisers(m.ballot))'
        BY <1>1, <3>1, EvidenceKept DEF QuorumInv
      <4>2. QED
        BY <4>1 DEF IsMajority
    <3>2. CASE m \notin Sent("Accept")
      <4>1. m.ballot = b
        BY <1>1, <3>2 DEF Sent
      <4>2. QED
        BY <1>2, <4>1
    <3>3. QED
      BY <3>1, <3>2
  <2>2. QED
    BY <2>1 DEF ProposalsHavePromises, Promisers, IsMajority
<1>4. DecisionsHaveVotes'
  <2>1. Sent("Decision")' = Sent("Decision")
    BY <1>1 DEF Sent
  <2>2. QED
    BY <1>1, <2>1, DecisionsKept
<1>5. PromisesWereSent' /\ VotesWereSent'
  BY <1>1 DEF QuorumInv, PromisesWereSent, Promisers, Own, VotesWereSent, VotesUpTo, Sent
<1>6. QED
  BY <1>3, <1>4, <1>5 DEF QuorumInv

(* A counted promise was sent for the current ballot.                      *)
LEMMA PromiseStep ==
    ASSUME QuorumInv, TypeInv', NEW n \in Nodes, Promise(n) PROVE QuorumInv'
<1>1. PICK m \in Received(n, "Promise") :
         /\ m.ballot = Own(n) /\ promises' = [promises EXCEPT ![n] = @ \cup {m.from}]
         /\ UNCHANGED <<round, promised, acceptedVotes, proposals, msgs>>
  BY DEF Promise
<1>2. m.from \in Promisers(Own(n))
  BY <1>1 DEF Received, Promisers
<1>3. PromisesWereSent'
  <2>1. promises \in [Nodes -> SUBSET Nodes]
    BY DEF QuorumInv, TypeInv, TypeOK
  <2>2. \A p \in Nodes : promises'[p] \subseteq Promisers(Own(p))
    BY <1>1, <1>2, <2>1 DEF QuorumInv, PromisesWereSent
  <2>3. QED
    BY <1>1, <2>2 DEF PromisesWereSent, Promisers, Own, Sent
<1>4. ProposalsHavePromises' /\ DecisionsHaveVotes'
  BY <1>1 DEF QuorumInv, ProposalsHavePromises, DecisionsHaveVotes, Sent, IsMajority
<1>5. VotesWereSent'
  BY <1>1 DEF QuorumInv, VotesWereSent, VotesUpTo, Sent
<1>6. QED
  BY <1>3, <1>4, <1>5 DEF QuorumInv

(* A counted vote was cast under the current ballot, and a majority of the *)
(* counted votes stands behind a decision.                                 *)
LEMMA AcceptedVoteStep ==
    ASSUME QuorumInv, TypeInv', NEW n \in Nodes, AcceptedVote(n) PROVE QuorumInv'
<1>1. PICK m \in Received(n, "Accepted") :
         /\ m.ballot = Own(n)
         /\ acceptedVotes' = [acceptedVotes EXCEPT ![n][m.slot] = @ \cup {m.from}]
         /\ \/ msgs' = msgs
            \/ /\ IsMajority(acceptedVotes'[n][m.slot])
               /\ msgs' = msgs \cup Decisions(m)
         /\ UNCHANGED <<round, promised, accepted, promises, proposals>>
  BY AcceptedVoteCounts
<1>2. /\ m \in Sent("Accepted") /\ m.slot \in Slots /\ m.ballot \in Ballot
      /\ m.ballot.proposer = n /\ m.ballot.round = round[n]
  BY <1>1 DEF Received, Sent, QuorumInv, TypeInv, MessagesShaped, Shape, Own
<1>3. round[n] \in Nat
  BY BoundsAssumption DEF QuorumInv, TypeInv, TypeOK
<1>4. msgs \subseteq msgs' /\ \A d \in msgs' \ msgs :
         d.type = "Decision" /\ d.ballot = m.ballot /\ d.slot = m.slot /\ d.command = m.command
  BY <1>1 DEF Decisions
<1>5. Sent("Accepted")' = Sent("Accepted") /\ Sent("Promise")' = Sent("Promise")
      /\ Sent("Accept")' = Sent("Accept")
  BY <1>4 DEF Sent
<1>6. m \in VotesUpTo(n, m.slot, round[n])
  BY <1>2, <1>3 DEF VotesUpTo
<1>7. ASSUME NEW p \in Nodes, NEW s \in Slots
      PROVE  acceptedVotes'[p][s] \subseteq {v.from : v \in VotesUpTo(p, s, round[p])}
  <2>1. acceptedVotes \in [Nodes -> [Slots -> SUBSET Nodes]]
    BY DEF QuorumInv, TypeInv, TypeOK
  <2>2. acceptedVotes'[p][s] =
           IF p = n /\ s = m.slot THEN acceptedVotes[p][s] \cup {m.from} ELSE acceptedVotes[p][s]
    BY <1>1, <1>2, <2>1
  <2>3. acceptedVotes[p][s] \subseteq {v.from : v \in VotesUpTo(p, s, round[p])}
    BY DEF QuorumInv, VotesWereSent
  <2>4. QED
    BY <1>6, <2>2, <2>3
<1>8. VotesWereSent'
  BY <1>1, <1>5, <1>7 DEF VotesWereSent, VotesUpTo
<1>9. PromisesWereSent' /\ ProposalsHavePromises'
  BY <1>1, <1>5
  DEF QuorumInv, PromisesWereSent, Promisers, Own, ProposalsHavePromises, IsMajority
<1>10. DecisionsHaveVotes'
  <2> DEFINE votes(d) == VotesUpTo(d.ballot.proposer, d.slot, d.ballot.round)
  <2>1. \A d : votes(d)' = votes(d)
    BY <1>5 DEF VotesUpTo
  <2>2. ASSUME NEW d \in Sent("Decision")'
        PROVE  /\ IsMajority({v.from : v \in votes(d)})
               /\ \E v \in votes(d) : v.ballot = d.ballot /\ v.command = d.command
    <3>1. CASE d \in Sent("Decision")
      BY <3>1 DEF QuorumInv, DecisionsHaveVotes, VotesUpTo
    <3>2. CASE d \notin Sent("Decision")
      <4>1. d \in msgs' \ msgs
        BY <3>2 DEF Sent
      <4>2. d.ballot = m.ballot /\ d.slot = m.slot /\ d.command = m.command
        BY <1>4, <4>1
      <4>3. IsMajority(acceptedVotes'[n][m.slot])
        BY <1>1, <4>1
      <4>4. votes(d) = VotesUpTo(n, m.slot, round[n])
        BY <1>2, <4>2
      <4>5. {v.from : v \in votes(d)} \subseteq Nodes
        BY <4>4, QuorumsOfNodes DEF QuorumInv
      <4>6. acceptedVotes'[n][m.slot] \subseteq {v.from : v \in votes(d)}
        BY <1>2, <1>7, <4>4
      <4> HIDE DEF votes
      <4>7. IsMajority({v.from : v \in votes(d)})
        BY <4>3, <4>5, <4>6, MajorityGrows
      <4>8. QED
        BY <1>6, <4>2, <4>4, <4>7
    <3>3. QED
      BY <3>1, <3>2
  <2>3. QED
    BY <2>1, <2>2 DEF DecisionsHaveVotes, VotesUpTo, IsMajority
<1>11. QED
  BY <1>8, <1>9, <1>10 DEF QuorumInv

(* A restarted node counts nothing.                                        *)
LEMMA RestartStep ==
    ASSUME QuorumInv, TypeInv', NEW n \in Nodes, Restart(n) PROVE QuorumInv'
<1>1. PICK stored : NewNode(n, stored)
  BY DEF Restart
<1>2. /\ msgs' = msgs /\ round' = [round EXCEPT ![n] = 0]
      /\ promises' = [promises EXCEPT ![n] = {}]
      /\ acceptedVotes' = [acceptedVotes EXCEPT ![n] = [s \in Slots |-> {}]]
  BY <1>1 DEF Restart, NewNode
<1>3. PromisesWereSent'
  BY <1>2 DEF QuorumInv, TypeInv, TypeOK, PromisesWereSent, Promisers, Own, Sent
<1>4. VotesWereSent'
  <2>1. ASSUME NEW p \in Nodes, NEW s \in Slots
        PROVE  acceptedVotes'[p][s] \subseteq {v.from : v \in VotesUpTo(p, s, round'[p])}
    <3>1. CASE p = n
      BY <1>2, <3>1 DEF QuorumInv, TypeInv, TypeOK
    <3>2. CASE p # n
      BY <1>2, <3>2 DEF QuorumInv, TypeInv, TypeOK, VotesWereSent
    <3>3. QED
      BY <3>1, <3>2
  <2>2. QED
    BY <1>2, <2>1 DEF VotesWereSent, VotesUpTo, Sent
<1>5. ProposalsHavePromises' /\ DecisionsHaveVotes'
  BY <1>2 DEF QuorumInv, ProposalsHavePromises, DecisionsHaveVotes, Sent, IsMajority
<1>6. QED
  BY <1>3, <1>4, <1>5 DEF QuorumInv

LEMMA InitQuorumInv == Init => QuorumInv
BY InitTypeInv
DEF Init, QuorumInv, PromisesWereSent, VotesWereSent, ProposalsHavePromises,
    DecisionsHaveVotes, Sent

LEMMA NextQuorumInv == QuorumInv /\ [Next]_vars => QuorumInv'
<1> SUFFICES ASSUME QuorumInv, [Next]_vars PROVE QuorumInv'
  OBVIOUS
<1>1. TypeInv'
  BY NextTypeInv DEF QuorumInv
<1>2. ASSUME NEW n \in Proposers, StartRound(n) PROVE QuorumInv'
  BY <1>1, <1>2, RolesAssumption, StartRoundStep
<1>3. ASSUME NEW n \in Proposers, NEW s \in Slots, NEW c \in Commands, Propose(n, s, c)
      PROVE  QuorumInv'
  BY <1>1, <1>3, RolesAssumption, ProposeStep
<1>4. ASSUME NEW n \in Nodes, Prepare(n) \/ Accept(n) \/ Decision(n) PROVE QuorumInv'
  <2>1. /\ msgs \subseteq msgs' /\ UNCHANGED <<round, promises, acceptedVotes, proposals>>
        /\ \A m \in msgs' \ msgs : m.type \notin {"Accept", "Decision"}
    <3>1. CASE Prepare(n)
      BY <3>1 DEF Prepare
    <3>2. CASE Accept(n)
      BY <3>2 DEF Accept
    <3>3. CASE Decision(n)
      BY <3>3 DEF Decision
    <3>4. QED
      BY <1>4, <3>1, <3>2, <3>3
  <2>2. QED
    BY <1>1, <2>1, QuietStep
<1>5. ASSUME NEW n \in Nodes, Promise(n) \/ AcceptedVote(n) PROVE QuorumInv'
  BY <1>1, <1>5, PromiseStep, AcceptedVoteStep
<1>6. ASSUME NEW n \in Crashing, Restart(n) PROVE QuorumInv'
  BY <1>1, <1>6, RolesAssumption, RestartStep
<1>7. CASE UNCHANGED vars
  BY <1>1, <1>7, QuietStep DEF vars
<1>8. QED
  BY <1>2, <1>3, <1>4, <1>5, <1>6, <1>7 DEF Next

---------------------------------------------------------------------------
(* Promises.  The order of ballots is total.                               *)
LEMMA BallotsOrdered ==
    ASSUME NEW a \in Ballot, NEW b \in Ballot, NEW c \in Ballot
    PROVE  /\ ~Newer(a, a)
           /\ ~Newer(a, b) /\ ~Newer(b, c) => ~Newer(a, c)
<1>1. /\ a.round \in Nat /\ b.round \in Nat /\ c.round \in Nat
      /\ a.proposer \in Nat /\ b.proposer \in Nat /\ c.proposer \in Nat
  <2>1. \A x \in Ballot : x.round \in 0 .. MaxRound /\ x.proposer \in Nodes
    BY DEF Ballot
  <2>2. 0 .. MaxRound \subseteq Nat /\ Nodes \subseteq Nat
    BY BoundsAssumption, NodesAssumption
  <2>3. QED
    BY <2>1, <2>2
<1>2. QED
  BY <1>1 DEF Newer

(* A node that answers or votes admits the ballot and promises it: its     *)
(* promise covers what it sent before and what it sends now.               *)
LEMMA AnswerStep ==
    ASSUME PromiseInv, NEW p \in Nodes, NEW b \in Ballot, Admits(p, b),
           msgs \subseteq msgs', promised' = [promised EXCEPT ![p] = b],
           \A x \in msgs' \ msgs : x.from = p /\ x.ballot = b
    PROVE  \A n \in Nodes \ Crashing : PromiseKept(n)
<1> SUFFICES ASSUME NEW n \in Nodes \ Crashing PROVE PromiseKept(n)
  OBVIOUS
<1>1. /\ promised \in [Nodes -> Ballot \cup {None}]
      /\ \A m \in Answered(n) : m.ballot \in Ballot
      /\ \A m \in Answered(n) : promised[n] # None /\ ~Newer(m.ballot, promised[n])
  BY DEF PromiseInv, PromiseCovers, TypeInv, TypeOK, MessagesShaped, Shape, Answered
<1>2. b # None
  BY NoneAssumption
<1>3. CASE p # n
  <2>1. promised'[n] = promised[n] /\ \A m \in msgs' : m.from = n => m \in msgs
    BY <1>1, <1>3
  <2>2. QED
    BY <1>1, <2>1 DEF PromiseKept, Answered
<1>4. CASE p = n
  <2>1. promised'[n] = b
    BY <1>1, <1>4
  <2>2. ASSUME NEW m \in Answered(n) PROVE ~Newer(m.ballot, b)
    <3>1. promised[n] \in Ballot /\ ~Newer(m.ballot, promised[n]) /\ m.ballot \in Ballot
      BY <1>1, <2>2
    <3>2. ~Newer(promised[n], b)
      BY <1>1, <1>4, <2>2 DEF Admits
    <3>3. QED
      BY <3>1, <3>2, BallotsOrdered
  <2>3. ~Newer(b, b)
    BY BallotsOrdered
  <2>4. \A m \in msgs : m \in Answered(n)' => m \in Answered(n)
    BY DEF Answered
  <2>5. QED
    BY <1>2, <2>1, <2>2, <2>3, <2>4 DEF PromiseKept, Answered
<1>5. QED
  BY <1>3, <1>4

(* The steps that promise nothing send no answer and no vote.              *)
LEMMA OtherStep ==
    ASSUME PromiseInv, NEW n \in Nodes \ Crashing, promised'[n] = promised[n],
           msgs \subseteq msgs', \A x \in msgs' \ msgs : x.type \notin {"Promise", "Accepted"}
    PROVE  PromiseKept(n)
BY DEF PromiseInv, PromiseCovers, PromiseKept, Answered

LEMMA NextKeepsPromises ==
    ASSUME PromiseInv, [Next]_vars PROVE \A n \in Nodes \ Crashing : PromiseKept(n)
<1>1. ASSUME NEW n \in Nodes \ Crashing, NEW p \in Proposers, StartRound(p) PROVE PromiseKept(n)
  BY <1>1, OtherStep DEF StartRound
<1>2. ASSUME NEW n \in Nodes \ Crashing, NEW p \in Proposers, NEW s \in Slots,
             NEW c \in Commands, Propose(p, s, c)
      PROVE  PromiseKept(n)
  BY <1>2, OtherStep DEF Propose
<1>3. ASSUME NEW n \in Nodes \ Crashing, NEW p \in Nodes,
             Promise(p) \/ Decision(p)
      PROVE  PromiseKept(n)
  <2>1. promised' = promised /\ msgs' = msgs
    BY <1>3 DEF Promise, Decision
  <2>2. QED
    BY <2>1, OtherStep
<1>4. ASSUME NEW n \in Nodes \ Crashing, NEW p \in Nodes, AcceptedVote(p) PROVE PromiseKept(n)
  <2>1. promised' = promised /\ msgs \subseteq msgs'
        /\ \A x \in msgs' \ msgs : x.type = "Decision"
    BY <1>4, AcceptedVoteCounts DEF Decisions
  <2>2. QED
    BY <2>1, OtherStep
<1>5. ASSUME NEW p \in Nodes, Prepare(p) PROVE \A n \in Nodes \ Crashing : PromiseKept(n)
  <2>1. PICK m \in Received(p, "Prepare") :
           /\ Admits(p, m.ballot) /\ promised' = [promised EXCEPT ![p] = m.ballot]
           /\ msgs' = msgs \cup {[type |-> "Promise", to |-> m.from, from |-> p,
                                  ballot |-> m.ballot, accepted |-> accepted[p]]}
    BY <1>5 DEF Prepare
  <2>2. m.ballot \in Ballot
    BY DEF Received, Sent, PromiseInv, TypeInv, MessagesShaped, Shape
  <2>3. msgs \subseteq msgs' /\ \A x \in msgs' \ msgs : x.from = p /\ x.ballot = m.ballot
    BY <2>1
  <2>4. QED
    BY <2>1, <2>2, <2>3, AnswerStep
<1>6. ASSUME NEW p \in Nodes, Accept(p) PROVE \A n \in Nodes \ Crashing : PromiseKept(n)
  <2>1. PICK m \in Received(p, "Accept") :
           /\ Admits(p, m.ballot) /\ promised' = [promised EXCEPT ![p] = m.ballot]
           /\ msgs' = msgs \cup {[type |-> "Accepted", to |-> m.ballot.proposer, from |-> p,
                                  ballot |-> m.ballot, slot |-> m.slot, command |-> m.command]}
    BY <1>6 DEF Accept
  <2>2. m.ballot \in Ballot
    BY DEF Received, Sent, PromiseInv, TypeInv, MessagesShaped, Shape
  <2>3. msgs \subseteq msgs' /\ \A x \in msgs' \ msgs : x.from = p /\ x.ballot = m.ballot
    BY <2>1
  <2>4. QED
    BY <2>1, <2>2, <2>3, AnswerStep
<1>7. ASSUME NEW n \in Nodes \ Crashing, NEW p \in Crashing, Restart(p) PROVE PromiseKept(n)
  <2>1. promised'[n] = promised[n] /\ msgs' = msgs
    BY <1>7, RolesAssumption DEF Restart, NewNode, PromiseInv, TypeInv, TypeOK
  <2>2. QED
    BY <2>1, OtherStep
<1>8. CASE UNCHANGED vars
  BY <1>8, OtherStep DEF vars
<1>9. QED
  BY <1>1, <1>2, <1>3, <1>4, <1>5, <1>6, <1>7, <1>8 DEF Next

LEMMA NextPromiseInv == PromiseInv /\ [Next]_vars => PromiseInv'
<1>1. PromiseInv /\ [Next]_vars => PromiseCovers'
  BY NextKeepsPromises DEF PromiseKept, PromiseCovers
<1>2. QED
  BY <1>1, NextTypeInv DEF PromiseInv

---------------------------------------------------------------------------
(* Decisions under one ballot.                                             *)

(* What a step that proposes nothing owes the caller of a node that stays  *)
(* up: it forgets what it proposed only when it starts a later round.      *)
CallerKeeps(n) ==
    \/ round'[n] = round[n] /\ proposals'[n] = proposals[n]
    \/ round'[n] > round[n] /\ proposals'[n] = {}

(* A step that proposes nothing, and votes for or decides only what was    *)
(* proposed, keeps the invariant.                                          *)
LEMMA NothingProposed ==
    ASSUME BallotInv, TypeInv', msgs \subseteq msgs',
           \A n \in Nodes \ Crashing : CallerKeeps(n),
           \A x \in msgs' \ msgs : x.type # "Accept",
           \A x \in msgs' \ msgs : x.type \in {"Accepted", "Decision"} =>
               \E m \in Sent("Accept") : Alike(m, x)
    PROVE  BallotInv'
<1>0. MessagesShaped
  BY DEF BallotInv, TypeInv
<1>1. Sent("Accept")' = Sent("Accept")
  BY DEF Sent
<1>2. ASSUME NEW n \in Nodes \ Crashing PROVE CallerRemembers(n)' /\ ProposedOnce(n)'
  <2>1. CallerRemembers(n) /\ ProposedOnce(n) /\ round[n] \in Nat /\ round'[n] \in Nat
    BY DEF BallotInv, TypeInv, TypeOK
  <2>2. CASE round'[n] = round[n] /\ proposals'[n] = proposals[n]
    BY <1>1, <2>1, <2>2 DEF CallerRemembers, ProposedOnce, Own
  <2>3. CASE round'[n] > round[n] /\ proposals'[n] = {}
    <3>1. ASSUME NEW m \in Sent("Accept"), m.ballot.proposer = n
          PROVE  m.ballot.round <= round'[n] /\ m.ballot # Own(n)'
      <4>0. m.ballot \in Ballot
        <5>1. m \in msgs
          BY <3>1 DEF Sent
        <5>2. Shape(m)
          BY <1>0, <5>1 DEF MessagesShaped
        <5>3. QED
          BY <5>2 DEF Shape
      <4>1. m.ballot.round <= round[n] /\ m.ballot.round \in Nat
        <5>1. m.ballot.round <= round[n]
          BY <2>1, <3>1 DEF CallerRemembers
        <5>2. m.ballot.round \in Nat
          BY <4>0, BoundsAssumption DEF Ballot
        <5>3. QED
          BY <5>1, <5>2
      <4>2. m.ballot.round < round'[n]
        BY <2>1, <2>3, <4>1
      <4>3. QED
        BY <2>1, <4>1, <4>2 DEF Own
    <3>2. CallerRemembers(n)'
      BY <1>1, <2>3, <3>1 DEF CallerRemembers
    <3>3. QED
      BY <1>1, <2>1, <3>2 DEF ProposedOnce
  <2>4. QED
    BY <2>2, <2>3 DEF CallerKeeps
<1>3. ASSUME NEW v \in (Sent("Accepted") \cup Sent("Decision"))'
      PROVE  \E m \in Sent("Accept") : Alike(m, v)
  <2>1. v \in msgs' /\ v.type \in {"Accepted", "Decision"}
    BY DEF Sent
  <2>2. CASE v \in msgs
    BY <2>1, <2>2 DEF BallotInv, OnlyProposed, Sent
  <2>3. CASE v \notin msgs
    BY <2>1, <2>3
  <2>4. QED
    BY <2>2, <2>3
<1>4. OnlyProposed'
  BY <1>1, <1>3 DEF OnlyProposed, Alike
<1>5. QED
  BY <1>2, <1>4 DEF BallotInv

(* A careful caller proposes nothing else under a ballot it proposed with  *)
(* in this life of its node.                                               *)
LEMMA CarefulProposal ==
    ASSUME Careful, BallotInv, TypeInv', NEW n \in Nodes, NEW s \in Slots, NEW c \in Commands,
           Propose(n, s, c)
    PROVE  BallotInv'
<1> PICK b : b = Own(n)
  OBVIOUS
<1>1. /\ msgs \subseteq msgs'
      /\ \A x \in msgs' \ msgs :
            x.type = "Accept" /\ x.ballot = b /\ x.slot = s /\ x.command = c
      /\ round' = round
      /\ proposals' = [proposals EXCEPT ![n] = @ \cup {<<s, c>>}]
  BY DEF Propose
<1>p. \A d \in Commands : <<s, d>> \in proposals[n] => d = c
  BY DEF Propose, MayPropose
<1>t. proposals \in [Nodes -> SUBSET (Slots \X Commands)] /\ b.proposer = n /\ b.round = round[n]
      /\ round[n] \in Nat
  BY DEF BallotInv, TypeInv, TypeOK, Own
<1>2. ASSUME NEW m \in Sent("Accept")'
      PROVE  \/ m \in Sent("Accept")
             \/ m.ballot = b /\ m.slot = s /\ m.command = c
  BY <1>1 DEF Sent
<1>3. ASSUME NEW k \in Nodes \ Crashing PROVE CallerRemembers(k)' /\ ProposedOnce(k)'
  <2>0. CallerRemembers(k) /\ ProposedOnce(k)
    BY DEF BallotInv
  <2>1. CASE k # n
    <3>1. proposals'[k] = proposals[k] /\ Own(k)' = Own(k)
      BY <1>1, <1>t, <2>1 DEF Own
    <3>2. \A m \in Sent("Accept")' : m.ballot.proposer = k => m \in Sent("Accept")
      BY <1>2, <1>t, <2>1
    <3>3. QED
      BY <1>1, <2>0, <3>1, <3>2 DEF CallerRemembers, ProposedOnce
  <2>2. CASE k = n
    <3>1. proposals'[n] = proposals[n] \cup {<<s, c>>} /\ Own(n)' = b
      BY <1>1, <1>t DEF Own
    <3>2. ASSUME NEW m \in Sent("Accept")', m.ballot.proposer = n
          PROVE  /\ m.ballot.round <= round'[n]
                 /\ m.ballot = b => <<m.slot, m.command>> \in proposals'[n]
      BY <1>1, <1>2, <1>t, <2>0, <2>2, <3>1, <3>2 DEF CallerRemembers
    <3>3. ASSUME NEW u \in Slots, NEW d \in Commands, NEW e \in Commands,
                 <<u, d>> \in proposals'[n], <<u, e>> \in proposals'[n]
          PROVE  d = e
      <4>1. \A f \in Commands : <<u, f>> \in proposals'[n] =>
                <<u, f>> \in proposals[n] \/ (u = s /\ f = c)
        BY <3>1
      <4>2. CASE u = s
        BY <1>p, <3>3, <4>1, <4>2
      <4>3. CASE u # s
        BY <2>0, <2>2, <3>3, <4>1, <4>3 DEF CallerRemembers
      <4>4. QED
        BY <4>2, <4>3
    <3>4. CallerRemembers(n)'
      BY <3>1, <3>2, <3>3 DEF CallerRemembers
    <3>5. ASSUME NEW m1 \in Sent("Accept")', NEW m2 \in Sent("Accept")',
                 m1.slot = m2.slot, m1.ballot = m2.ballot, m1.ballot.proposer = n
          PROVE  m1.command = m2.command
      <4>1. CASE m1.ballot = b
        <5>1. <<m1.slot, m1.command>> \in proposals'[n] /\ <<m2.slot, m2.command>> \in proposals'[n]
          BY <3>2, <3>5, <4>1
        <5>2. m1.slot \in Slots /\ m1.command \in Commands /\ m2.command \in Commands
          BY DEF TypeInv, MessagesShaped, Shape, Sent
        <5>3. QED
          BY <3>3, <3>5, <5>1, <5>2
      <4>2. CASE m1.ballot # b
        BY <1>2, <2>0, <2>2, <3>5, <4>2 DEF ProposedOnce
      <4>3. QED
        BY <4>1, <4>2
    <3>6. QED
      BY <2>2, <3>4, <3>5 DEF ProposedOnce
  <2>3. QED
    BY <2>1, <2>2
<1>4. OnlyProposed'
  <2>1. /\ Sent("Accept") \subseteq Sent("Accept")'
        /\ (Sent("Accepted") \cup Sent("Decision"))' = Sent("Accepted") \cup Sent("Decision")
    BY <1>1 DEF Sent
  <2>2. QED
    BY <2>1 DEF BallotInv, OnlyProposed, Alike
<1>5. QED
  BY <1>3, <1>4 DEF BallotInv

LEMMA NextBallotInv ==
    ASSUME Careful, BallotInv, [Next]_vars PROVE BallotInv'
<1>0. TypeInv /\ TypeInv'
  BY NextTypeInv DEF BallotInv
<1>k. ASSUME UNCHANGED <<round, proposals>> PROVE \A n \in Nodes \ Crashing : CallerKeeps(n)
  BY <1>k DEF CallerKeeps
<1>1. ASSUME NEW n \in Proposers, StartRound(n) PROVE BallotInv'
  <2>1. ASSUME NEW k \in Nodes \ Crashing PROVE CallerKeeps(k)
    <3>1. n \in Nodes /\ round \in [Nodes -> Nat] /\ DOMAIN proposals = Nodes
      BY <1>0, RolesAssumption DEF TypeInv, TypeOK
    <3>2. QED
      BY <1>1, <3>1 DEF StartRound, CallerKeeps
  <2>2. msgs \subseteq msgs' /\ \A x \in msgs' \ msgs : x.type = "Prepare"
    BY <1>1 DEF StartRound
  <2>3. QED
    BY <1>0, <2>1, <2>2, NothingProposed
<1>2. ASSUME NEW n \in Proposers, NEW s \in Slots, NEW c \in Commands, Propose(n, s, c)
      PROVE  BallotInv'
  BY <1>0, <1>2, RolesAssumption, CarefulProposal
<1>3. ASSUME NEW n \in Nodes, Promise(n) \/ Decision(n) PROVE BallotInv'
  <2>1. msgs' = msgs /\ UNCHANGED <<round, proposals>>
    BY <1>3 DEF Promise, Decision
  <2>2. QED
    BY <1>0, <1>k, <2>1, NothingProposed
<1>4. ASSUME NEW n \in Nodes, Prepare(n) PROVE BallotInv'
  <2>1. /\ UNCHANGED <<round, proposals>> /\ msgs \subseteq msgs'
        /\ \A x \in msgs' \ msgs : x.type = "Promise"
    BY <1>4 DEF Prepare
  <2>2. QED
    BY <1>0, <1>k, <2>1, NothingProposed
<1>5. ASSUME NEW n \in Nodes, Accept(n) PROVE BallotInv'
  <2>1. PICK m \in Received(n, "Accept") :
           /\ msgs' = msgs \cup {[type |-> "Accepted", to |-> m.ballot.proposer, from |-> n,
                                  ballot |-> m.ballot, slot |-> m.slot, command |-> m.command]}
           /\ UNCHANGED <<round, proposals>>
    BY <1>5 DEF Accept
  <2>2. m \in Sent("Accept") /\ msgs \subseteq msgs'
    BY <2>1 DEF Received
  <2>3. \A x \in msgs' \ msgs : x.type = "Accepted" /\ Alike(m, x)
    BY <2>1 DEF Alike
  <2>4. QED
    BY <1>0, <1>k, <2>1, <2>2, <2>3, NothingProposed
<1>6. ASSUME NEW n \in Nodes, AcceptedVote(n) PROVE BallotInv'
  <2>1. PICK m \in Received(n, "Accepted") :
           /\ \/ msgs' = msgs
              \/ msgs' = msgs \cup Decisions(m)
           /\ UNCHANGED <<round, proposals>>
    BY <1>6, AcceptedVoteCounts DEF AcceptedVote
  <2>2. PICK a \in Sent("Accept") : Alike(a, m)
    BY DEF BallotInv, OnlyProposed, Received
  <2>3. msgs \subseteq msgs'
    BY <2>1
  <2>4. \A x \in msgs' \ msgs : x.type = "Decision" /\ Alike(a, x)
    BY <2>1, <2>2 DEF Alike, Decisions
  <2>5. QED
    BY <1>0, <1>k, <2>1, <2>3, <2>4, NothingProposed
<1>7. ASSUME NEW n \in Crashing, Restart(n) PROVE BallotInv'
  <2>1. msgs' = msgs
    BY <1>7 DEF Restart
  <2>2. /\ round' = [round EXCEPT ![n] = 0]
        /\ proposals' = [proposals EXCEPT ![n] = {}]
    BY <1>7 DEF Restart, NewNode
  <2>3. ASSUME NEW k \in Nodes \ Crashing PROVE CallerKeeps(k)
    BY <1>0, <2>2 DEF CallerKeeps, TypeInv, TypeOK
  <2>4. QED
    BY <1>0, <2>1, <2>3, NothingProposed
<1>8. CASE UNCHANGED vars
  BY <1>0, <1>k, <1>8, NothingProposed DEF vars
<1>9. QED
  BY <1>1, <1>2, <1>3, <1>4, <1>5, <1>6, <1>7, <1>8 DEF Next

---------------------------------------------------------------------------
(* Every variable keeps its type, restarts included.                       *)
THEOREM TypesHold == Spec => []TypeOK
<1>1. TypeInv => TypeOK
  BY DEF TypeInv
<1>2. QED
  BY <1>1, InitTypeInv, NextTypeInv, PTL DEF Spec

(* Whatever restarts and old messages bring, a proposal stands on a        *)
(* majority that promised its ballot (promise, propose).                   *)
THEOREM QuorumsBehindProposals == Spec => []ProposalsHavePromises
<1>1. QuorumInv => ProposalsHavePromises
  BY DEF QuorumInv
<1>2. QED
  BY <1>1, InitQuorumInv, NextQuorumInv, PTL DEF Spec

(* A decision stands on votes of a majority for its proposer's ballots in  *)
(* its slot, one of them for its own ballot and command (accepted_vote).   *)
THEOREM QuorumsBehindDecisions == Spec => []DecisionsHaveVotes
<1>1. QuorumInv => DecisionsHaveVotes
  BY DEF QuorumInv
<1>2. QED
  BY <1>1, InitQuorumInv, NextQuorumInv, PTL DEF Spec

(* A node that stays up never votes under a ballot older than one it has   *)
(* answered.                                                               *)
THEOREM PromisesStayKept == Spec => PromisesAreKept
<1>1. Init => PromiseInv
  BY InitTypeInv DEF Init, PromiseInv, PromiseCovers, Answered
<1>2. PromiseInv /\ [Next]_vars => [\A n \in Nodes \ Crashing : PromiseKept(n)]_vars
  BY NextKeepsPromises
<1>3. [\A n \in Nodes \ Crashing : PromiseKept(n)]_vars =>
         [\A n \in Nodes \ Crashing :
             \A m \in msgs : m.type \in {"Promise", "Accepted"} /\ m.from = n =>
                /\ promised'[n] # None /\ ~Newer(m.ballot, promised'[n])
                /\ \A v \in msgs' \ msgs : v.type = "Accepted" /\ v.from = n =>
                      ~Newer(m.ballot, v.ballot)]_vars
  BY DEF PromiseKept, Answered
<1>4. QED
  BY <1>1, <1>2, <1>3, NextPromiseInv, PTL DEF Spec, PromisesAreKept

(* With careful callers no ballot of a proposer that stays up decides a    *)
(* slot twice with different values, whichever acceptors crash and forget  *)
(* (propose, accept, accepted_vote).  That is all of agreement that is     *)
(* left: two ballots may disagree (MultiPaxos, DecisionsAgree), and so may *)
(* two lives of a proposer that uses a ballot again.                       *)
THEOREM BallotsStayDecided ==
    ASSUME Careful PROVE Spec => []BallotsDecideOnce
<1>1. Init => BallotInv
  BY InitTypeInv
  DEF Init, BallotInv, CallerRemembers, ProposedOnce, OnlyProposed, Sent
<1>2. BallotInv /\ [Next]_vars => BallotInv'
  BY NextBallotInv
<1>3. BallotInv => BallotsDecideOnce
  <2>1. ASSUME BallotInv, NEW m1 \in Sent("Decision"), NEW m2 \in Sent("Decision"),
               m1.slot = m2.slot, m1.ballot = m2.ballot, m1.ballot.proposer \notin Crashing
        PROVE  m1.command = m2.command
    <3>1. PICK a1 \in Sent("Accept") : Alike(a1, m1)
      BY <2>1 DEF BallotInv, OnlyProposed
    <3>2. PICK a2 \in Sent("Accept") : Alike(a2, m2)
      BY <2>1 DEF BallotInv, OnlyProposed
    <3>3. m1.ballot.proposer \in Nodes \ Crashing
      BY <2>1 DEF BallotInv, TypeInv, MessagesShaped, Shape, Sent, Ballot
    <3>4. QED
      BY <2>1, <3>1, <3>2, <3>3 DEF BallotInv, ProposedOnce, Alike
  <2>2. QED
    BY <2>1 DEF BallotsDecideOnce
<1>4. QED
  BY <1>1, <1>2, <1>3, PTL DEF Spec

===========================================================================
