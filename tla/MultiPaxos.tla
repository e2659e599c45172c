----------------------------- MODULE MultiPaxos -----------------------------
(***************************************************************************)
(* iron-multipaxos: a Node is proposer, acceptor and learner at once, over *)
(* a network that may lose, duplicate, delay and reorder (a message once   *)
(* sent may be delivered at any later time, any number of times, or        *)
(* never).  Its own Accept, Accepted and Decision reach a node the same    *)
(* way; its own Prepare is never sent.                                     *)
(*                                                                         *)
(* The crate leaves the choice of the value to propose to its caller,      *)
(* which sees accepted().  A careful caller proposes what accepted()       *)
(* reports for the slot, and one value per slot and ballot, as far as it   *)
(* remembers: a rebuilt node starts at round 0 again, and nothing tells    *)
(* its caller what an earlier life proposed under the same ballots.        *)
(***************************************************************************)
EXTENDS Integers, FiniteSets

CONSTANTS
    Nodes,          \* numbers, for the order of NodeId breaks ties of ballots
    None,           \* no ballot, or no accepted value
    Slots,
    Commands,
    Proposers,      \* the nodes whose caller starts rounds
    Careful,        \* are the callers careful?
    Crashing,       \* the nodes that may crash and be rebuilt from storage
    MaxRound        \* bound on rounds (u64::MAX in the code)

ASSUME NodesAssumption == Nodes \subseteq Nat /\ IsFiniteSet(Nodes)
ASSUME RolesAssumption == Proposers \subseteq Nodes /\ Crashing \subseteq Nodes
ASSUME SlotsAssumption == Slots \subseteq Nat \ {0}
ASSUME CallersAssumption == Careful \in BOOLEAN
ASSUME BoundsAssumption == MaxRound \in Nat

VARIABLES
    round,          \* the round of each node's own ballot
    promised, accepted, promises,
    acceptedVotes,
    proposals,      \* what each caller proposed under its node's current ballot
    msgs            \* every message sent so far

vars == <<round, promised, accepted, promises, acceptedVotes, proposals, msgs>>

Ballot == [round : 0 .. MaxRound, proposer : Nodes]
AcceptedValue == [ballot : Ballot, command : Commands]

ASSUME NoneAssumption == None \notin Ballot \cup AcceptedValue

Own(n) == [round |-> round[n], proposer |-> n]

Newer(b, c) ==
    \/ b.round > c.round
    \/ b.round = c.round /\ b.proposer > c.proposer

IsMajority(S) == Cardinality(S) >= Cardinality(Nodes) \div 2 + 1

Sent(type) == {m \in msgs : m.type = type}
Received(n, type) == {m \in Sent(type) : m.to = n}

NewNode(n, stored) ==
    /\ round' = [round EXCEPT ![n] = 0]
    /\ promised' = [promised EXCEPT ![n] = None]
    /\ accepted' = [accepted EXCEPT ![n] = stored]
    /\ promises' = [promises EXCEPT ![n] = {}]
    /\ acceptedVotes' = [acceptedVotes EXCEPT ![n] = [s \in Slots |-> {}]]
    /\ proposals' = [proposals EXCEPT ![n] = {}]

Init ==
    /\ round = [n \in Nodes |-> 0]
    /\ promised = [n \in Nodes |-> None]
    /\ accepted = [n \in Nodes |-> [s \in Slots |-> None]]
    /\ promises = [n \in Nodes |-> {}]
    /\ acceptedVotes = [n \in Nodes |-> [s \in Slots |-> {}]]
    /\ proposals = [n \in Nodes |-> {}]
    /\ msgs = {}

---------------------------------------------------------------------------
(* The proposer.                                                           *)

StartRound(n) ==
    /\ round[n] < MaxRound
    /\ round' = [round EXCEPT ![n] = @ + 1]
    /\ promises' = [promises EXCEPT ![n] = {n}]
    /\ proposals' = [proposals EXCEPT ![n] = {}]
    /\ msgs' = msgs \cup
          {[type |-> "Prepare", to |-> p, from |-> n,
            ballot |-> [round |-> round[n] + 1, proposer |-> n]] : p \in Nodes \ {n}}
    /\ UNCHANGED <<promised, accepted, acceptedVotes>>

(* What a careful caller checks; the code does not.                        *)
MayPropose(n, s, c) ==
    /\ accepted[n][s] # None => accepted[n][s].command = c
    /\ \A d \in Commands : <<s, d>> \in proposals[n] => d = c

(* Faulty: the promises are not counted.                                   *)
ProposeEarly(n, s, c) ==
    /\ round[n] > 0
    /\ Careful => MayPropose(n, s, c)
    /\ msgs' = msgs \cup
          {[type |-> "Accept", to |-> p, from |-> n, ballot |-> Own(n),
            slot |-> s, command |-> c] : p \in Nodes}
    /\ proposals' = [proposals EXCEPT ![n] = @ \cup {<<s, c>>}]
    /\ UNCHANGED <<round, promised, accepted, promises, acceptedVotes>>

Propose(n, s, c) ==
    /\ IsMajority(promises[n])
    /\ Careful => MayPropose(n, s, c)
    /\ msgs' = msgs \cup
          {[type |-> "Accept", to |-> p, from |-> n, ballot |-> Own(n),
            slot |-> s, command |-> c] : p \in Nodes}
    /\ proposals' = [proposals EXCEPT ![n] = @ \cup {<<s, c>>}]
    /\ UNCHANGED <<round, promised, accepted, promises, acceptedVotes>>

(* Faulty: promises of earlier rounds count.                               *)
PromiseAnyRound(n) ==
    \E m \in Received(n, "Promise") :
        /\ m.ballot.round <= round[n]
        /\ promises' = [promises EXCEPT ![n] = @ \cup {m.from}]
        /\ UNCHANGED <<round, promised, accepted, acceptedVotes, proposals, msgs>>

(* An answer to the current round: the promise counts, and a reported      *)
(* value replaces an older one of the proposer's own.                      *)
Promise(n) ==
    \E m \in Received(n, "Promise") :
        LET Reported(s) ==
                /\ m.accepted[s] # None
                /\ accepted[n][s] # None => Newer(m.accepted[s].ballot, accepted[n][s].ballot)
        IN
        /\ m.ballot = Own(n)
        /\ promises' = [promises EXCEPT ![n] = @ \cup {m.from}]
        /\ accepted' = [accepted EXCEPT ![n] =
              [s \in Slots |-> IF Reported(s) THEN m.accepted[s] ELSE @[s]]]
        /\ UNCHANGED <<round, promised, acceptedVotes, proposals, msgs>>

(* Faulty: one vote decides.                                               *)
AcceptedVoteHasty(n) ==
    \E m \in Received(n, "Accepted") :
        /\ m.ballot = Own(n)
        /\ acceptedVotes' = [acceptedVotes EXCEPT ![n][m.slot] = @ \cup {m.from}]
        /\ msgs' = msgs \cup
              {[type |-> "Decision", to |-> p, ballot |-> m.ballot,
                slot |-> m.slot, command |-> m.command] : p \in Nodes}
        /\ UNCHANGED <<round, promised, accepted, promises, proposals>>

(* Faulty: a vote of an earlier round counts for the current ballot.       *)
AcceptedVoteLate(n) ==
    \E m \in Received(n, "Accepted") :
        /\ m.ballot.round <= round[n] /\ m.ballot.proposer = n
        /\ acceptedVotes' = [acceptedVotes EXCEPT ![n][m.slot] = @ \cup {m.from}]
        /\ msgs' = msgs \cup
              IF IsMajority(acceptedVotes'[n][m.slot])
              THEN {[type |-> "Decision", to |-> p, ballot |-> Own(n),
                     slot |-> m.slot, command |-> m.command] : p \in Nodes}
              ELSE {}
        /\ UNCHANGED <<round, promised, accepted, promises, proposals>>

(* A vote for the current ballot.  The votes of a slot are kept across     *)
(* rounds and whatever value they were for.                                *)
AcceptedVote(n) ==
    \E m \in Received(n, "Accepted") :
        /\ m.ballot = Own(n)
        /\ acceptedVotes' = [acceptedVotes EXCEPT ![n][m.slot] = @ \cup {m.from}]
        /\ msgs' = msgs \cup
              IF IsMajority(acceptedVotes'[n][m.slot])
              THEN {[type |-> "Decision", to |-> p, ballot |-> m.ballot,
                     slot |-> m.slot, command |-> m.command] : p \in Nodes}
              ELSE {}
        /\ UNCHANGED <<round, promised, accepted, promises, proposals>>

---------------------------------------------------------------------------
(* The acceptor and learner.                                               *)

(* Faulty: an older ballot than the promised one is taken.                 *)
AdmitsAny(n, b) == TRUE

Admits(n, b) == promised[n] # None => ~Newer(promised[n], b)

Prepare(n) ==
    \E m \in Received(n, "Prepare") :
        /\ Admits(n, m.ballot)
        /\ promised' = [promised EXCEPT ![n] = m.ballot]
        /\ msgs' = msgs \cup {[type |-> "Promise", to |-> m.from, from |-> n,
                               ballot |-> m.ballot, accepted |-> accepted[n]]}
        /\ UNCHANGED <<round, accepted, promises, acceptedVotes, proposals>>

Accept(n) ==
    \E m \in Received(n, "Accept") :
        /\ Admits(n, m.ballot)
        /\ promised' = [promised EXCEPT ![n] = m.ballot]
        /\ accepted' = [accepted EXCEPT ![n][m.slot] =
                           [ballot |-> m.ballot, command |-> m.command]]
        /\ msgs' = msgs \cup {[type |-> "Accepted", to |-> m.ballot.proposer, from |-> n,
                               ballot |-> m.ballot, slot |-> m.slot, command |-> m.command]}
        /\ UNCHANGED <<round, promises, acceptedVotes, proposals>>

(* A decision replaces the accepted value, whatever its ballot.            *)
Decision(n) ==
    \E m \in Received(n, "Decision") :
        /\ accepted' = [accepted EXCEPT ![n][m.slot] =
                           [ballot |-> m.ballot, command |-> m.command]]
        /\ UNCHANGED <<round, promised, promises, acceptedVotes, proposals, msgs>>

(* A crash, Node::new, and restore_accepted: storage has, for each slot,   *)
(* what accepted() last reported, learned values included, or the newest   *)
(* value the node itself accepted.  Promise and round are lost.            *)
Restart(n) ==
    LET Votes(s) == {[ballot |-> m.ballot, command |-> m.command] :
                        m \in {x \in Sent("Accepted") : x.from = n /\ x.slot = s}}
        Newest(V) == {v \in V : \A w \in V : ~Newer(w.ballot, v.ballot)}
        Stored(s) == {accepted[n][s]} \cup
                        IF Votes(s) = {} THEN {None} ELSE Newest(Votes(s))
    IN  /\ \E stored \in [Slots -> AcceptedValue \cup {None}] :
            /\ \A s \in Slots : stored[s] \in Stored(s)
            /\ NewNode(n, stored)
        /\ UNCHANGED msgs

Next ==
    \/ \E n \in Proposers : StartRound(n)
    \/ \E n \in Proposers, s \in Slots, c \in Commands : Propose(n, s, c)
    \/ \E n \in Nodes :
          \/ Promise(n) \/ AcceptedVote(n)
          \/ Prepare(n) \/ Accept(n) \/ Decision(n)
    \/ \E n \in Crashing : Restart(n)

Spec == Init /\ [][Next]_vars

---------------------------------------------------------------------------
TypeOK ==
    /\ round \in [Nodes -> 0 .. MaxRound]
    /\ promised \in [Nodes -> Ballot \cup {None}]
    /\ accepted \in [Nodes -> [Slots -> AcceptedValue \cup {None}]]
    /\ promises \in [Nodes -> SUBSET Nodes]
    /\ acceptedVotes \in [Nodes -> [Slots -> SUBSET Nodes]]
    /\ proposals \in [Nodes -> SUBSET (Slots \X Commands)]

(* No value is proposed under a ballot before a majority, the proposer     *)
(* included, has promised exactly that ballot: answers to earlier rounds   *)
(* and repeated answers never add up to a quorum.                          *)
ProposalsHavePromises ==
    \A m \in Sent("Accept") :
        IsMajority({m.ballot.proposer} \cup
                   {p.from : p \in {q \in Sent("Promise") : q.ballot = m.ballot}})

(* Every decision was voted for: its own value by somebody, its slot by a  *)
(* majority under ballots of the same proposer up to the deciding one.     *)
DecisionsHaveVotes ==
    \A m \in Sent("Decision") :
        LET votes == {v \in Sent("Accepted") :
                         /\ v.slot = m.slot /\ v.ballot.proposer = m.ballot.proposer
                         /\ v.ballot.round <= m.ballot.round}
        IN  /\ IsMajority({v.from : v \in votes})
            /\ \E v \in votes : v.ballot = m.ballot /\ v.command = m.command

(* A node that stays up never votes under a ballot older than one it has   *)
(* promised or voted for, and its promise covers them all.                 *)
PromisesAreKept ==
    [][\A n \in Nodes \ Crashing :
          \A m \in msgs : m.type \in {"Promise", "Accepted"} /\ m.from = n =>
             /\ promised'[n] # None /\ ~Newer(m.ballot, promised'[n])
             /\ \A v \in msgs' \ msgs : v.type = "Accepted" /\ v.from = n =>
                   ~Newer(m.ballot, v.ballot)]_vars

(* What does hold of agreement: with careful callers, two different values *)
(* are never decided for one slot under one ballot of a proposer that      *)
(* stays up, though acceptors crash and forget, and old votes and promises *)
(* still arrive.  A proposer that restarts uses its ballots again, and     *)
(* nothing is claimed of those.                                            *)
BallotsDecideOnce ==
    \A m1, m2 \in Sent("Decision") :
        /\ m1.ballot = m2.ballot /\ m1.ballot.proposer \notin Crashing
        /\ m1.slot = m2.slot
        => m1.command = m2.command

(* The point of a Multi-Paxos core (lib.rs:3): no slot is decided twice    *)
(* with different values.  The code does not have this property, even with *)
(* careful callers: a proposer counts its own promise without making it.   *)
(* Nor does a single proposer keep it over three rounds: the votes of its  *)
(* earlier rounds are counted for the current one.                         *)
DecisionsAgree ==
    \A m1, m2 \in Sent("Decision") : m1.slot = m2.slot => m1.command = m2.command

===========================================================================
