----------------------------- MODULE RaftProofs -----------------------------
(***************************************************************************)
(* Raft's elections and logs, for every set of nodes, every log and every  *)
(* bound on terms.                                                         *)
(*                                                                         *)
(* Elections: a node grants one vote per term and a candidate has voted    *)
(* for itself; the votes a candidate holds were granted to it in its own   *)
(* term; two majorities share a node.                                      *)
(*                                                                         *)
(* Logs: entries of a term come from the one leader that term can have,    *)
(* which holds all of them; and a follower whose log matches the sender's  *)
(* either takes the sender's log whole or keeps its own.                   *)
(***************************************************************************)
EXTENDS Raft, FiniteSetTheorems, SequenceTheorems, WellFoundedInduction, TLAPS

Standing == {"Candidate", "Leader"}

Typed ==
    /\ role \in [Nodes -> Roles]
    /\ currentTerm \in [Nodes -> Nat]
    /\ votedFor \in [Nodes -> Nodes \cup {None}]
    /\ votes \in [Nodes -> SUBSET Nodes]

(* What a message must be for its handler to make sense of it.             *)
WellFormed(m) ==
    /\ m.term \in Nat
    /\ m.type \in {"Vote", "RequestVote"} => m.from \in Nodes
    /\ m.type = "Vote" => m.to \in Nodes

MessagesTyped == \A m \in msgs : WellFormed(m)

(* The sender of a vote has reached its term and, while it stays there,    *)
(* remembers whom it voted for.                                            *)
VotesRemembered ==
    \A m \in msgs : m.type = "Vote" =>
        /\ m.term <= currentTerm[m.from]
        /\ m.term = currentTerm[m.from] => votedFor[m.from] = m.to

(* Whoever stands in an election voted for itself, and every other vote it *)
(* holds was sent to it in its term.                                       *)
VotesHeld ==
    \A n \in Nodes : role[n] \in Standing =>
        /\ votedFor[n] = n
        /\ \A v \in votes[n] \ {n} :
              \E m \in msgs :
                 m.type = "Vote" /\ m.from = v /\ m.to = n /\ m.term = currentTerm[n]

(* No node sends its vote to two candidates of one term.                   *)
OneVotePerTerm ==
    \A m1, m2 \in msgs :
        m1.type = "Vote" /\ m2.type = "Vote" /\ m1.from = m2.from /\ m1.term = m2.term
            => m1.to = m2.to

LeadersElected == \A n \in Nodes : role[n] = "Leader" => IsMajority(votes[n])

ElectionInv ==
    /\ Typed /\ MessagesTyped /\ VotesRemembered /\ OneVotePerTerm /\ VotesHeld
    /\ LeadersElected

---------------------------------------------------------------------------
(* Any two majorities of the nodes have a node in common.                  *)
LEMMA MajoritiesMeet ==
    ASSUME NEW S \in SUBSET Nodes, NEW T \in SUBSET Nodes, IsMajority(S), IsMajority(T)
    PROVE  S \cap T # {}
<1>1. IsFiniteSet(Nodes) /\ IsFiniteSet(S) /\ IsFiniteSet(T)
  BY NodesAssumption, FS_Subset
<1>2. Cardinality(S \cup T) <= Cardinality(Nodes)
  BY <1>1, FS_Subset
<1>3. Cardinality(S \cup T) = Cardinality(S) + Cardinality(T) - Cardinality(S \cap T)
  BY <1>1, FS_Union
<1>4. /\ Cardinality(Nodes) \in Nat /\ Cardinality(S) \in Nat /\ Cardinality(T) \in Nat
      /\ Cardinality({}) = 0
  BY <1>1, FS_CardinalityType, FS_EmptySet
<1>5. \A k \in Nat : 2 * (k \div 2 + 1) > k
  OBVIOUS
<1>6. 2 * (Cardinality(Nodes) \div 2 + 1) > Cardinality(Nodes)
  BY <1>4, <1>5
<1>7. Cardinality(Nodes) \div 2 \in Nat
  BY <1>4
<1>8. Cardinality(S) + Cardinality(T) > Cardinality(Nodes)
  BY <1>4, <1>6, <1>7 DEF IsMajority
<1>9. Cardinality(S \cap T) # 0
  BY <1>1, <1>2, <1>3, <1>4, <1>8, FS_Subset, FS_CardinalityType
<1>10. QED
  BY <1>4, <1>9

(* The invariant makes two leaders of one term the same node: a node whose *)
(* vote both hold would have voted for both.                               *)
LEMMA ElectedOnce == ElectionInv => ElectionSafety
<1> SUFFICES ASSUME ElectionInv,
                    NEW m \in Nodes, NEW n \in Nodes,
                    role[m] = "Leader", role[n] = "Leader", currentTerm[m] = currentTerm[n]
             PROVE  m = n
  BY DEF ElectionSafety
<1>1. PICK v \in votes[m] : v \in votes[n]
  BY MajoritiesMeet DEF ElectionInv, LeadersElected, Typed
<1>2. /\ votedFor[m] = m /\ votedFor[n] = n
      /\ v # m => \E x \in msgs : /\ x.type = "Vote" /\ x.from = v /\ x.to = m
                                  /\ x.term = currentTerm[m]
      /\ v # n => \E x \in msgs : /\ x.type = "Vote" /\ x.from = v /\ x.to = n
                                  /\ x.term = currentTerm[n]
  BY <1>1 DEF ElectionInv, VotesHeld, Standing
<1>3. CASE v # m /\ v # n
  BY <1>2, <1>3 DEF ElectionInv, OneVotePerTerm
<1>4. CASE v = m
  BY <1>2, <1>4 DEF ElectionInv, VotesRemembered
<1>5. CASE v = n
  BY <1>2, <1>5 DEF ElectionInv, VotesRemembered
<1>6. QED
  BY <1>3, <1>4, <1>5

---------------------------------------------------------------------------
(* What the message constructors build.                                    *)
LEMMA NewMessages ==
    ASSUME Typed, NEW n \in Nodes, NEW l, NEW t \in Nat
    PROVE  /\ \A x \in RequestVotes(n, t, l) : WellFormed(x) /\ x.type # "Vote"
           /\ \A x \in Heartbeats(n, l) : WellFormed(x) /\ x.type # "Vote"
BY DEF RequestVotes, Heartbeats, WellFormed, Typed

(* No message is withdrawn and no vote is sent.                            *)
NoNewVote ==
    /\ msgs \subseteq msgs'
    /\ \A x \in msgs' \ msgs : WellFormed(x) /\ x.type # "Vote"

(* A step that leaves the election alone and sends no vote.                *)
LEMMA QuietStep ==
    ASSUME ElectionInv, UNCHANGED <<role, currentTerm, votedFor, votes>>,
           NoNewVote
    PROVE  ElectionInv'
<1>1. Typed' /\ MessagesTyped' /\ LeadersElected'
  BY DEF ElectionInv, Typed, MessagesTyped, WellFormed, LeadersElected, NoNewVote, IsMajority
<1>2. VotesRemembered' /\ OneVotePerTerm'
  BY DEF ElectionInv, VotesRemembered, OneVotePerTerm, NoNewVote
<1>3. VotesHeld'
  BY DEF ElectionInv, VotesHeld, NoNewVote
<1>4. QED
  BY <1>1, <1>2, <1>3 DEF ElectionInv

(* A step in which a node at most follows a later term and sends no vote.  *)
LEMMA FollowStep ==
    ASSUME ElectionInv, NEW n \in Nodes, NEW term \in Nat, FollowTerm(n, term),
           votedFor' = [votedFor EXCEPT ![n] = VoteAfter(n, term)],
           NoNewVote
    PROVE  ElectionInv'
<1>1. CASE ~BecomesFollower(n, term)
  <2>1. UNCHANGED <<role, currentTerm, votedFor, votes>>
    BY <1>1 DEF FollowTerm, TermAfter, VoteAfter, ElectionInv, Typed
  <2>2. QED
    BY <2>1, QuietStep
<1>2. CASE BecomesFollower(n, term)
  <2>1. /\ currentTerm' = [currentTerm EXCEPT ![n] = term] /\ term > currentTerm[n]
        /\ role' = [role EXCEPT ![n] = "Follower"]
        /\ votes' = [votes EXCEPT ![n] = {}]
        /\ votedFor' = [votedFor EXCEPT ![n] = None]
    BY <1>2 DEF FollowTerm, TermAfter, VoteAfter, BecomesFollower
  <2>2. Typed' /\ MessagesTyped'
    BY <2>1 DEF ElectionInv, Typed, MessagesTyped, WellFormed, Roles, NoNewVote
  <2>3. VotesRemembered' /\ OneVotePerTerm'
    BY <2>1 DEF ElectionInv, Typed, MessagesTyped, WellFormed, VotesRemembered,
                OneVotePerTerm, NoNewVote
  <2>4. VotesHeld'
    BY <2>1 DEF ElectionInv, Typed, VotesHeld, Standing, NoNewVote
  <2>5. LeadersElected'
    BY <2>1 DEF ElectionInv, Typed, LeadersElected, IsMajority
  <2>6. QED
    BY <2>2, <2>3, <2>4, <2>5 DEF ElectionInv
<1>3. QED
  BY <1>1, <1>2

(* A node that starts an election moves to a term it never voted in.       *)
LEMMA TickElectionStep ==
    ASSUME ElectionInv, NEW n \in Nodes, TickElection(n)
    PROVE  ElectionInv'
<1>1. /\ currentTerm' = [currentTerm EXCEPT ![n] = @ + 1] /\ currentTerm[n] \in Nat
      /\ role' = [role EXCEPT ![n] = "Candidate"]
      /\ votedFor' = [votedFor EXCEPT ![n] = n]
      /\ votes' = [votes EXCEPT ![n] = {n}]
      /\ msgs' = msgs \cup RequestVotes(n, currentTerm'[n], log[n])
  BY DEF TickElection, ElectionInv, Typed
<1>2. \A x \in RequestVotes(n, currentTerm'[n], log[n]) : WellFormed(x) /\ x.type # "Vote"
  BY <1>1, NewMessages DEF ElectionInv, Typed
<1>3. Typed' /\ MessagesTyped'
  BY <1>1, <1>2 DEF ElectionInv, Typed, MessagesTyped, WellFormed, Roles
<1>4. VotesRemembered' /\ OneVotePerTerm'
  BY <1>1, <1>2 DEF ElectionInv, Typed, MessagesTyped, WellFormed, VotesRemembered,
                    OneVotePerTerm
<1>5. VotesHeld'
  BY <1>1 DEF ElectionInv, Typed, VotesHeld, Standing
<1>6. LeadersElected'
  BY <1>1 DEF ElectionInv, Typed, LeadersElected, IsMajority
<1>7. QED
  BY <1>3, <1>4, <1>5, <1>6 DEF ElectionInv

(* A granted vote is the node's only one of its term.                      *)
LEMMA GrantStep ==
    ASSUME ElectionInv, NEW n \in Nodes, NEW m \in msgs, m.type = "RequestVote",
           Grants(n, m), FollowTerm(n, m.term),
           votedFor' = [votedFor EXCEPT ![n] = m.from],
           msgs' = msgs \cup {Granted(m, n)}
    PROVE  ElectionInv'
<1>1. m.from \in Nodes /\ m.term \in Nat /\ None \notin Nodes
  BY NodesAssumption DEF ElectionInv, MessagesTyped, WellFormed
<1>2. /\ m.term >= currentTerm[n] /\ currentTerm[n] \in Nat
      /\ m.term = currentTerm[n] =>
            votedFor[n] \in {None, m.from} /\ UNCHANGED <<role, votes>>
      /\ m.term > currentTerm[n] =>
            /\ role' = [role EXCEPT ![n] = "Follower"]
            /\ votes' = [votes EXCEPT ![n] = {}]
      /\ currentTerm' = [currentTerm EXCEPT ![n] = m.term]
  <2>1. currentTerm[n] \in Nat /\ role \in [Nodes -> Roles] /\ votes \in [Nodes -> SUBSET Nodes]
    BY DEF ElectionInv, Typed
  <2>2. CASE BecomesFollower(n, m.term)
    BY <1>1, <2>1, <2>2 DEF Grants, FollowTerm, TermAfter, VoteAfter, BecomesFollower
  <2>3. CASE ~BecomesFollower(n, m.term)
    <3>1. m.term = currentTerm[n] /\ votedFor[n] \in {None, m.from}
      BY <2>3 DEF Grants, TermAfter, VoteAfter
    <3>2. UNCHANGED <<role, votes>> /\ currentTerm' = [currentTerm EXCEPT ![n] = m.term]
      BY <2>3, <3>1 DEF FollowTerm, TermAfter
    <3>3. QED
      BY <2>1, <3>1, <3>2
  <2>4. QED
    BY <2>2, <2>3
<1> DEFINE vote == Granted(m, n)
<1>3. /\ vote.type = "Vote" /\ vote.from = n /\ vote.to = m.from /\ vote.term = m.term
  BY DEF Granted
<1> HIDE DEF vote
<1>4. msgs' = msgs \cup {vote}
  BY DEF vote
<1>5. Typed' /\ MessagesTyped'
  BY <1>1, <1>2, <1>3, <1>4
  DEF ElectionInv, Typed, MessagesTyped, WellFormed, Roles
<1>6. VotesRemembered'
  <2>1. ASSUME NEW x \in msgs, x.type = "Vote"
        PROVE  /\ x.term <= currentTerm'[x.from]
               /\ x.term = currentTerm'[x.from] => votedFor'[x.from] = x.to
    <3>1. /\ x.from \in Nodes /\ x.to \in Nodes /\ x.term \in Nat
          /\ x.term <= currentTerm[x.from]
          /\ x.term = currentTerm[x.from] => votedFor[x.from] = x.to
      BY <2>1 DEF ElectionInv, MessagesTyped, WellFormed, VotesRemembered
    <3>2. CASE x.from = n
      BY <1>1, <1>2, <3>1, <3>2 DEF ElectionInv, Typed
    <3>3. CASE x.from # n
      BY <1>2, <3>1, <3>3 DEF ElectionInv, Typed
    <3>4. QED
      BY <3>2, <3>3
  <2>2. vote.term <= currentTerm'[n] /\ votedFor'[n] = vote.to
    BY <1>1, <1>2, <1>3 DEF ElectionInv, Typed
  <2>3. QED
    BY <1>3, <1>4, <2>1, <2>2 DEF VotesRemembered
<1>7. OneVotePerTerm'
  <2>1. ASSUME NEW x \in msgs, x.type = "Vote", x.from = n, x.term = m.term
        PROVE  x.to = m.from
    <3>1. /\ x.to \in Nodes /\ x.term <= currentTerm[n]
          /\ x.term = currentTerm[n] => votedFor[n] = x.to
      BY <2>1 DEF ElectionInv, MessagesTyped, WellFormed, VotesRemembered
    <3>2. QED
      BY <1>1, <1>2, <2>1, <3>1
  <2>2. QED
    BY <1>3, <1>4, <2>1 DEF ElectionInv, OneVotePerTerm
<1>8. VotesHeld'
  <2>1. ASSUME NEW p \in Nodes, role'[p] \in Standing
        PROVE  /\ role[p] \in Standing /\ votes'[p] = votes[p]
               /\ currentTerm'[p] = currentTerm[p] /\ votedFor'[p] = votedFor[p]
    <3>1. CASE p # n
      <4>1. m.term = currentTerm[n] \/ m.term > currentTerm[n]
        BY <1>1, <1>2
      <4>2. role'[p] = role[p] /\ votes'[p] = votes[p]
        BY <1>2, <3>1, <4>1 DEF ElectionInv, Typed
      <4>3. QED
        BY <1>2, <2>1, <3>1, <4>2 DEF ElectionInv, Typed
    <3>2. CASE p = n
      <4>1. m.term = currentTerm[n]
        BY <1>1, <1>2, <2>1, <3>2 DEF ElectionInv, Typed, Standing
      <4>2. role[n] \in Standing /\ votedFor[n] = n
        BY <1>2, <2>1, <3>2, <4>1 DEF ElectionInv, VotesHeld
      <4>3. QED
        BY <1>1, <1>2, <3>2, <4>1, <4>2 DEF ElectionInv, Typed
    <3>3. QED
      BY <3>1, <3>2
  <2>2. QED
    BY <1>4, <2>1 DEF ElectionInv, VotesHeld
<1>9. LeadersElected'
  <2>1. m.term = currentTerm[n] \/ m.term > currentTerm[n]
    BY <1>1, <1>2
  <2>2. ASSUME NEW p \in Nodes, role'[p] = "Leader"
        PROVE  role[p] = "Leader" /\ votes'[p] = votes[p]
    BY <1>2, <2>1, <2>2 DEF ElectionInv, Typed
  <2>3. QED
    BY <2>2 DEF ElectionInv, LeadersElected, IsMajority
<1>10. QED
  BY <1>5, <1>6, <1>7, <1>8, <1>9 DEF ElectionInv

(* A candidate counts a vote sent to it in its own term, and leads only    *)
(* with a majority.                                                        *)
LEMMA CountVoteStep ==
    ASSUME ElectionInv, NEW n \in Nodes, CountVote(n)
    PROVE  ElectionInv'
<1>1. PICK m \in msgs :
         /\ m.to = n /\ m.type = "Vote"
         /\ role[n] = "Candidate" /\ m.term = currentTerm[n]
         /\ votes' = [votes EXCEPT ![n] = @ \cup {m.from}]
         /\ \/ /\ IsMajority(votes'[n])
               /\ role' = [role EXCEPT ![n] = "Leader"]
               /\ msgs' = msgs \cup Heartbeats(n, log[n])
            \/ role' = role /\ msgs' = msgs
         /\ currentTerm' = currentTerm /\ votedFor' = votedFor
  BY DEF CountVote, Received
<1>2. m.from \in Nodes
  BY <1>1 DEF ElectionInv, MessagesTyped, WellFormed
<1>3. NoNewVote
  BY <1>1, NewMessages DEF ElectionInv, NoNewVote
<1>4. Typed' /\ MessagesTyped'
  BY <1>1, <1>2, <1>3 DEF ElectionInv, Typed, MessagesTyped, WellFormed, Roles, NoNewVote
<1>5. VotesRemembered' /\ OneVotePerTerm'
  BY <1>1, <1>3 DEF ElectionInv, VotesRemembered, OneVotePerTerm, NoNewVote
<1>6. VotesHeld'
  <2>1. ASSUME NEW p \in Nodes, role'[p] \in Standing
        PROVE  /\ role[p] \in Standing
               /\ votes'[p] = IF p = n THEN votes[n] \cup {m.from} ELSE votes[p]
    BY <1>1, <2>1 DEF ElectionInv, Typed, Standing
  <2>2. QED
    BY <1>1, <1>3, <2>1 DEF ElectionInv, VotesHeld, NoNewVote
<1>7. LeadersElected'
  BY <1>1 DEF ElectionInv, Typed, LeadersElected, IsMajority
<1>8. QED
  BY <1>4, <1>5, <1>6, <1>7 DEF ElectionInv

---------------------------------------------------------------------------
(* Nobody stands and nothing is sent at the start.                         *)
LEMMA InitElectionInv == Init => ElectionInv
BY DEF Init, ElectionInv, Typed, MessagesTyped, VotesRemembered, OneVotePerTerm,
       VotesHeld, LeadersElected, Roles, Standing

(* Every step keeps the invariant.                                         *)
LEMMA NextElectionInv == ElectionInv /\ [Next]_vars => ElectionInv'
<1> SUFFICES ASSUME ElectionInv, [Next]_vars PROVE ElectionInv'
  OBVIOUS
<1> USE DEF electionVars, logVars
<1>1. ASSUME UNCHANGED <<role, currentTerm, votedFor, votes, msgs>> PROVE ElectionInv'
  BY <1>1, QuietStep DEF NoNewVote
<1>2. ASSUME NEW n \in Nodes, NEW l, msgs' = msgs \cup Heartbeats(n, l),
             UNCHANGED <<role, currentTerm, votedFor, votes>>
      PROVE  ElectionInv'
  <2>1. NoNewVote
    BY <1>2, NewMessages DEF ElectionInv, NoNewVote
  <2>2. QED
    BY <1>2, <2>1, QuietStep
<1>3. ASSUME NEW n \in Nodes, TickLeader(n) PROVE ElectionInv'
  BY <1>2, <1>3 DEF TickLeader
<1>4. ASSUME NEW n \in Nodes, TickWaits(n) PROVE ElectionInv'
  BY <1>1, <1>4 DEF TickWaits
<1>5. ASSUME NEW n \in Nodes, NEW c \in Commands, Propose(n, c) PROVE ElectionInv'
  BY <1>2, <1>5 DEF Propose
<1>6. ASSUME NEW n \in Nodes, CountAck(n) PROVE ElectionInv'
  BY <1>1, <1>6 DEF CountAck
<1>7. ASSUME NEW n \in Nodes, StepDown(n) PROVE ElectionInv'
  <2>1. PICK m \in msgs :
           /\ BecomesFollower(n, m.term) /\ FollowTerm(n, m.term)
           /\ votedFor' = [votedFor EXCEPT ![n] = None] /\ msgs' = msgs
    BY <1>7 DEF StepDown, Received
  <2>2. /\ m.term \in Nat /\ NoNewVote
        /\ votedFor' = [votedFor EXCEPT ![n] = VoteAfter(n, m.term)]
    BY <2>1 DEF VoteAfter, NoNewVote, ElectionInv, MessagesTyped, WellFormed
  <2>3. QED
    BY <2>1, <2>2, FollowStep
<1>8. ASSUME NEW n \in Nodes, NEW m \in msgs
      PROVE  /\ \A x \in Refusal(m, n) : WellFormed(x) /\ x.type # "Vote"
             /\ \A k : LET x == Success(m, n, k) IN WellFormed(x) /\ x.type # "Vote"
  BY DEF ElectionInv, Typed, MessagesTyped, WellFormed, Refusal, Success
<1>9. ASSUME NEW n \in Nodes, RequestVote(n) PROVE ElectionInv'
  <2>1. PICK m \in msgs :
           /\ m.type = "RequestVote" /\ FollowTerm(n, m.term)
           /\ \/ /\ Grants(n, m) /\ votedFor' = [votedFor EXCEPT ![n] = m.from]
                 /\ msgs' = msgs \cup {Granted(m, n)}
              \/ /\ votedFor' = [votedFor EXCEPT ![n] = VoteAfter(n, m.term)]
                 /\ msgs' = msgs \cup Refusal(m, n)
    BY <1>9 DEF RequestVote, Received
  <2>2. m.term \in Nat
    BY DEF ElectionInv, MessagesTyped, WellFormed
  <2>3. CASE /\ votedFor' = [votedFor EXCEPT ![n] = VoteAfter(n, m.term)]
             /\ msgs' = msgs \cup Refusal(m, n)
    <3>1. NoNewVote
      BY <1>8, <2>3 DEF NoNewVote
    <3>2. QED
      BY <2>1, <2>2, <2>3, <3>1, FollowStep
  <2>4. QED
    BY <2>1, <2>3, GrantStep
<1>10. ASSUME NEW n \in Nodes, AppendEntries(n) PROVE ElectionInv'
  <2>1. PICK m \in msgs :
           /\ FollowTerm(n, m.term)
           /\ votedFor' = [votedFor EXCEPT ![n] = VoteAfter(n, m.term)]
           /\ \/ msgs' = msgs \cup {Success(m, n, Len(log'[n]))}
              \/ msgs' = msgs \cup Refusal(m, n)
    BY <1>10 DEF AppendEntries, Received
  <2>2. m.term \in Nat
    BY DEF ElectionInv, MessagesTyped, WellFormed
  <2>3. NoNewVote
    BY <1>8, <2>1 DEF NoNewVote
  <2>4. QED
    BY <2>1, <2>2, <2>3, FollowStep
<1>11. CASE UNCHANGED vars
  BY <1>1, <1>11 DEF vars
<1>12. QED
  BY <1>3, <1>4, <1>5, <1>6, <1>7, <1>9, <1>10, <1>11, TickElectionStep, CountVoteStep
  DEF Next

(* No term ever has two leaders, however votes are lost, repeated and      *)
(* delayed.                                                                *)
THEOREM OneLeaderPerTerm == Spec => []ElectionSafety
<1>1. Init => ElectionInv
  BY InitElectionInv
<1>2. ElectionInv /\ [Next]_vars => ElectionInv'
  BY NextElectionInv
<1>3. ElectionInv => ElectionSafety
  BY ElectedOnce
<1>4. QED
  BY <1>1, <1>2, <1>3, PTL DEF Spec

---------------------------------------------------------------------------
VoteKept(n) ==
    \/ currentTerm'[n] > currentTerm[n]
    \/ /\ currentTerm'[n] = currentTerm[n]
       /\ votedFor[n] # None => votedFor'[n] = votedFor[n]

(* Following a term forgets a vote only together with its term.            *)
LEMMA FollowKeepsVotes ==
    ASSUME Typed, NEW n \in Nodes, NEW term \in Nat, FollowTerm(n, term), NEW vote,
           votedFor' = [votedFor EXCEPT ![n] = vote],
           VoteAfter(n, term) = None \/ vote = VoteAfter(n, term)
    PROVE  \A p \in Nodes : VoteKept(p)
<1>1. CASE BecomesFollower(n, term)
  BY <1>1 DEF Typed, FollowTerm, TermAfter, BecomesFollower, VoteKept
<1>2. CASE ~BecomesFollower(n, term)
  BY <1>2 DEF Typed, FollowTerm, TermAfter, VoteAfter, VoteKept
<1>3. QED
  BY <1>1, <1>2

(* A node's term never goes back, and its vote changes only with its term. *)
THEOREM VotesStayFinal == Spec => VotesAreFinal
<1>1. ElectionInv /\ [Next]_vars => [\A n \in Nodes : VoteKept(n)]_vars
  <2> SUFFICES ASSUME ElectionInv, Next PROVE \A p \in Nodes : VoteKept(p)
    OBVIOUS
  <2> USE DEF electionVars, logVars
  <2>1. Typed /\ \A m \in msgs : m.term \in Nat
    BY DEF ElectionInv, MessagesTyped, WellFormed
  <2>2. ASSUME UNCHANGED <<currentTerm, votedFor>> PROVE \A p \in Nodes : VoteKept(p)
    BY <2>2 DEF VoteKept
  <2>3. ASSUME NEW n \in Nodes, TickElection(n) PROVE \A p \in Nodes : VoteKept(p)
    BY <2>1, <2>3 DEF TickElection, Typed, VoteKept
  <2>4. ASSUME NEW n \in Nodes, RequestVote(n) PROVE \A p \in Nodes : VoteKept(p)
    <3>1. PICK m \in msgs :
             /\ FollowTerm(n, m.term)
             /\ votedFor' = [votedFor EXCEPT ![n] =
                               IF Grants(n, m) THEN m.from ELSE VoteAfter(n, m.term)]
      BY <2>4 DEF RequestVote, Received
    <3>2. Grants(n, m) => VoteAfter(n, m.term) \in {None, m.from}
      BY DEF Grants
    <3>3. QED
      BY <2>1, <3>1, <3>2, FollowKeepsVotes
  <2>5. ASSUME NEW n \in Nodes, StepDown(n) PROVE \A p \in Nodes : VoteKept(p)
    <3>1. PICK m \in msgs :
             /\ BecomesFollower(n, m.term) /\ FollowTerm(n, m.term)
             /\ votedFor' = [votedFor EXCEPT ![n] = None]
      BY <2>5 DEF StepDown, Received
    <3>2. VoteAfter(n, m.term) = None
      BY <3>1 DEF VoteAfter
    <3>3. QED
      BY <2>1, <3>1, <3>2, FollowKeepsVotes
  <2>6. ASSUME NEW n \in Nodes, AppendEntries(n) PROVE \A p \in Nodes : VoteKept(p)
    <3>1. PICK m \in msgs :
             /\ FollowTerm(n, m.term)
             /\ votedFor' = [votedFor EXCEPT ![n] = VoteAfter(n, m.term)]
      BY <2>6 DEF AppendEntries, Received
    <3>2. QED
      BY <2>1, <3>1, FollowKeepsVotes
  <2>7. QED
    BY <2>2, <2>3, <2>4, <2>5, <2>6
    DEF Next, TickLeader, TickWaits, Propose, CountVote, CountAck
<1>2. [\A n \in Nodes : VoteKept(n)]_vars =>
         [\A n \in Nodes :
             \/ currentTerm'[n] > currentTerm[n]
             \/ /\ currentTerm'[n] = currentTerm[n]
                /\ votedFor[n] # None => votedFor'[n] = votedFor[n]]_vars
  BY DEF VoteKept
<1>3. Spec => [][\A n \in Nodes : VoteKept(n)]_vars
  BY <1>1, InitElectionInv, NextElectionInv, PTL DEF Spec
<1>4. QED
  BY <1>2, <1>3, PTL DEF VotesAreFinal

---------------------------------------------------------------------------
(* Logs.                                                                   *)

(* Types, and the commit index.  What a message carries into a node's      *)
(* fields was in a field of its sender.                                    *)
Shape(m) ==
    /\ m.term \in 0 .. MaxTerm
    /\ m.type \in {"RequestVote", "Vote", "AppendResponse"} => m.from \in Nodes
    /\ m.type = "AppendEntries" => m.entries \in Seq(Entry) /\ m.commit \in Nat
    /\ m.type = "AppendResponse" => m.match \in Nat

MessagesShaped == \A m \in msgs : Shape(m)

(* Only a node that has started an election appends entries of its term.   *)
StandingHasTerm == \A n \in Nodes : role[n] \in Standing => currentTerm[n] >= 1

LogInv == TypeOK /\ MessagesShaped /\ StandingHasTerm /\ CommitWithinLog

(* A set of naturals that is not empty has a least member.                 *)
LEMMA LeastMember ==
    ASSUME NEW T, T \subseteq Nat, T # {}
    PROVE  \E x \in T : \A y \in T : x <= y
<1> DEFINE R == {pair \in Nat \X Nat : pair[1] < pair[2]}
<1>1. IsWellFoundedOn(R, Nat)
  <2>1. OpToRel(<, Nat) = R
    BY DEF OpToRel
  <2>2. QED
    BY <2>1, NatLessThanWellFounded
<1>2. PICK x \in T : \A y \in T : ~(<<y, x>> \in R)
  <2> HIDE DEF R
  <2>1. QED
    BY <1>1, WFMin
<1>3. ASSUME NEW y \in T, ~(x <= y) PROVE FALSE
  <2>1. <<y, x>> \in Nat \X Nat /\ <<y, x>>[1] < <<y, x>>[2]
    BY <1>3
  <2>2. QED
    BY <1>2, <2>1
<1>4. QED
  BY <1>3

(* Merging two logs gives a log.                                           *)
LEMMA MergedTyped ==
    ASSUME NEW l \in Seq(Entry), NEW e \in Seq(Entry)
    PROVE  Merged(l, e) \in Seq(Entry)
<1> DEFINE both == DOMAIN l \cap DOMAIN e
           Kept(k) == SubSeq(l, 1, k) \o SubSeq(e, k + 1, Len(e))
           Differ == {i \in both : l[i].term # e[i].term}
           First(k) == /\ \A i \in 1 .. k : l[i].term = e[i].term
                       /\ k + 1 \in both /\ l[k + 1].term # e[k + 1].term
<1>1. ASSUME NEW k \in 0 .. Len(l) PROVE Kept(k) \in Seq(Entry)
  <2>1. SubSeq(l, 1, k) \in Seq(Entry)
    <3>1. \A i \in 1 .. k : l[i] \in Entry
      BY ElementOfSeq
    <3>2. QED
      BY <3>1, SubSeqProperties
  <2>2. SubSeq(e, k + 1, Len(e)) \in Seq(Entry)
    <3>1. \A i \in k + 1 .. Len(e) : e[i] \in Entry
      BY ElementOfSeq
    <3>2. k + 1 \in Int /\ Len(e) \in Int
      OBVIOUS
    <3>3. QED
      BY <3>1, <3>2, SubSeqProperties
  <2>3. QED
    BY <2>1, <2>2, ConcatProperties
<1>2. CASE Differ # {}
  <2>1. PICK i \in Differ : \A j \in Differ : i <= j
    <3>1. Differ \subseteq Nat
      OBVIOUS
    <3> HIDE DEF Differ
    <3>2. QED
      BY <1>2, <3>1, LeastMember
  <2>2. i - 1 \in 0 .. Len(l) /\ First(i - 1)
    <3>1. i \in both /\ l[i].term # e[i].term /\ i \in 1 .. Len(l) /\ i \in 1 .. Len(e)
      OBVIOUS
    <3>2. \A j \in 1 .. i - 1 : j \in both /\ j \notin Differ
      BY <2>1, <3>1
    <3>3. QED
      BY <3>1, <3>2
  <2>3. (CHOOSE k \in 0 .. Len(l) : First(k)) \in 0 .. Len(l)
    <3> HIDE DEF First
    <3>1. QED
      BY <2>2
  <2>4. Merged(l, e) = Kept(CHOOSE k \in 0 .. Len(l) : First(k))
    BY <1>2 DEF Merged
  <2> HIDE DEF Kept, First
  <2>5. QED
    BY <1>1, <2>3, <2>4
<1>3. CASE Differ = {}
  <2>1. Merged(l, e) = IF Len(e) > Len(l) THEN Kept(Len(l)) ELSE l
    BY <1>3 DEF Merged
  <2>2. Len(l) \in 0 .. Len(l)
    OBVIOUS
  <2> HIDE DEF Kept
  <2>3. QED
    BY <1>1, <2>1, <2>2
<1>4. QED
  BY <1>2, <1>3

LEMMA InitLogInv == Init => LogInv
BY BoundsAssumption, TimeoutAssumption, EmptySeq
DEF Init, LogInv, TypeOK, Roles, MessagesShaped, StandingHasTerm, Standing, CommitWithinLog

(* What a node sends of its own state has the shape of a message.          *)
LEMMA SentShaped ==
    ASSUME LogInv, NEW n \in Nodes
    PROVE  /\ \A l \in Seq(Entry) : \A m \in Heartbeats(n, l) : Shape(m)
           /\ \A t \in 0 .. MaxTerm : \A l : \A m \in RequestVotes(n, t, l) : Shape(m)
           /\ \A m \in msgs : Shape(Granted(m, n)) /\ \A r \in Refusal(m, n) : Shape(r)
           /\ \A m \in msgs, k \in Nat : Shape(Success(m, n, k))
<1> USE DEF LogInv, TypeOK, MessagesShaped, Shape
<1>1. \A l \in Seq(Entry) : \A m \in Heartbeats(n, l) : Shape(m)
  BY DEF Heartbeats
<1>2. \A t \in 0 .. MaxTerm : \A l : \A m \in RequestVotes(n, t, l) : Shape(m)
  BY DEF RequestVotes
<1>3. \A m \in msgs : Shape(Granted(m, n)) /\ \A r \in Refusal(m, n) : Shape(r)
  BY DEF Granted, Refusal
<1>4. \A m \in msgs, k \in Nat : Shape(Success(m, n, k))
  BY DEF Success
<1>5. QED
  BY <1>1, <1>2, <1>3, <1>4

(* Following a term keeps the types of what it changes, and who stands.    *)
LEMMA FollowTyped ==
    ASSUME LogInv, NEW n \in Nodes, NEW t \in 0 .. MaxTerm, FollowTerm(n, t)
    PROVE  /\ role' \in [Nodes -> Roles] /\ currentTerm' \in [Nodes -> 0 .. MaxTerm]
           /\ votes' \in [Nodes -> SUBSET Nodes]
           /\ VoteAfter(n, t) \in Nodes \cup {None}
           /\ StandingHasTerm'
BY BoundsAssumption
DEF LogInv, TypeOK, FollowTerm, TermAfter, BecomesFollower, VoteAfter, Roles, Standing,
    StandingHasTerm

(* Every step keeps it.                                                    *)
LEMMA NextLogInv == LogInv /\ [Next]_vars => LogInv'
<1> SUFFICES ASSUME LogInv, [Next]_vars PROVE LogInv'
  OBVIOUS
<1> USE BoundsAssumption, TimeoutAssumption DEF electionVars, logVars
<1>1. ASSUME NEW n \in Nodes, TickLeader(n) PROVE LogInv'
  <2>1. MessagesShaped'
    BY <1>1, SentShaped DEF TickLeader, LogInv, TypeOK, MessagesShaped
  <2>2. QED
    BY <1>1, <2>1 DEF TickLeader, LogInv, TypeOK, StandingHasTerm, CommitWithinLog
<1>2. ASSUME NEW n \in Nodes, TickWaits(n) PROVE LogInv'
  BY <1>2 DEF TickWaits, LogInv, TypeOK, MessagesShaped, StandingHasTerm, CommitWithinLog
<1>3. ASSUME NEW n \in Nodes, TickElection(n) PROVE LogInv'
  <2>1. currentTerm' \in [Nodes -> 0 .. MaxTerm] /\ currentTerm'[n] = currentTerm[n] + 1
    BY <1>3 DEF TickElection, LogInv, TypeOK
  <2>2. MessagesShaped'
    BY <1>3, <2>1, SentShaped DEF TickElection, LogInv, MessagesShaped
  <2>3. TypeOK'
    BY <1>3, <2>1 DEF TickElection, LogInv, TypeOK, Roles
  <2>4. StandingHasTerm' /\ CommitWithinLog'
    BY <1>3, <2>1
    DEF TickElection, LogInv, TypeOK, StandingHasTerm, CommitWithinLog
  <2>5. QED
    BY <2>2, <2>3, <2>4 DEF LogInv
<1>4. ASSUME NEW n \in Nodes, NEW c \in Commands, Propose(n, c) PROVE LogInv'
  <2>1. [term |-> currentTerm[n], command |-> c] \in Entry
    BY <1>4 DEF Propose, LogInv, TypeOK, StandingHasTerm, Standing, Entry
  <2>2. /\ log'[n] \in Seq(Entry) /\ Len(log'[n]) = Len(log[n]) + 1
        /\ log' = [log EXCEPT ![n] = log'[n]]
    BY <1>4, <2>1 DEF Propose, LogInv, TypeOK
  <2>3. MessagesShaped'
    BY <1>4, <2>2, SentShaped DEF Propose, LogInv, MessagesShaped
  <2>4. TypeOK'
    BY <1>4, <2>2 DEF Propose, LogInv, TypeOK
  <2>5. StandingHasTerm'
    BY <1>4 DEF Propose, LogInv, StandingHasTerm
  <2>6. CommitWithinLog'
    BY <1>4, <2>2 DEF Propose, LogInv, TypeOK, CommitWithinLog
  <2>7. QED
    BY <2>3, <2>4, <2>5, <2>6 DEF LogInv
<1>5. ASSUME NEW n \in Nodes, RequestVote(n) PROVE LogInv'
  <2>1. PICK m \in msgs :
           /\ m.type = "RequestVote" /\ FollowTerm(n, m.term)
           /\ votedFor' = [votedFor EXCEPT ![n] =
                  IF Grants(n, m) THEN m.from ELSE VoteAfter(n, m.term)]
           /\ elapsed' = [elapsed EXCEPT ![n] =
                  IF Grants(n, m) \/ BecomesFollower(n, m.term) THEN 0 ELSE @]
           /\ msgs' = msgs \cup IF Grants(n, m) THEN {Granted(m, n)} ELSE Refusal(m, n)
           /\ UNCHANGED <<log, commitIndex, acks>>
    BY <1>5 DEF RequestVote, Received
  <2>2. m.term \in 0 .. MaxTerm /\ m.from \in Nodes
    BY <2>1 DEF LogInv, MessagesShaped, Shape
  <2>3. TypeOK' /\ StandingHasTerm' /\ CommitWithinLog'
    <3>1. votedFor' \in [Nodes -> Nodes \cup {None}]
      BY <2>1, <2>2, FollowTyped DEF LogInv, TypeOK
    <3>2. elapsed' \in [Nodes -> 0 .. ElectionTimeout - 1]
      BY <2>1 DEF LogInv, TypeOK
    <3>3. CommitWithinLog'
      BY <2>1 DEF LogInv, CommitWithinLog
    <3>4. QED
      BY <2>1, <2>2, <3>1, <3>2, <3>3, FollowTyped DEF LogInv, TypeOK
  <2>4. MessagesShaped'
    BY <2>1, SentShaped DEF LogInv, MessagesShaped
  <2>5. QED
    BY <2>3, <2>4 DEF LogInv
<1>6. ASSUME NEW n \in Nodes, StepDown(n) PROVE LogInv'
  <2>1. PICK m \in msgs :
           /\ FollowTerm(n, m.term) /\ votedFor' = [votedFor EXCEPT ![n] = None]
           /\ elapsed' = [elapsed EXCEPT ![n] = 0]
           /\ UNCHANGED <<log, commitIndex, acks, msgs>>
    BY <1>6 DEF StepDown, Received
  <2>2. m.term \in 0 .. MaxTerm
    BY DEF LogInv, MessagesShaped, Shape
  <2>3. /\ votedFor' \in [Nodes -> Nodes \cup {None}]
        /\ elapsed' \in [Nodes -> 0 .. ElectionTimeout - 1]
    BY <2>1 DEF LogInv, TypeOK
  <2>4. CommitWithinLog' /\ MessagesShaped'
    BY <2>1 DEF LogInv, CommitWithinLog, MessagesShaped
  <2>5. QED
    BY <2>1, <2>2, <2>3, <2>4, FollowTyped DEF LogInv, TypeOK
<1>7. ASSUME NEW n \in Nodes, CountVote(n) PROVE LogInv'
  <2>1. PICK m \in msgs :
           /\ m.type = "Vote" /\ role[n] = "Candidate"
           /\ votes' = [votes EXCEPT ![n] = @ \cup {m.from}]
           /\ \/ /\ role' = [role EXCEPT ![n] = "Leader"]
                 /\ elapsed' = [elapsed EXCEPT ![n] = 0]
                 /\ msgs' = msgs \cup Heartbeats(n, log[n])
              \/ UNCHANGED <<role, elapsed, msgs>>
           /\ UNCHANGED <<currentTerm, votedFor, logVars>>
    BY <1>7 DEF CountVote, Received
  <2>2. m.from \in Nodes
    BY <2>1 DEF LogInv, MessagesShaped, Shape
  <2>3. TypeOK' /\ StandingHasTerm' /\ CommitWithinLog'
    <3>1. role' \in [Nodes -> Roles] /\ elapsed' \in [Nodes -> 0 .. ElectionTimeout - 1]
      <4>1. role' = [role EXCEPT ![n] = "Leader"] \/ role' = role
        BY <2>1
      <4>2. elapsed' = [elapsed EXCEPT ![n] = 0] \/ elapsed' = elapsed
        BY <2>1
      <4>3. role \in [Nodes -> Roles] /\ elapsed \in [Nodes -> 0 .. ElectionTimeout - 1]
        BY DEF LogInv, TypeOK
      <4>4. "Leader" \in Roles /\ 0 \in 0 .. ElectionTimeout - 1
        BY DEF Roles
      <4>5. role' \in [Nodes -> Roles]
        BY <4>1, <4>3, <4>4
      <4>6. elapsed' \in [Nodes -> 0 .. ElectionTimeout - 1]
        BY <4>2, <4>3, <4>4
      <4>7. QED
        BY <4>5, <4>6
    <3>2. votes' \in [Nodes -> SUBSET Nodes]
      BY <2>1, <2>2 DEF LogInv, TypeOK
    <3>3. StandingHasTerm'
      <4>1. \A p \in Nodes : role'[p] \in Standing => role[p] \in Standing
        BY <2>1 DEF LogInv, TypeOK, Standing
      <4>2. QED
        BY <2>1, <4>1 DEF LogInv, StandingHasTerm
    <3>4. QED
      BY <2>1, <3>1, <3>2, <3>3 DEF LogInv, TypeOK, CommitWithinLog
  <2>4. MessagesShaped'
    BY <2>1, SentShaped DEF LogInv, TypeOK, MessagesShaped
  <2>5. QED
    BY <2>3, <2>4 DEF LogInv
<1>8. ASSUME NEW n \in Nodes, AppendEntries(n) PROVE LogInv'
  <2>1. PICK m \in msgs :
           /\ m.type = "AppendEntries" /\ FollowTerm(n, m.term)
           /\ votedFor' = [votedFor EXCEPT ![n] = VoteAfter(n, m.term)]
           /\ \/ /\ log' = [log EXCEPT ![n] = Merged(@, m.entries)]
                 /\ commitIndex' =
                        [commitIndex EXCEPT ![n] = Least(m.commit, Len(log'[n]))]
                 /\ elapsed' = [elapsed EXCEPT ![n] = 0]
                 /\ msgs' = msgs \cup {Success(m, n, Len(log'[n]))}
              \/ /\ msgs' = msgs \cup Refusal(m, n)
                 /\ UNCHANGED <<log, commitIndex, elapsed>>
           /\ UNCHANGED acks
    BY <1>8 DEF AppendEntries, Received
  <2>2. m.term \in 0 .. MaxTerm /\ m.entries \in Seq(Entry) /\ m.commit \in Nat
    BY <2>1 DEF LogInv, MessagesShaped, Shape
  <2>3. Merged(log[n], m.entries) \in Seq(Entry)
    BY <2>2, MergedTyped DEF LogInv, TypeOK
  <2>4. log' \in [Nodes -> Seq(Entry)] /\ Len(log'[n]) \in Nat
    <3>1. log \in [Nodes -> Seq(Entry)]
      BY DEF LogInv, TypeOK
    <3>2. log' = [log EXCEPT ![n] = Merged(log[n], m.entries)] \/ log' = log
      BY <2>1
    <3>3. log' \in [Nodes -> Seq(Entry)]
      BY <2>3, <3>1, <3>2
    <3>4. QED
      BY <3>3, LenProperties
  <2>5. Least(m.commit, Len(log'[n])) \in 0 .. Len(log'[n])
    BY <2>2, <2>4 DEF Least
  <2>6. TypeOK' /\ StandingHasTerm'
    <3>1. votedFor' \in [Nodes -> Nodes \cup {None}]
      BY <2>1, <2>2, FollowTyped DEF LogInv, TypeOK
    <3>2. elapsed' \in [Nodes -> 0 .. ElectionTimeout - 1]
      <4>1. elapsed' = [elapsed EXCEPT ![n] = 0] \/ elapsed' = elapsed
        BY <2>1
      <4>2. elapsed \in [Nodes -> 0 .. ElectionTimeout - 1] /\ 0 \in 0 .. ElectionTimeout - 1
        BY DEF LogInv, TypeOK
      <4>3. QED
        BY <4>1, <4>2
    <3>3. commitIndex' \in [Nodes -> Nat]
      <4>1. commitIndex \in [Nodes -> Nat] /\ Least(m.commit, Len(log'[n])) \in Nat
        BY <2>4, <2>5 DEF LogInv, TypeOK
      <4>2. QED
        BY <2>1, <4>1
    <3>4. QED
      BY <2>1, <2>2, <2>4, <3>1, <3>2, <3>3, FollowTyped DEF LogInv, TypeOK
  <2>7. CommitWithinLog'
    <3>1. ASSUME NEW p \in Nodes PROVE commitIndex'[p] <= Len(log'[p])
      <4>1. CASE p = n
        <5>1. \/ commitIndex'[n] = Least(m.commit, Len(log'[n]))
              \/ log' = log /\ commitIndex' = commitIndex
          BY <2>1 DEF LogInv, TypeOK
        <5>2. QED
          BY <2>4, <2>5, <4>1, <5>1 DEF LogInv, CommitWithinLog
      <4>2. CASE p # n
        BY <2>1, <4>2 DEF LogInv, TypeOK, CommitWithinLog
      <4>3. QED
        BY <4>1, <4>2
    <3>2. QED
      BY <3>1 DEF CommitWithinLog
  <2>8. MessagesShaped'
    <3>1. \A x \in Refusal(m, n) \cup {Success(m, n, Len(log'[n]))} : Shape(x)
      BY <2>4, SentShaped
    <3>2. QED
      BY <2>1, <3>1 DEF LogInv, MessagesShaped
  <2>9. QED
    BY <2>6, <2>7, <2>8 DEF LogInv
<1>9. ASSUME NEW n \in Nodes, CountAck(n) PROVE LogInv'
  <2>1. PICK m \in msgs :
           /\ m.type = "AppendResponse"
           /\ acks' = [acks EXCEPT ![n] = @ \cup {m.from}]
           /\ commitIndex' = [commitIndex EXCEPT ![n] =
                 IF IsMajority(acks'[n]) THEN Least(m.match, Len(log[n])) ELSE @]
           /\ UNCHANGED <<electionVars, log, msgs>>
    BY <1>9 DEF CountAck, Received
  <2>2. m.from \in Nodes /\ m.match \in Nat /\ Len(log[n]) \in Nat
    BY <2>1 DEF LogInv, TypeOK, MessagesShaped, Shape
  <2>3. Least(m.match, Len(log[n])) \in 0 .. Len(log[n])
    BY <2>2 DEF Least
  <2>4. \A p \in Nodes : commitIndex'[p] \in 0 .. Len(log[p])
    <3>1. \A p \in Nodes : commitIndex[p] \in 0 .. Len(log[p])
      BY DEF LogInv, TypeOK, CommitWithinLog
    <3>2. commitIndex \in [Nodes -> Nat]
      BY DEF LogInv, TypeOK
    <3>3. QED
      BY <2>1, <2>3, <3>1, <3>2
  <2>5. acks' \in [Nodes -> SUBSET Nodes]
    BY <2>1, <2>2 DEF LogInv, TypeOK
  <2>6. commitIndex' \in [Nodes -> Nat]
    <3>1. DOMAIN commitIndex' = Nodes /\ commitIndex' = [p \in Nodes |-> commitIndex'[p]]
      BY <2>1 DEF LogInv, TypeOK
    <3>2. \A p \in Nodes : commitIndex'[p] \in Nat
      BY <2>4
    <3>3. QED
      BY <3>1, <3>2
  <2>7. TypeOK'
    BY <2>1, <2>5, <2>6 DEF LogInv, TypeOK
  <2>8. MessagesShaped' /\ StandingHasTerm'
    BY <2>1 DEF LogInv, MessagesShaped, StandingHasTerm
  <2>9. CommitWithinLog'
    <3>1. \A p \in Nodes : commitIndex'[p] <= Len(log[p])
      BY <2>4
    <3>2. QED
      BY <2>1, <3>1 DEF CommitWithinLog
  <2>10. QED
    BY <2>7, <2>8, <2>9 DEF LogInv
<1>10. CASE UNCHANGED vars
  BY <1>10 DEF vars, LogInv, TypeOK, MessagesShaped, StandingHasTerm, CommitWithinLog
<1>11. QED
  BY <1>1, <1>2, <1>3, <1>4, <1>5, <1>6, <1>7, <1>8, <1>9, <1>10 DEF Next

(* No node counts as committed what is not in its log, however logs are    *)
(* replaced and answers repeated; and every variable keeps its type.       *)
THEOREM CommitsWithinLogs == Spec => [](TypeOK /\ CommitWithinLog)
<1>1. LogInv => TypeOK /\ CommitWithinLog
  BY DEF LogInv
<1>2. QED
  BY <1>1, InitLogInv, NextLogInv, PTL DEF Spec

---------------------------------------------------------------------------
(* Log matching.                                                           *)

Appends == {m \in msgs : m.type = "AppendEntries"}

(* Every log there is: held by a node or on its way in a message.          *)
Logs == {log[n] : n \in Nodes} \cup {m.entries : m \in Appends}

Match(a, b) ==
    \A i \in DOMAIN a \cap DOMAIN b : a[i].term = b[i].term => \A j \in 1 .. i : a[j] = b[j]

LogsMatch == \A a, b \in Logs : Match(a, b)

(* The evidence, which nothing takes away, that p led term t.              *)
Voters(p, t) ==
    {v \in Nodes : \E m \in msgs : m.type = "Vote" /\ m.from = v /\ m.to = p /\ m.term = t}

Elected(p, t) ==
    /\ IsMajority({p} \cup Voters(p, t))
    /\ \A m \in msgs : m.type = "Vote" /\ m.from = p /\ m.term = t => m.to = p
    /\ currentTerm[p] > t \/ (currentTerm[p] = t /\ role[p] = "Leader")

(* Entries come from leaders, and so do messages that carry logs.          *)
EntriesElected == \A l \in Logs : \A i \in DOMAIN l : \E p \in Nodes : Elected(p, l[i].term)

AppendsElected ==
    \A m \in Appends : m.from \in Nodes /\ m.from # m.to /\ Elected(m.from, m.term)

(* A leader's log reaches every entry of its term.                         *)
LeaderReaches ==
    \A n \in Nodes : role[n] = "Leader" =>
        \A l \in Logs : \A i \in DOMAIN l : l[i].term = currentTerm[n] => i \in DOMAIN log[n]

MatchInv ==
    /\ ElectionInv /\ LogInv
    /\ LogsMatch /\ EntriesElected /\ AppendsElected /\ LeaderReaches

(* Two nodes are never elected in one term.                                *)
LEMMA ElectedUnique ==
    ASSUME ElectionInv, NEW p \in Nodes, NEW q \in Nodes, NEW t, Elected(p, t), Elected(q, t)
    PROVE  p = q
<1>1. PICK v \in {p} \cup Voters(p, t) : v \in {q} \cup Voters(q, t)
  <2>1. /\ {p} \cup Voters(p, t) \in SUBSET Nodes
        /\ {q} \cup Voters(q, t) \in SUBSET Nodes
    BY DEF Voters
  <2>2. QED
    BY <2>1, MajoritiesMeet DEF Elected
<1>2. CASE v = p
  BY <1>1, <1>2 DEF Elected, Voters
<1>3. CASE v = q
  BY <1>1, <1>3 DEF Elected, Voters
<1>4. CASE v \in Voters(p, t) /\ v \in Voters(q, t)
  BY <1>4 DEF Voters, ElectionInv, OneVotePerTerm
<1>5. QED
  BY <1>1, <1>2, <1>3, <1>4

(* A set of nodes that holds a majority is one.                            *)
LEMMA MajorityGrows ==
    ASSUME NEW S, NEW T, T \subseteq Nodes, S \subseteq T, IsMajority(S)
    PROVE  IsMajority(T)
<1>1. IsFiniteSet(T) /\ IsFiniteSet(Nodes)
  BY NodesAssumption, FS_Subset
<1>2. IsFiniteSet(S) /\ Cardinality(S) <= Cardinality(T)
  BY <1>1, FS_Subset
<1>3. Cardinality(S) \in Nat /\ Cardinality(T) \in Nat /\ Cardinality(Nodes) \in Nat
  BY <1>1, <1>2, FS_CardinalityType
<1>4. QED
  BY <1>2, <1>3 DEF IsMajority

(* A leader has been elected in its term.                                  *)
LEMMA LeaderElected ==
    ASSUME ElectionInv, NEW n \in Nodes, role[n] = "Leader"
    PROVE  Elected(n, currentTerm[n])
<1>1. IsMajority(votes[n]) /\ votes[n] \subseteq Nodes
  BY DEF ElectionInv, LeadersElected, Typed
<1>2. votedFor[n] = n /\ votes[n] \subseteq {n} \cup Voters(n, currentTerm[n])
  BY <1>1 DEF ElectionInv, VotesHeld, Standing, Voters
<1>3. {n} \cup Voters(n, currentTerm[n]) \subseteq Nodes
  BY DEF Voters
<1>4. IsMajority({n} \cup Voters(n, currentTerm[n]))
  BY <1>1, <1>2, <1>3, MajorityGrows
<1>5. \A m \in msgs : m.type = "Vote" /\ m.from = n /\ m.term = currentTerm[n] => m.to = n
  BY <1>2 DEF ElectionInv, VotesRemembered
<1>6. QED
  BY <1>4, <1>5 DEF Elected

(* What a step may do to an election: a leader stays until its term is     *)
(* over, and a vote is sent in the term the voter is then in.              *)
StaysLeader(p) ==
    \/ currentTerm'[p] > currentTerm[p]
    \/ currentTerm'[p] = currentTerm[p] /\ (role[p] = "Leader" => role'[p] = "Leader")

ElectionStep ==
    /\ msgs \subseteq msgs'
    /\ \A p \in Nodes : StaysLeader(p)
    /\ \A x \in msgs' \ msgs : x.type = "Vote" => x.term = currentTerm'[x.from]

LEMMA FollowStaysLeader ==
    ASSUME Typed, NEW n \in Nodes, NEW t \in Nat, FollowTerm(n, t)
    PROVE  \A p \in Nodes : StaysLeader(p)
<1>1. CASE BecomesFollower(n, t)
  BY <1>1 DEF Typed, FollowTerm, TermAfter, BecomesFollower, StaysLeader
<1>2. CASE ~BecomesFollower(n, t)
  BY <1>2 DEF Typed, FollowTerm, TermAfter, StaysLeader
<1>3. QED
  BY <1>1, <1>2

LEMMA NextElectionStep == ElectionInv /\ [Next]_vars => ElectionStep
<1> SUFFICES ASSUME ElectionInv, [Next]_vars PROVE ElectionStep
  OBVIOUS
<1> USE DEF electionVars, logVars
<1>1. Typed /\ \A m \in msgs : m.term \in Nat
  BY DEF ElectionInv, MessagesTyped, WellFormed
<1>2. ASSUME UNCHANGED <<role, currentTerm>>, msgs \subseteq msgs',
             \A x \in msgs' \ msgs : x.type # "Vote"
      PROVE  ElectionStep
  BY <1>2 DEF ElectionStep, StaysLeader
<1>3. ASSUME NEW n \in Nodes, TickLeader(n) PROVE ElectionStep
  BY <1>2, <1>3 DEF TickLeader, Heartbeats
<1>4. ASSUME NEW n \in Nodes, TickWaits(n) PROVE ElectionStep
  BY <1>2, <1>4 DEF TickWaits
<1>5. ASSUME NEW n \in Nodes, TickElection(n) PROVE ElectionStep
  <2>1. \A p \in Nodes : StaysLeader(p)
    BY <1>1, <1>5 DEF TickElection, Typed, StaysLeader
  <2>2. msgs \subseteq msgs' /\ \A x \in msgs' \ msgs : x.type # "Vote"
    BY <1>5 DEF TickElection, RequestVotes
  <2>3. QED
    BY <2>1, <2>2 DEF ElectionStep
<1>6. ASSUME NEW n \in Nodes, NEW c \in Commands, Propose(n, c) PROVE ElectionStep
  BY <1>2, <1>6 DEF Propose, Heartbeats
<1>7. ASSUME NEW n \in Nodes, RequestVote(n) PROVE ElectionStep
  <2>1. PICK m \in msgs :
           /\ FollowTerm(n, m.term)
           /\ \/ Grants(n, m) /\ msgs' = msgs \cup {Granted(m, n)}
              \/ msgs' = msgs \cup Refusal(m, n)
    BY <1>7 DEF RequestVote, Received
  <2>2. \A p \in Nodes : StaysLeader(p)
    BY <1>1, <2>1, FollowStaysLeader
  <2>3. /\ msgs \subseteq msgs'
        /\ \A x \in msgs' \ msgs : x.type = "Vote" => x.term = currentTerm'[x.from]
    <3>1. CASE Grants(n, m) /\ msgs' = msgs \cup {Granted(m, n)}
      <4>1. currentTerm'[n] = m.term
        BY <1>1, <2>1, <3>1 DEF Grants, FollowTerm, Typed
      <4>2. QED
        BY <3>1, <4>1 DEF Granted
    <3>2. CASE msgs' = msgs \cup Refusal(m, n)
      BY <3>2 DEF Refusal
    <3>3. QED
      BY <2>1, <3>1, <3>2
  <2>4. QED
    BY <2>2, <2>3 DEF ElectionStep
<1>8. ASSUME NEW n \in Nodes, StepDown(n) PROVE ElectionStep
  <2>1. PICK m \in msgs : FollowTerm(n, m.term) /\ msgs' = msgs
    BY <1>8 DEF StepDown, Received
  <2>2. QED
    BY <1>1, <2>1, FollowStaysLeader DEF ElectionStep
<1>9. ASSUME NEW n \in Nodes, CountVote(n) PROVE ElectionStep
  <2>1. /\ role[n] = "Candidate" /\ currentTerm' = currentTerm
        /\ role' = [role EXCEPT ![n] = "Leader"] \/ role' = role
        /\ msgs' = msgs \cup Heartbeats(n, log[n]) \/ msgs' = msgs
    BY <1>9 DEF CountVote
  <2>2. \A p \in Nodes : StaysLeader(p)
    BY <1>1, <2>1 DEF Typed, StaysLeader
  <2>3. QED
    BY <2>1, <2>2 DEF ElectionStep, Heartbeats
<1>10. ASSUME NEW n \in Nodes, AppendEntries(n) PROVE ElectionStep
  <2>1. PICK m \in msgs :
           /\ FollowTerm(n, m.term)
           /\ \/ msgs' = msgs \cup {Success(m, n, Len(log'[n]))}
              \/ msgs' = msgs \cup Refusal(m, n)
    BY <1>10 DEF AppendEntries, Received
  <2>2. \A p \in Nodes : StaysLeader(p)
    BY <1>1, <2>1, FollowStaysLeader
  <2>3. msgs \subseteq msgs' /\ \A x \in msgs' \ msgs : x.type # "Vote"
    BY <2>1 DEF Success, Refusal
  <2>4. QED
    BY <2>2, <2>3 DEF ElectionStep
<1>11. ASSUME NEW n \in Nodes, CountAck(n) PROVE ElectionStep
  BY <1>2, <1>11 DEF CountAck
<1>12. CASE UNCHANGED vars
  BY <1>2, <1>12 DEF vars
<1>13. QED
  BY <1>3, <1>4, <1>5, <1>6, <1>7, <1>8, <1>9, <1>10, <1>11, <1>12 DEF Next

(* Having been elected is for ever.                                        *)
LEMMA ElectedKept ==
    ASSUME ElectionInv, ElectionInv', ElectionStep, NEW p \in Nodes, NEW t \in Nat, Elected(p, t)
    PROVE  Elected(p, t)'
<1>1. currentTerm[p] \in Nat /\ currentTerm'[p] \in Nat
  BY DEF ElectionInv, Typed
<1>2. currentTerm'[p] > t \/ (currentTerm'[p] = t /\ role'[p] = "Leader")
  BY <1>1 DEF Elected, ElectionStep, StaysLeader
<1>3. IsMajority({p} \cup Voters(p, t))'
  <2>1. Voters(p, t) \subseteq Voters(p, t)' /\ Voters(p, t)' \subseteq Nodes
    BY DEF Voters, ElectionStep
  <2>2. IsMajority({p} \cup Voters(p, t)')
    BY <2>1, MajorityGrows DEF Elected
  <2>3. QED
    BY <2>2 DEF IsMajority
<1>4. ASSUME NEW m \in msgs', m.type = "Vote", m.from = p, m.term = t PROVE m.to = p
  <2>1. CASE m \in msgs
    BY <1>4, <2>1 DEF Elected
  <2>2. CASE m \notin msgs
    <3>1. currentTerm'[p] = t
      BY <1>4, <2>2 DEF ElectionStep
    <3>2. role'[p] = "Leader"
      BY <1>1, <1>2, <3>1
    <3>3. votedFor'[p] = p
      BY <3>2 DEF ElectionInv, VotesHeld, Standing
    <3>4. QED
      BY <1>4, <3>1, <3>3 DEF ElectionInv, VotesRemembered
  <2>3. QED
    BY <2>1, <2>2
<1>5. QED
  BY <1>2, <1>3, <1>4 DEF Elected

---------------------------------------------------------------------------
(* Logs that match merge into one of the two.                              *)
LEMMA MergedChooses ==
    ASSUME NEW l \in Seq(Entry), NEW e \in Seq(Entry), Match(l, e)
    PROVE  Merged(l, e) = l \/ Merged(l, e) = e
<1> DEFINE both == DOMAIN l \cap DOMAIN e
           Kept(k) == SubSeq(l, 1, k) \o SubSeq(e, k + 1, Len(e))
           Differ == {i \in both : l[i].term # e[i].term}
           First(k) == /\ \A i \in 1 .. k : l[i].term = e[i].term
                       /\ k + 1 \in both /\ l[k + 1].term # e[k + 1].term
<1>1. ASSUME NEW k \in 0 .. Len(l), k <= Len(e), \A i \in 1 .. k : l[i].term = e[i].term
      PROVE  Kept(k) = e
  <2>1. \A j \in 1 .. k : l[j] = e[j]
    <3>1. CASE k = 0
      BY <3>1
    <3>2. CASE k > 0
      <4>1. k \in both /\ l[k].term = e[k].term
        BY <1>1, <3>2
      <4>2. QED
        BY <4>1 DEF Match
    <3>3. QED
      BY <3>1, <3>2
  <2>2. /\ SubSeq(l, 1, k) \in Seq(Entry) /\ Len(SubSeq(l, 1, k)) = k
        /\ \A j \in 1 .. k : SubSeq(l, 1, k)[j] = l[j]
    <3>1. \A j \in 1 .. k : l[j] \in Entry
      BY ElementOfSeq
    <3>2. QED
      BY <3>1, SubSeqProperties
  <2>3. /\ SubSeq(e, k + 1, Len(e)) \in Seq(Entry)
        /\ Len(SubSeq(e, k + 1, Len(e))) = Len(e) - k
        /\ \A j \in 1 .. Len(e) - k : SubSeq(e, k + 1, Len(e))[j] = e[k + j]
    <3>1. \A j \in k + 1 .. Len(e) : e[j] \in Entry
      BY ElementOfSeq
    <3>2. k + 1 \in Int /\ Len(e) \in Int
      OBVIOUS
    <3>3. QED
      BY <1>1, <3>1, <3>2, SubSeqProperties
  <2>4. PICK head \in Seq(Entry), tail \in Seq(Entry) :
           /\ Kept(k) = head \o tail
           /\ Len(head) = k /\ \A j \in 1 .. k : head[j] = l[j]
           /\ Len(tail) = Len(e) - k /\ \A j \in 1 .. Len(e) - k : tail[j] = e[k + j]
    BY <2>2, <2>3
  <2> HIDE DEF Kept
  <2>5. k \in Nat /\ Len(e) \in Nat /\ k + (Len(e) - k) = Len(e)
    OBVIOUS
  <2>6. Kept(k) \in Seq(Entry) /\ Len(Kept(k)) = Len(e)
    <3>1. head \o tail \in Seq(Entry) /\ Len(head \o tail) = Len(head) + Len(tail)
      BY ConcatProperties
    <3>2. QED
      BY <2>4, <2>5, <3>1
  <2>7. ASSUME NEW j \in 1 .. Len(e) PROVE Kept(k)[j] = e[j]
    <3>1. Kept(k)[j] = IF j <= k THEN head[j] ELSE tail[j - k]
      <4>1. j \in 1 .. Len(head) + Len(tail)
        BY <2>4, <2>5
      <4>2. (head \o tail)[j] = IF j <= Len(head) THEN head[j] ELSE tail[j - Len(head)]
        BY <4>1, ConcatProperties
      <4>3. Kept(k)[j] = (head \o tail)[j] /\ Len(head) = k
        BY <2>4
      <4>4. QED
        BY <4>2, <4>3
    <3>2. CASE j <= k
      <4>1. j \in 1 .. k
        BY <2>5, <3>2
      <4>2. head[j] = l[j] /\ l[j] = e[j]
        BY <2>1, <2>4, <4>1
      <4>3. QED
        BY <3>1, <3>2, <4>2
    <3>3. CASE j > k
      <4>1. j - k \in 1 .. Len(e) - k /\ k + (j - k) = j
        BY <2>5, <3>3
      <4>2. QED
        BY <2>4, <2>5, <3>1, <3>3, <4>1
    <3>4. QED
      BY <2>5, <3>2, <3>3
  <2>8. QED
    BY <2>6, <2>7, SeqEqual
<1>2. CASE Differ # {}
  <2>1. PICK i \in Differ : \A j \in Differ : i <= j
    <3>1. Differ \subseteq Nat
      OBVIOUS
    <3> HIDE DEF Differ
    <3>2. QED
      BY <1>2, <3>1, LeastMember
  <2>2. i - 1 \in 0 .. Len(l) /\ First(i - 1)
    <3>1. i \in both /\ l[i].term # e[i].term /\ i \in 1 .. Len(l) /\ i \in 1 .. Len(e)
      OBVIOUS
    <3>2. \A j \in 1 .. i - 1 : j \in both /\ j \notin Differ
      BY <2>1, <3>1
    <3>3. QED
      BY <3>1, <3>2
  <2> DEFINE k == CHOOSE k \in 0 .. Len(l) : First(k)
  <2>3. k \in 0 .. Len(l) /\ First(k)
    <3> HIDE DEF First
    <3>1. QED
      BY <2>2
  <2>4. Merged(l, e) = Kept(k)
    BY <1>2 DEF Merged
  <2> HIDE DEF Kept, k
  <2>5. k <= Len(e) /\ \A j \in 1 .. k : l[j].term = e[j].term
    BY <2>3
  <2>6. QED
    BY <1>1, <2>3, <2>4, <2>5
<1>3. CASE Differ = {}
  <2>1. Merged(l, e) = IF Len(e) > Len(l) THEN Kept(Len(l)) ELSE l
    BY <1>3 DEF Merged
  <2>2. CASE Len(e) > Len(l)
    <3>1. \A j \in 1 .. Len(l) : l[j].term = e[j].term
      BY <1>3, <2>2
    <3>2. Len(l) \in 0 .. Len(l) /\ Len(l) <= Len(e)
      BY <2>2
    <3> HIDE DEF Kept
    <3>3. QED
      BY <1>1, <2>1, <2>2, <3>1, <3>2
  <2>3. CASE ~(Len(e) > Len(l))
    BY <2>1, <2>3
  <2>4. QED
    BY <2>2, <2>3
<1>4. QED
  BY <1>2, <1>3

---------------------------------------------------------------------------
(* A leader was elected in its term, and nobody else was.                  *)
LeadersAlone ==
    \A n \in Nodes : \A t : role[n] = "Leader" /\ currentTerm[n] = t =>
        Elected(n, t) /\ \A p \in Nodes : Elected(p, t) => p = n

LEMMA NoRival == ElectionInv => LeadersAlone
BY LeaderElected, ElectedUnique DEF LeadersAlone

(* A step that makes no new log: a new leader finds no entry of its term,  *)
(* and messages with logs come from a leader.                              *)
OldLogs ==
    /\ Logs' \subseteq Logs
    /\ \A n \in Nodes : role'[n] = "Leader" =>
          \/ role[n] = "Leader" /\ currentTerm'[n] = currentTerm[n] /\ log'[n] = log[n]
          \/ \A l \in Logs : \A i \in DOMAIN l : l[i].term # currentTerm'[n]
    /\ \A m \in Appends' \ Appends :
          /\ m.from \in Nodes /\ m.from # m.to
          /\ role'[m.from] = "Leader" /\ m.term = currentTerm'[m.from]

(* What the old logs and messages show is still shown after a step.        *)
LEMMA EvidenceKept ==
    ASSUME MatchInv, ElectionInv', ElectionStep
    PROVE  /\ \A p \in Nodes, t \in Nat : Elected(p, t) => Elected(p, t)'
           /\ \A l \in Logs : \A i \in DOMAIN l :
                 l[i].term \in Nat /\ \E p \in Nodes : Elected(p, l[i].term)'
           /\ \A m \in Appends : Elected(m.from, m.term)'
<1>1. \A p \in Nodes, t \in Nat : Elected(p, t) => Elected(p, t)'
  BY ElectedKept DEF MatchInv
<1>2. ASSUME NEW l \in Logs, NEW i \in DOMAIN l
      PROVE  l[i].term \in Nat /\ \E p \in Nodes : Elected(p, l[i].term)'
  <2>1. l \in Seq(Entry)
    BY DEF MatchInv, LogInv, TypeOK, MessagesShaped, Shape, Logs, Appends
  <2>2. l[i] \in Entry
    BY <2>1, ElementOfSeq, LenProperties
  <2>3. l[i].term \in Nat
    BY <2>2, BoundsAssumption DEF Entry
  <2>4. PICK p \in Nodes : Elected(p, l[i].term)
    BY DEF MatchInv, EntriesElected
  <2>5. QED
    BY <1>1, <2>3, <2>4
<1>3. \A m \in Appends : Elected(m.from, m.term)'
  <2>1. \A m \in Appends : m.term \in Nat
    BY BoundsAssumption DEF MatchInv, LogInv, MessagesShaped, Shape, Appends
  <2>2. QED
    BY <1>1, <2>1 DEF MatchInv, AppendsElected
<1>4. QED
  BY <1>1, <1>2, <1>3

(* After a step, messages with logs come from elected nodes, if the new    *)
(* ones come from leaders.                                                 *)
LEMMA AppendsStayElected ==
    ASSUME MatchInv, ElectionInv', ElectionStep,
           \A m \in Appends' \ Appends :
              /\ m.from \in Nodes /\ m.from # m.to
              /\ role'[m.from] = "Leader" /\ m.term = currentTerm'[m.from]
    PROVE  AppendsElected'
<1>1. ASSUME NEW m \in Appends' PROVE m.from \in Nodes /\ m.from # m.to /\ Elected(m.from, m.term)'
  <2>1. CASE m \in Appends
    BY <2>1, EvidenceKept DEF MatchInv, AppendsElected
  <2>2. CASE m \notin Appends
    <3>1. (ElectionInv => LeadersAlone)'
      BY NoRival, PTL
    <3>2. QED
      BY <2>2, <3>1 DEF LeadersAlone
  <2>3. QED
    BY <2>1, <2>2
<1>2. QED
  BY <1>1 DEF AppendsElected

LEMMA OldLogsStep ==
    ASSUME MatchInv, ElectionInv', LogInv', ElectionStep, OldLogs
    PROVE  MatchInv'
<1>1. LogsMatch'
  BY DEF MatchInv, LogsMatch, OldLogs, Match
<1>2. EntriesElected'
  BY EvidenceKept DEF OldLogs, EntriesElected
<1>3. AppendsElected'
  BY AppendsStayElected DEF OldLogs
<1>4. LeaderReaches'
  BY DEF MatchInv, LeaderReaches, OldLogs
<1>5. QED
  BY <1>1, <1>2, <1>3, <1>4 DEF MatchInv

(* Heartbeats carry a log that is there.                                   *)
LEMMA HeartbeatLogs ==
    ASSUME NEW n \in Nodes, NEW l, msgs' = msgs \cup Heartbeats(n, l)
    PROVE  /\ {m.entries : m \in Appends'} \subseteq {m.entries : m \in Appends} \cup {l}
           /\ \A m \in Appends' \ Appends :
                 m.from = n /\ m.from # m.to /\ m.term = currentTerm[n]
BY DEF Heartbeats, Appends

(* A new leader finds no entry of its term: nobody else was elected in it. *)
LEMMA NewLeaderStep ==
    ASSUME MatchInv, ElectionInv', ElectionStep, NEW n \in Nodes,
           role[n] = "Candidate", role' = [role EXCEPT ![n] = "Leader"],
           msgs' = msgs \cup Heartbeats(n, log[n]),
           UNCHANGED <<currentTerm, log>>
    PROVE  OldLogs
<1>1. role \in [Nodes -> Roles] /\ currentTerm[n] \in Nat
  BY DEF MatchInv, ElectionInv, Typed
<1>2. ASSUME NEW p \in Nodes, Elected(p, currentTerm[n]) PROVE FALSE
  <2>1. PICK t \in Nat : t = currentTerm[n]
    BY <1>1
  <2>2. Elected(p, t)'
    BY <1>2, <2>1, EvidenceKept
  <2>3. (ElectionInv => LeadersAlone)'
    BY NoRival, PTL
  <2>4. role'[n] = "Leader" /\ currentTerm'[n] = t
    BY <1>1, <2>1
  <2>5. p = n
    BY <2>2, <2>3, <2>4 DEF LeadersAlone
  <2>6. QED
    BY <1>1, <1>2, <2>5 DEF Elected
<1>3. \A l \in Logs : \A i \in DOMAIN l : l[i].term # currentTerm[n]
  BY <1>2 DEF MatchInv, EntriesElected
<1>4. Logs' \subseteq Logs
  BY HeartbeatLogs DEF Logs
<1>5. QED
  BY <1>1, <1>3, <1>4, HeartbeatLogs DEF OldLogs

(* A follower takes a log that is there; a leader takes none.              *)
LEMMA AppendEntriesStep ==
    ASSUME MatchInv, NEW n \in Nodes, AppendEntries(n)
    PROVE  /\ Logs' \subseteq Logs /\ Appends' = Appends
           /\ \A p \in Nodes : role'[p] = "Leader" =>
                 role[p] = "Leader" /\ currentTerm'[p] = currentTerm[p] /\ log'[p] = log[p]
<1>1. PICK m \in msgs :
         /\ m.type = "AppendEntries" /\ m.to = n /\ FollowTerm(n, m.term)
         /\ \/ /\ m.term = TermAfter(n, m.term)
               /\ log' = [log EXCEPT ![n] = Merged(log[n], m.entries)]
               /\ msgs' = msgs \cup {Success(m, n, Len(log'[n]))}
            \/ msgs' = msgs \cup Refusal(m, n) /\ log' = log
  BY DEF AppendEntries, AcceptsEntries, Received
<1>2. Appends' = Appends
  BY <1>1 DEF Appends, Success, Refusal
<1>3. m \in Appends /\ m.term \in Nat
  BY <1>1, BoundsAssumption DEF Appends, MatchInv, LogInv, MessagesShaped, Shape
<1>4. /\ role \in [Nodes -> Roles] /\ currentTerm \in [Nodes -> Nat]
      /\ log \in [Nodes -> Seq(Entry)]
  BY DEF MatchInv, ElectionInv, Typed, LogInv, TypeOK
<1>5. \A p \in Nodes : role'[p] = "Leader" =>
         /\ role[p] = "Leader" /\ currentTerm'[p] = currentTerm[p]
         /\ p = n => ~BecomesFollower(n, m.term)
  <2>1. CASE BecomesFollower(n, m.term)
    BY <1>1, <1>4, <2>1 DEF FollowTerm
  <2>2. CASE ~BecomesFollower(n, m.term)
    BY <1>1, <1>4, <2>2 DEF FollowTerm, TermAfter
  <2>3. QED
    BY <2>1, <2>2
<1>6. Logs' \subseteq Logs
  <2>1. log[n] \in Logs /\ m.entries \in Logs
    BY <1>3 DEF Logs
  <2>2. Merged(log[n], m.entries) \in Logs
    <3>1. m.entries \in Seq(Entry) /\ log[n] \in Seq(Entry)
      BY <1>1, <1>4 DEF MatchInv, LogInv, MessagesShaped, Shape
    <3>2. Match(log[n], m.entries)
      BY <2>1 DEF MatchInv, LogsMatch
    <3>3. QED
      BY <2>1, <3>1, <3>2, MergedChooses
  <2>3. \A p \in Nodes : log'[p] \in Logs
    BY <1>1, <1>4, <2>2 DEF Logs
  <2>4. QED
    BY <1>2, <2>3 DEF Logs
<1>7. ASSUME NEW p \in Nodes, role'[p] = "Leader" PROVE log'[p] = log[p]
  <2>1. CASE p # n
    BY <1>1, <1>4, <2>1
  <2>2. CASE p = n /\ m.term = TermAfter(n, m.term)
    <3>1. role[n] = "Leader" /\ m.term = currentTerm[n]
      BY <1>5, <1>7, <2>2 DEF TermAfter
    <3>2. m.from \in Nodes /\ m.from # n /\ Elected(m.from, currentTerm[n])
      BY <1>1, <1>3, <3>1 DEF MatchInv, AppendsElected
    <3>3. QED
      BY <3>1, <3>2, NoRival DEF MatchInv, LeadersAlone
  <2>3. CASE p = n /\ m.term # TermAfter(n, m.term)
    BY <1>1, <2>3
  <2>4. QED
    BY <2>1, <2>2, <2>3
<1>8. QED
  BY <1>2, <1>5, <1>6, <1>7

(* A proposal makes one new log: the leader's, which already reached every *)
(* entry of its term, and one entry more.                                  *)
LEMMA ProposeStep ==
    ASSUME MatchInv, ElectionInv', LogInv', ElectionStep, NEW n \in Nodes, NEW c \in Commands,
           Propose(n, c)
    PROVE  MatchInv'
<1> DEFINE entry == [term |-> currentTerm[n], command |-> c]
<1> PICK old \in Seq(Entry) : old = log[n]
  BY DEF MatchInv, LogInv, TypeOK
<1> PICK t \in Nat : t = currentTerm[n]
  BY DEF MatchInv, ElectionInv, Typed
<1> PICK new : new = Append(old, entry)
  OBVIOUS
<1>1. old = log[n] /\ new = Append(old, entry) /\ t = currentTerm[n]
  OBVIOUS
<1>2. /\ role[n] = "Leader" /\ log' = [log EXCEPT ![n] = new]
      /\ msgs' = msgs \cup Heartbeats(n, new)
      /\ role' = role /\ currentTerm' = currentTerm /\ log \in [Nodes -> Seq(Entry)]
  <2>1. log \in [Nodes -> Seq(Entry)]
    BY DEF MatchInv, LogInv, TypeOK
  <2>2. log' = [log EXCEPT ![n] = new] /\ log'[n] = new
    BY <1>1, <2>1 DEF Propose
  <2>3. QED
    BY <2>1, <2>2 DEF Propose, electionVars
<1>3. /\ DOMAIN old = 1 .. Len(old) /\ DOMAIN new = 1 .. Len(old) + 1 /\ Len(old) \in Nat
      /\ \A i \in 1 .. Len(old) : new[i] = old[i]
      /\ new[Len(old) + 1].term = t
  <2> HIDE DEF entry
  <2>1. entry.term = t
    BY <1>1 DEF entry
  <2>2. entry \in Entry
    BY <1>1, <1>2 DEF entry, Entry, MatchInv, LogInv, StandingHasTerm, Standing, TypeOK
  <2>3. QED
    BY <1>1, <2>1, <2>2, AppendProperties, LenProperties
<1>4. old \in Logs /\ Logs' \subseteq Logs \cup {new}
  <2>1. {m.entries : m \in Appends'} \subseteq {m.entries : m \in Appends} \cup {new}
    BY <1>2, HeartbeatLogs
  <2>2. \A p \in Nodes : log'[p] = log[p] \/ log'[p] = new
    BY <1>2
  <2>3. old \in Logs
    BY <1>1 DEF Logs
  <2>4. QED
    BY <2>1, <2>2, <2>3 DEF Logs
<1>5. \A l \in Logs : \A i \in DOMAIN l : l[i].term = t => i \in 1 .. Len(old)
  <2>1. log[n] = old /\ currentTerm[n] = t /\ role[n] = "Leader"
    BY <1>1, <1>2
  <2>2. \A l \in Logs : \A i \in DOMAIN l : l[i].term = t => i \in DOMAIN log[n]
    BY <2>1 DEF MatchInv, LeaderReaches
  <2>3. QED
    BY <1>3, <2>1, <2>2
<1>6. \A l \in Logs : DOMAIN l \subseteq Nat /\ Match(old, l) /\ Match(l, old)
  <2>1. \A l \in Logs : l \in Seq(Entry)
    BY DEF MatchInv, LogInv, TypeOK, MessagesShaped, Shape, Logs, Appends
  <2>2. \A l \in Logs : DOMAIN l \subseteq Nat
    BY <2>1, LenProperties
  <2>3. QED
    BY <1>4, <2>2 DEF MatchInv, LogsMatch
<1>7. LogsMatch'
  <2>1. ASSUME NEW l \in Logs PROVE Match(new, l) /\ Match(l, new)
    <3>1. ASSUME NEW i \in DOMAIN new \cap DOMAIN l, new[i].term = l[i].term
          PROVE  \A j \in 1 .. i : new[j] = l[j]
      <4>1. i \in 1 .. Len(old)
        BY <1>3, <1>5, <3>1
      <4>2. \A j \in 1 .. i : old[j] = l[j]
        BY <1>3, <1>6, <3>1, <4>1 DEF Match
      <4>3. QED
        BY <1>3, <4>1, <4>2
    <3>2. QED
      BY <3>1 DEF Match
  <2>2. Match(new, new)
    BY DEF Match
  <2>3. QED
    <3>1. \A a, b \in Logs \cup {new} : Match(a, b)
      BY <2>1, <2>2 DEF MatchInv, LogsMatch
    <3>2. \A a, b \in Logs' : Match(a, b)
      BY <1>4, <3>1
    <3>3. QED
      BY <3>2 DEF LogsMatch, Match
<1>8. EntriesElected'
  <2>1. ASSUME NEW i \in DOMAIN new PROVE \E p \in Nodes : Elected(p, new[i].term)'
    <3>1. CASE i \in 1 .. Len(old)
      BY <1>3, <1>4, <3>1, EvidenceKept
    <3>2. CASE i = Len(old) + 1
      <4>1. Elected(n, t)
        BY <1>1, <1>2, NoRival DEF MatchInv, LeadersAlone
      <4>2. QED
        BY <1>3, <3>2, <4>1, EvidenceKept
    <3>3. QED
      BY <1>3, <3>1, <3>2
  <2>2. QED
    BY <1>4, <2>1, EvidenceKept DEF EntriesElected
<1>9. AppendsElected'
  BY <1>2, HeartbeatLogs, AppendsStayElected
<1>10. LeaderReaches'
  <2>1. ASSUME NEW p \in Nodes, role[p] = "Leader", NEW l \in Logs \cup {new},
               NEW i \in DOMAIN l, l[i].term = currentTerm[p]
        PROVE  i \in DOMAIN log'[p]
    <3>1. CASE p = n
      <4>1. log'[p] = new /\ currentTerm[p] = t
        BY <1>1, <1>2, <3>1
      <4>2. CASE l \in Logs
        BY <1>3, <1>5, <2>1, <4>1, <4>2
      <4>3. CASE l = new
        BY <2>1, <4>1, <4>3
      <4>4. QED
        BY <4>2, <4>3
    <3>2. CASE p # n
      <4>1. log'[p] = log[p] /\ currentTerm[p] # t
        BY <1>1, <1>2, <2>1, <3>2, ElectedOnce DEF MatchInv, ElectionSafety
      <4>2. CASE l \in Logs
        BY <2>1, <4>1, <4>2 DEF MatchInv, LeaderReaches
      <4>3. CASE l = new
        <5>1. i \in DOMAIN old /\ old[i].term = currentTerm[p]
          BY <1>3, <2>1, <4>1, <4>3
        <5>2. QED
          BY <1>4, <2>1, <4>1, <5>1 DEF MatchInv, LeaderReaches
      <4>4. QED
        BY <4>2, <4>3
    <3>3. QED
      BY <3>1, <3>2
  <2>2. QED
    BY <1>2, <1>4, <2>1 DEF LeaderReaches
<1>11. QED
  BY <1>7, <1>8, <1>9, <1>10 DEF MatchInv

LEMMA InitMatchInv == Init => MatchInv
BY InitElectionInv, InitLogInv
DEF Init, MatchInv, LogsMatch, EntriesElected, AppendsElected, LeaderReaches, Logs, Appends,
    Match

LEMMA NextMatchInv == MatchInv /\ [Next]_vars => MatchInv'
<1> SUFFICES ASSUME MatchInv, [Next]_vars PROVE MatchInv'
  OBVIOUS
<1> USE DEF electionVars, logVars
<1>1. ElectionInv' /\ LogInv' /\ ElectionStep
  BY NextElectionInv, NextLogInv, NextElectionStep DEF MatchInv
<1>2. /\ role \in [Nodes -> Roles] /\ currentTerm \in [Nodes -> Nat]
      /\ log \in [Nodes -> Seq(Entry)] /\ \A m \in msgs : m.term \in Nat
  BY DEF MatchInv, ElectionInv, Typed, MessagesTyped, WellFormed, LogInv, TypeOK
<1>3. ASSUME Appends' = Appends, log' = log,
             \A n \in Nodes : role'[n] = "Leader" =>
                role[n] = "Leader" /\ currentTerm'[n] = currentTerm[n]
      PROVE  MatchInv'
  <2>1. OldLogs
    BY <1>3 DEF OldLogs, Logs
  <2>2. QED
    BY <1>1, <2>1, OldLogsStep
<1>4. ASSUME NEW n \in Nodes, NEW t \in Nat, FollowTerm(n, t)
      PROVE  \A p \in Nodes : role'[p] = "Leader" =>
                role[p] = "Leader" /\ currentTerm'[p] = currentTerm[p]
  <2>1. CASE BecomesFollower(n, t)
    BY <1>2, <1>4, <2>1 DEF FollowTerm
  <2>2. CASE ~BecomesFollower(n, t)
    BY <1>2, <1>4, <2>2 DEF FollowTerm, TermAfter
  <2>3. QED
    BY <2>1, <2>2
<1>5. ASSUME NEW n \in Nodes, TickLeader(n) PROVE MatchInv'
  <2>1. /\ role[n] = "Leader" /\ msgs' = msgs \cup Heartbeats(n, log[n])
        /\ UNCHANGED <<role, currentTerm, log>>
    BY <1>5 DEF TickLeader
  <2>2. OldLogs
    BY <2>1, HeartbeatLogs DEF OldLogs, Logs
  <2>3. QED
    BY <1>1, <2>2, OldLogsStep
<1>6. ASSUME NEW n \in Nodes, TickWaits(n) \/ CountAck(n) PROVE MatchInv'
  <2>1. UNCHANGED <<role, currentTerm, log, msgs>>
    BY <1>6 DEF TickWaits, CountAck
  <2>2. QED
    BY <1>3, <2>1 DEF Appends
<1>7. ASSUME NEW n \in Nodes, TickElection(n) PROVE MatchInv'
  <2>1. /\ role' = [role EXCEPT ![n] = "Candidate"] /\ log' = log
        /\ currentTerm' = [currentTerm EXCEPT ![n] = @ + 1]
        /\ msgs' = msgs \cup RequestVotes(n, currentTerm'[n], log[n])
    BY <1>7 DEF TickElection
  <2>2. Appends' = Appends
    BY <2>1 DEF Appends, RequestVotes
  <2>3. QED
    BY <1>2, <1>3, <2>1, <2>2
<1>8. ASSUME NEW n \in Nodes, NEW c \in Commands, Propose(n, c) PROVE MatchInv'
  BY <1>1, <1>8, ProposeStep
<1>9. ASSUME NEW n \in Nodes, RequestVote(n) PROVE MatchInv'
  <2>1. PICK m \in msgs :
           /\ FollowTerm(n, m.term) /\ log' = log
           /\ msgs' = msgs \cup {Granted(m, n)} \/ msgs' = msgs \cup Refusal(m, n)
    BY <1>9 DEF RequestVote, Received
  <2>2. Appends' = Appends
    BY <2>1 DEF Appends, Granted, Refusal
  <2>3. QED
    BY <1>2, <1>3, <1>4, <2>1, <2>2
<1>10. ASSUME NEW n \in Nodes, StepDown(n) PROVE MatchInv'
  <2>1. PICK m \in msgs : FollowTerm(n, m.term) /\ log' = log /\ msgs' = msgs
    BY <1>10 DEF StepDown, Received
  <2>2. Appends' = Appends
    BY <2>1 DEF Appends
  <2>3. QED
    BY <1>2, <1>3, <1>4, <2>1, <2>2
<1>11. ASSUME NEW n \in Nodes, CountVote(n) PROVE MatchInv'
  <2>1. /\ role[n] = "Candidate" /\ UNCHANGED <<currentTerm, log>>
        /\ \/ /\ role' = [role EXCEPT ![n] = "Leader"]
              /\ msgs' = msgs \cup Heartbeats(n, log[n])
           \/ UNCHANGED <<role, msgs>>
    BY <1>11 DEF CountVote
  <2>2. CASE UNCHANGED <<role, msgs>>
    BY <1>3, <2>1, <2>2 DEF Appends
  <2>3. QED
    BY <1>1, <2>1, <2>2, NewLeaderStep, OldLogsStep
<1>12. ASSUME NEW n \in Nodes, AppendEntries(n) PROVE MatchInv'
  <2>1. OldLogs
    BY <1>12, AppendEntriesStep DEF OldLogs
  <2>2. QED
    BY <1>1, <2>1, OldLogsStep
<1>13. CASE UNCHANGED vars
  BY <1>3, <1>13 DEF vars, Appends
<1>14. QED
  BY <1>5, <1>6, <1>7, <1>8, <1>9, <1>10, <1>11, <1>12, <1>13 DEF Next

(* Two logs that agree on the term at an index agree up to it, whatever    *)
(* leaders were deposed and whatever arrives late.                         *)
THEOREM LogsStayMatched == Spec => []LogMatching
<1>1. MatchInv => LogMatching
  BY DEF MatchInv, LogsMatch, Logs, Match, LogMatching
<1>2. QED
  BY <1>1, InitMatchInv, NextMatchInv, PTL DEF Spec

LogKept(n) ==
    role[n] = "Leader" /\ role'[n] = "Leader" =>
        /\ Len(log'[n]) >= Len(log[n])
        /\ \A i \in DOMAIN log[n] : log'[n][i] = log[n][i]

(* A leader only appends to its own log: no message of its own term can    *)
(* make it replace an entry.                                               *)
THEOREM LeadersOnlyAppend == Spec => LeaderAppendOnly
<1>1. MatchInv /\ [Next]_vars => [\A n \in Nodes : LogKept(n)]_vars
  <2> SUFFICES ASSUME MatchInv, Next PROVE \A p \in Nodes : LogKept(p)
    OBVIOUS
  <2>1. log \in [Nodes -> Seq(Entry)] /\ \A p \in Nodes : Len(log[p]) \in Nat
    BY LenProperties DEF MatchInv, LogInv, TypeOK
  <2>2. ASSUME log' = log PROVE \A p \in Nodes : LogKept(p)
    BY <2>1, <2>2 DEF LogKept
  <2>3. ASSUME NEW n \in Nodes, NEW c \in Commands, Propose(n, c)
        PROVE  \A p \in Nodes : LogKept(p)
    <3>1. PICK entry \in Entry : log' = [log EXCEPT ![n] = Append(log[n], entry)]
      <4>1. [term |-> currentTerm[n], command |-> c] \in Entry
        BY <2>3 DEF Propose, Entry, MatchInv, LogInv, StandingHasTerm, Standing, TypeOK
      <4>2. QED
        BY <2>3, <4>1 DEF Propose
    <3>2. /\ Len(Append(log[n], entry)) = Len(log[n]) + 1
          /\ \A i \in 1 .. Len(log[n]) : Append(log[n], entry)[i] = log[n][i]
      BY <2>1, <3>1, AppendProperties
    <3>3. DOMAIN log[n] = 1 .. Len(log[n])
      BY <2>1, LenProperties
    <3>4. QED
      BY <2>1, <3>1, <3>2, <3>3 DEF LogKept
  <2>4. ASSUME NEW n \in Nodes, AppendEntries(n) PROVE \A p \in Nodes : LogKept(p)
    BY <2>1, <2>4, AppendEntriesStep DEF LogKept
  <2>5. QED
    BY <2>2, <2>3, <2>4
    DEF Next, TickLeader, TickWaits, TickElection, RequestVote, StepDown, CountVote, CountAck,
        logVars
<1>2. [\A n \in Nodes : LogKept(n)]_vars =>
         [\A n \in Nodes : role[n] = "Leader" /\ role'[n] = "Leader" =>
             /\ Len(log'[n]) >= Len(log[n])
             /\ \A i \in DOMAIN log[n] : log'[n][i] = log[n][i]]_vars
  BY DEF LogKept
<1>3. QED
  BY <1>1, <1>2, InitMatchInv, NextMatchInv, PTL DEF Spec, LeaderAppendOnly

---------------------------------------------------------------------------
(* Commits.                                                                *)

Answers(l) == {m \in msgs : m.type = "AppendResponse" /\ m.to = l}

Answering(l) == {l} \cup {m.from : m \in Answers(l)}

(* What must have been answered before k entries may count as committed.   *)
Backed(k) ==
    k > 0 => \E l \in Nodes : IsMajority(Answering(l)) /\ \E m \in Answers(l) : m.match >= k

AcksWereSent == \A n \in Nodes : acks[n] \subseteq Answering(n)

CommitInv ==
    /\ LogInv /\ AcksWereSent
    /\ \A n \in Nodes : Backed(commitIndex[n])
    /\ \A m \in Appends : Backed(m.commit)

(* Answers are never withdrawn, so that what they back stays backed.       *)
LEMMA BackedStays ==
    ASSUME LogInv, LogInv', msgs \subseteq msgs'
    PROVE  /\ \A l \in Nodes : Answering(l) \subseteq Answering(l)'
           /\ \A k : Backed(k) => Backed(k)'
<1>1. \A l \in Nodes : Answers(l) \subseteq Answers(l)' /\ Answering(l) \subseteq Answering(l)'
  BY DEF Answers, Answering
<1>2. \A l \in Nodes : Answering(l)' \subseteq Nodes
  BY DEF Answering, Answers, LogInv, MessagesShaped, Shape
<1>3. ASSUME NEW k, Backed(k), k > 0 PROVE Backed(k)'
  <2>1. PICK l \in Nodes : IsMajority(Answering(l)) /\ \E m \in Answers(l) : m.match >= k
    BY <1>3 DEF Backed
  <2>2. IsMajority(Answering(l)')
    BY <1>1, <1>2, <2>1, MajorityGrows
  <2>3. QED
    BY <1>1, <2>1, <2>2 DEF Backed, IsMajority
<1>4. QED
  BY <1>1, <1>3 DEF Backed

(* A shorter prefix needs no more.                                         *)
LEMMA BackedBelow ==
    ASSUME LogInv, NEW k \in Nat, NEW j \in Nat, j <= k, Backed(k) PROVE Backed(j)
<1>1. \A l : \A m \in Answers(l) : m.match \in Nat
  BY DEF Answers, LogInv, MessagesShaped, Shape
<1>2. QED
  BY <1>1 DEF Backed

(* A step that counts no answer and commits nothing of its own, and sends  *)
(* only its sender's commit index on.                                      *)
LEMMA CommitsCarried ==
    ASSUME CommitInv, LogInv', msgs \subseteq msgs',
           \A n \in Nodes : acks'[n] \subseteq acks[n] \cup {n},
           \A n \in Nodes : commitIndex'[n] = commitIndex[n] \/ Backed(commitIndex'[n]),
           \A x \in msgs' \ msgs :
               x.type = "AppendEntries" => \E n \in Nodes : x.commit = commitIndex[n]
    PROVE  CommitInv'
<1>1. AcksWereSent'
  <2>1. \A n \in Nodes : n \in Answering(n)'
    BY DEF Answering
  <2>2. \A n \in Nodes : acks[n] \subseteq Answering(n)'
    BY BackedStays DEF CommitInv, AcksWereSent
  <2>3. QED
    BY <2>1, <2>2 DEF AcksWereSent
<1>2. ASSUME NEW n \in Nodes PROVE Backed(commitIndex[n])'
  <2>1. PICK k : k = commitIndex'[n]
    OBVIOUS
  <2>2. Backed(k)
    BY <2>1 DEF CommitInv
  <2>3. Backed(k)'
    BY <2>2, BackedStays DEF CommitInv
  <2>4. QED
    BY <2>1, <2>3 DEF Backed
<1>3. ASSUME NEW m \in Appends' PROVE Backed(m.commit)'
  <2>1. CASE m \in msgs
    BY <2>1, BackedStays DEF CommitInv, Appends
  <2>2. CASE m \notin msgs
    <3>1. PICK n \in Nodes : m.commit = commitIndex[n]
      BY <2>2 DEF Appends
    <3>2. QED
      BY <3>1, BackedStays DEF CommitInv
  <2>3. QED
    BY <2>1, <2>2
<1>4. QED
  BY <1>1, <1>2, <1>3 DEF CommitInv

LEMMA AppendEntriesCommits ==
    ASSUME CommitInv, LogInv', NEW n \in Nodes, AppendEntries(n) PROVE CommitInv'
<1>1. PICK m \in msgs :
         /\ m.type = "AppendEntries"
         /\ \/ /\ commitIndex' = [commitIndex EXCEPT ![n] = Least(m.commit, Len(log'[n]))]
               /\ msgs' = msgs \cup {Success(m, n, Len(log'[n]))}
            \/ /\ msgs' = msgs \cup Refusal(m, n)
               /\ UNCHANGED commitIndex
         /\ UNCHANGED acks
  BY DEF AppendEntries, Received
<1>2. Backed(Least(m.commit, Len(log'[n])))
  <2>1. m.commit \in Nat /\ Len(log'[n]) \in Nat
    <3>1. log'[n] \in Seq(Entry)
      BY DEF LogInv, TypeOK
    <3>2. QED
      BY <1>1, <3>1, LenProperties DEF CommitInv, LogInv, MessagesShaped, Shape
  <2>2. Least(m.commit, Len(log'[n])) \in Nat /\ Least(m.commit, Len(log'[n])) <= m.commit
    BY <2>1 DEF Least
  <2>3. Backed(m.commit)
    BY <1>1 DEF CommitInv, Appends
  <2>4. QED
    BY <2>1, <2>2, <2>3, BackedBelow DEF CommitInv
<1>3. \A p \in Nodes : commitIndex'[p] = commitIndex[p] \/ Backed(commitIndex'[p])
  <2>1. commitIndex \in [Nodes -> Nat]
    BY DEF CommitInv, LogInv, TypeOK
  <2>2. QED
    BY <1>1, <1>2, <2>1
<1>4. msgs \subseteq msgs' /\ \A x \in msgs' \ msgs : x.type # "AppendEntries"
  BY <1>1 DEF Success, Refusal
<1>5. QED
  BY <1>1, <1>3, <1>4, CommitsCarried

LEMMA CountAckCommits ==
    ASSUME CommitInv, LogInv', NEW n \in Nodes, CountAck(n) PROVE CommitInv'
<1>1. PICK m \in Answers(n) :
         /\ acks' = [acks EXCEPT ![n] = @ \cup {m.from}]
         /\ commitIndex' = [commitIndex EXCEPT ![n] =
               IF IsMajority(acks'[n]) THEN Least(m.match, Len(log[n])) ELSE @]
         /\ msgs' = msgs
  BY DEF CountAck, Received, Answers
<1>2. acks \in [Nodes -> SUBSET Nodes] /\ commitIndex \in [Nodes -> Nat]
  BY DEF CommitInv, LogInv, TypeOK
<1>3. \A p \in Nodes : acks'[p] \subseteq Answering(p)
  BY <1>1, <1>2 DEF CommitInv, AcksWereSent, Answering
<1>4. Answering(n) \subseteq Nodes
  BY DEF Answering, Answers, CommitInv, LogInv, MessagesShaped, Shape
<1>5. IsMajority(acks'[n]) => Backed(Least(m.match, Len(log[n])))
  <2> SUFFICES ASSUME IsMajority(acks'[n]) PROVE Backed(Least(m.match, Len(log[n])))
    OBVIOUS
  <2>1. IsMajority(Answering(n))
    BY <1>3, <1>4, MajorityGrows
  <2>2. m.match \in Nat /\ Len(log[n]) \in Nat
    <3>1. log[n] \in Seq(Entry)
      BY DEF CommitInv, LogInv, TypeOK
    <3>2. QED
      BY <3>1, LenProperties DEF Answers, CommitInv, LogInv, MessagesShaped, Shape
  <2>3. Least(m.match, Len(log[n])) <= m.match
    BY <2>2 DEF Least
  <2>4. QED
    BY <2>1, <2>3 DEF Backed
<1>6. \A p \in Nodes : Backed(commitIndex'[p])
  BY <1>1, <1>2, <1>5 DEF CommitInv
<1>7. \A k : Backed(k)' <=> Backed(k)
  BY <1>1 DEF Backed, Answering, Answers, IsMajority
<1>8. AcksWereSent'
  BY <1>1, <1>3 DEF AcksWereSent, Answering, Answers
<1>9. \A m1 \in Appends' : Backed(m1.commit)'
  BY <1>1, <1>7 DEF CommitInv, Appends
<1>10. (\A p \in Nodes : Backed(commitIndex[p]))'
  BY <1>6, <1>7 DEF Backed
<1>11. QED
  BY <1>8, <1>9, <1>10 DEF CommitInv

LEMMA NextCommitInv == CommitInv /\ [Next]_vars => CommitInv'
<1> SUFFICES ASSUME CommitInv, [Next]_vars PROVE CommitInv'
  OBVIOUS
<1>0. LogInv'
  BY NextLogInv DEF CommitInv
<1>1. ASSUME NEW n \in Nodes, TickLeader(n) \/ TickWaits(n) \/ TickElection(n)
      PROVE  CommitInv'
  <2>1. /\ msgs \subseteq msgs' /\ acks' = acks /\ commitIndex' = commitIndex
        /\ \A x \in msgs' \ msgs : x.type = "AppendEntries" => x.commit = commitIndex[n]
    BY <1>1 DEF TickLeader, TickWaits, TickElection, logVars, electionVars, Heartbeats, RequestVotes
  <2>2. QED
    BY <1>0, <2>1, CommitsCarried
<1>2. ASSUME NEW n \in Nodes, NEW c \in Commands, Propose(n, c) PROVE CommitInv'
  <2>1. /\ msgs \subseteq msgs' /\ commitIndex' = commitIndex
        /\ acks' = [acks EXCEPT ![n] = {n}]
        /\ \A x \in msgs' \ msgs : x.commit = commitIndex[n]
    BY <1>2 DEF Propose, Heartbeats
  <2>2. \A p \in Nodes : acks'[p] \subseteq acks[p] \cup {p}
    BY <2>1 DEF CommitInv, LogInv, TypeOK
  <2>3. QED
    BY <1>0, <2>1, <2>2, CommitsCarried
<1>3. ASSUME NEW n \in Nodes, RequestVote(n) \/ StepDown(n) PROVE CommitInv'
  <2>1. /\ msgs \subseteq msgs' /\ acks' = acks /\ commitIndex' = commitIndex
        /\ \A x \in msgs' \ msgs : x.type # "AppendEntries"
    BY <1>3 DEF RequestVote, StepDown, logVars, Granted, Refusal
  <2>2. QED
    BY <1>0, <2>1, CommitsCarried
<1>4. ASSUME NEW n \in Nodes, CountVote(n) PROVE CommitInv'
  <2>1. /\ msgs \subseteq msgs' /\ acks' = acks /\ commitIndex' = commitIndex
        /\ \A x \in msgs' \ msgs : x.commit = commitIndex[n]
    BY <1>4 DEF CountVote, logVars, Heartbeats
  <2>2. QED
    BY <1>0, <2>1, CommitsCarried
<1>5. ASSUME NEW n \in Nodes, AppendEntries(n) \/ CountAck(n) PROVE CommitInv'
  BY <1>0, <1>5, AppendEntriesCommits, CountAckCommits
<1>6. CASE UNCHANGED vars
  BY <1>0, <1>6, CommitsCarried DEF vars, logVars
<1>7. QED
  BY <1>1, <1>2, <1>3, <1>4, <1>5, <1>6 DEF Next

(* Every commit index lies in its node's log, with a majority of success   *)
(* answers to one node behind it and an answer that reaches as far         *)
(* (append_response): heartbeats pass on only what was counted, and no     *)
(* late or repeated answer adds up to a quorum that never was.             *)
THEOREM QuorumsBehindCommits == Spec => []CommitsHaveAcks
<1>1. Init => CommitInv
  BY InitLogInv DEF Init, CommitInv, AcksWereSent, Backed, Appends
<1>2. CommitInv => CommitsHaveAcks
  <2>1. CommitInv => CommitWithinLog
    BY DEF CommitInv, LogInv
  <2>2. ASSUME CommitInv, NEW n \in Nodes, commitIndex[n] > 0
        PROVE  \E l \in Nodes :
                  LET answers == {m \in msgs : m.type = "AppendResponse" /\ m.to = l}
                  IN  /\ IsMajority({l} \cup {m.from : m \in answers})
                      /\ \E m \in answers : m.match >= commitIndex[n]
    BY <2>2 DEF CommitInv, Backed, Answering, Answers
  <2>3. QED
    BY <2>1, <2>2 DEF CommitsHaveAcks
<1>3. QED
  BY <1>1, <1>2, NextCommitInv, PTL DEF Spec

(* Where two committed entries of one term meet, the committed logs agree  *)
(* up to there: nodes commit different entries only across terms.          *)
OneTermAgrees ==
    \A m, n \in Nodes : \A i \in 1 .. Least(commitIndex[m], commitIndex[n]) :
        log[m][i].term = log[n][i].term => \A j \in 1 .. i : log[m][j] = log[n][j]

(* What does hold of agreement (Raft, CommittedLogsAgree): a disagreement  *)
(* takes entries of two terms at one index.                                *)
THEOREM OneTermStaysAgreed == Spec => []OneTermAgrees
<1>1. LogInv /\ LogMatching => OneTermAgrees
  <2>1. ASSUME LogInv, LogMatching, NEW m \in Nodes, NEW n \in Nodes,
               NEW i \in 1 .. Least(commitIndex[m], commitIndex[n]),
               log[m][i].term = log[n][i].term
        PROVE  \A j \in 1 .. i : log[m][j] = log[n][j]
    <3>1. /\ log[m] \in Seq(Entry) /\ log[n] \in Seq(Entry)
          /\ commitIndex[m] \in Nat /\ commitIndex[n] \in Nat
          /\ commitIndex[m] <= Len(log[m]) /\ commitIndex[n] <= Len(log[n])
      BY <2>1 DEF LogInv, TypeOK, CommitWithinLog
    <3>2. i \in DOMAIN log[m] \cap DOMAIN log[n]
      BY <3>1, LenProperties DEF Least
    <3>3. QED
      BY <2>1, <3>2 DEF LogMatching
  <2>2. QED
    BY <2>1 DEF OneTermAgrees
<1>2. QED
  BY <1>1, InitLogInv, NextLogInv, LogsStayMatched, PTL DEF Spec

===========================================================================
