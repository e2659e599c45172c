-------------------------------- MODULE Raft --------------------------------
(***************************************************************************)
(* The election and replication core of iron-raft: one RaftNode per        *)
(* member, over a network that may lose, duplicate, delay and reorder (a   *)
(* message once sent may be delivered at any later time, any number of     *)
(* times, or never).  Nodes do not crash: the crate has no way to restore  *)
(* a term or a vote.                                                       *)
(*                                                                         *)
(* Every AppendEntries the code sends carries the whole log from index 0,  *)
(* so prev_log_index is 0 in every message and its check always succeeds;  *)
(* next_index is written and never read, and is left out.                  *)
(***************************************************************************)
EXTENDS Integers, Sequences, FiniteSets

CONSTANTS
    Nodes,
    None,              \* no vote
    Commands,
    ElectionTimeout,
    Ticking,           \* the nodes whose caller ticks them
    MaxTerm,           \* bound on terms (u64::MAX in the code)
    MaxLog             \* bound on the entries a leader accepts

ASSUME NodesAssumption == IsFiniteSet(Nodes) /\ None \notin Nodes
ASSUME TimeoutAssumption == ElectionTimeout \in Nat \ {0} /\ Ticking \subseteq Nodes
ASSUME BoundsAssumption == MaxTerm \in Nat /\ MaxLog \in Nat

VARIABLES
    role, currentTerm, votedFor, votes, log, commitIndex, elapsed,
    acks,              \* replication_acks
    msgs               \* every message sent so far

electionVars == <<role, currentTerm, votedFor, votes, elapsed>>
logVars == <<log, commitIndex, acks>>
vars == <<electionVars, logVars, msgs>>

Roles == {"Follower", "Candidate", "Leader"}
Entry == [term : 1 .. MaxTerm, command : Commands]

IsMajority(S) == Cardinality(S) >= Cardinality(Nodes) \div 2 + 1

LastTerm(l) == IF l = << >> THEN 0 ELSE l[Len(l)].term

(* is_up_to_date: a candidate's last entry against one's own log.          *)
UpToDate(index, term, l) ==
    \/ term > LastTerm(l)
    \/ term = LastTerm(l) /\ index >= Len(l)

Init ==
    /\ role = [n \in Nodes |-> "Follower"]
    /\ currentTerm = [n \in Nodes |-> 0]
    /\ votedFor = [n \in Nodes |-> None]
    /\ votes = [n \in Nodes |-> {}]
    /\ log = [n \in Nodes |-> << >>]
    /\ commitIndex = [n \in Nodes |-> 0]
    /\ elapsed = [n \in Nodes |-> 0]
    /\ acks = [n \in Nodes |-> {}]
    /\ msgs = {}

---------------------------------------------------------------------------
(* Messages.                                                               *)

RequestVotes(n, term, l) ==
    {[type |-> "RequestVote", to |-> p, from |-> n, term |-> term,
      index |-> Len(l), lastTerm |-> LastTerm(l)] : p \in Nodes \ {n}}

Heartbeats(n, l) ==
    {[type |-> "AppendEntries", to |-> p, from |-> n, term |-> currentTerm[n],
      entries |-> l, commit |-> commitIndex[n]] : p \in Nodes \ {n}}

Granted(m, n) == [type |-> "Vote", to |-> m.from, from |-> n, term |-> m.term]

Success(m, n, match) ==
    [type |-> "AppendResponse", to |-> m.from, from |-> n, term |-> m.term, match |-> match]

(* A Vote or AppendResponse that refuses matters to its receiver only by   *)
(* its term, and only when that is later than the term of the request.     *)
Refusal(m, n) ==
    IF currentTerm[n] > m.term
    THEN {[type |-> "Refusal", to |-> m.from, term |-> currentTerm[n]]} ELSE {}

Received(n, type) == {m \in msgs : m.to = n /\ m.type = type}

---------------------------------------------------------------------------
(* tick.  A leader's elapsed ticks are never read and are not counted.     *)

TickLeader(n) ==
    /\ role[n] = "Leader"
    /\ msgs' = msgs \cup Heartbeats(n, log[n])
    /\ UNCHANGED <<electionVars, logVars>>

TickWaits(n) ==
    /\ role[n] # "Leader"
    /\ elapsed[n] + 1 < ElectionTimeout
    /\ elapsed' = [elapsed EXCEPT ![n] = @ + 1]
    /\ UNCHANGED <<role, currentTerm, votedFor, votes, logVars, msgs>>

TickElection(n) ==
    /\ role[n] # "Leader"
    /\ elapsed[n] + 1 >= ElectionTimeout
    /\ currentTerm[n] < MaxTerm
    /\ currentTerm' = [currentTerm EXCEPT ![n] = @ + 1]
    /\ role' = [role EXCEPT ![n] = "Candidate"]
    /\ votedFor' = [votedFor EXCEPT ![n] = n]
    /\ votes' = [votes EXCEPT ![n] = {n}]
    /\ elapsed' = [elapsed EXCEPT ![n] = 0]
    /\ msgs' = msgs \cup RequestVotes(n, currentTerm'[n], log[n])
    /\ UNCHANGED logVars

Propose(n, command) ==
    /\ role[n] = "Leader" /\ Len(log[n]) < MaxLog
    /\ log' = [log EXCEPT ![n] = Append(@, [term |-> currentTerm[n], command |-> command])]
    /\ acks' = [acks EXCEPT ![n] = {n}]
    /\ msgs' = msgs \cup Heartbeats(n, log'[n])
    /\ UNCHANGED <<electionVars, commitIndex>>

---------------------------------------------------------------------------
(* receive.  A message of a later term first turns its receiver into a     *)
(* follower of that term; what follows reads the state that leaves.        *)

BecomesFollower(n, term) == term > currentTerm[n]

TermAfter(n, term) == IF BecomesFollower(n, term) THEN term ELSE currentTerm[n]
VoteAfter(n, term) == IF BecomesFollower(n, term) THEN None ELSE votedFor[n]

(* become_follower, when the term calls for it.                            *)
FollowTerm(n, term) ==
    /\ currentTerm' = [currentTerm EXCEPT ![n] = TermAfter(n, term)]
    /\ IF BecomesFollower(n, term)
       THEN /\ role' = [role EXCEPT ![n] = "Follower"]
            /\ votes' = [votes EXCEPT ![n] = {}]
       ELSE UNCHANGED <<role, votes>>

(* Faulty: whom the node voted for is not looked at.                       *)
GrantsAgain(n, m) ==
    /\ m.term = TermAfter(n, m.term)
    /\ UpToDate(m.index, m.lastTerm, log[n])

Grants(n, m) ==
    /\ m.term = TermAfter(n, m.term)
    /\ VoteAfter(n, m.term) \in {None, m.from}
    /\ UpToDate(m.index, m.lastTerm, log[n])

RequestVote(n) ==
    \E m \in Received(n, "RequestVote") :
        LET granted == Grants(n, m) IN
        /\ FollowTerm(n, m.term)
        /\ votedFor' = [votedFor EXCEPT ![n] = IF granted THEN m.from ELSE VoteAfter(n, m.term)]
        /\ elapsed' = [elapsed EXCEPT ![n] =
                          IF granted \/ BecomesFollower(n, m.term) THEN 0 ELSE @]
        /\ msgs' = msgs \cup IF granted THEN {Granted(m, n)} ELSE Refusal(m, n)
        /\ UNCHANGED logVars

(* A Vote or AppendResponse of a later term: the node only steps down.     *)
StepDown(n) ==
    \E m \in UNION {Received(n, t) : t \in {"Vote", "AppendResponse", "Refusal"}} :
        /\ BecomesFollower(n, m.term)
        /\ FollowTerm(n, m.term)
        /\ votedFor' = [votedFor EXCEPT ![n] = None]
        /\ elapsed' = [elapsed EXCEPT ![n] = 0]
        /\ UNCHANGED <<logVars, msgs>>

(* A granted vote of the candidate's own term; become_leader and its first *)
(* heartbeats when the votes are a majority.                               *)
CountVote(n) ==
    \E m \in Received(n, "Vote") :
        /\ role[n] = "Candidate" /\ m.term = currentTerm[n]
        /\ votes' = [votes EXCEPT ![n] = @ \cup {m.from}]
        /\ IF IsMajority(votes'[n])
           THEN /\ role' = [role EXCEPT ![n] = "Leader"]
                /\ elapsed' = [elapsed EXCEPT ![n] = 0]
                /\ msgs' = msgs \cup Heartbeats(n, log[n])
           ELSE UNCHANGED <<role, elapsed, msgs>>
        /\ UNCHANGED <<currentTerm, votedFor, logVars>>

(* Faulty: a conflicting suffix is not truncated, only missing entries are *)
(* pushed.                                                                 *)
MergedNoTruncate(l, entries) ==
    IF Len(entries) > Len(l) THEN l \o SubSeq(entries, Len(l) + 1, Len(entries)) ELSE l

(* The entries loop: from the first index whose terms differ the sender's  *)
(* entries replace one's own; without one, missing entries are added and a *)
(* longer log keeps its suffix.                                            *)
Merged(l, entries) ==
    LET both == DOMAIN l \cap DOMAIN entries
        Kept(k) == SubSeq(l, 1, k) \o SubSeq(entries, k + 1, Len(entries))
    IN  IF \E i \in both : l[i].term # entries[i].term
        THEN Kept(CHOOSE k \in 0 .. Len(l) :
                     /\ \A i \in 1 .. k : l[i].term = entries[i].term
                     /\ k + 1 \in both /\ l[k + 1].term # entries[k + 1].term)
        ELSE IF Len(entries) > Len(l) THEN Kept(Len(l)) ELSE l

Least(a, b) == IF a <= b THEN a ELSE b

(* Faulty: the sender's term is not compared.                              *)
AcceptsAnyTerm(n, m) == TRUE

AcceptsEntries(n, m) == m.term = TermAfter(n, m.term)

AppendEntries(n) ==
    \E m \in Received(n, "AppendEntries") :
        /\ FollowTerm(n, m.term)
        /\ votedFor' = [votedFor EXCEPT ![n] = VoteAfter(n, m.term)]
        /\ IF AcceptsEntries(n, m)
           THEN /\ log' = [log EXCEPT ![n] = Merged(@, m.entries)]
                /\ commitIndex' = [commitIndex EXCEPT ![n] = Least(m.commit, Len(log'[n]))]
                /\ elapsed' = [elapsed EXCEPT ![n] = 0]
                /\ msgs' = msgs \cup {Success(m, n, Len(log'[n]))}
           ELSE /\ msgs' = msgs \cup Refusal(m, n)
                /\ UNCHANGED <<log, commitIndex, elapsed>>
        /\ UNCHANGED acks

(* Faulty: a majority of answers commits the leader's whole log.           *)
CountAckOwnLength(n) ==
    \E m \in Received(n, "AppendResponse") :
        /\ ~BecomesFollower(n, m.term) /\ role[n] = "Leader"
        /\ acks' = [acks EXCEPT ![n] = @ \cup {m.from}]
        /\ commitIndex' = [commitIndex EXCEPT ![n] =
              IF IsMajority(acks'[n]) THEN Len(log[n]) ELSE @]
        /\ UNCHANGED <<electionVars, log, msgs>>

(* A success, of this term or an earlier one.                              *)
CountAck(n) ==
    \E m \in Received(n, "AppendResponse") :
        /\ ~BecomesFollower(n, m.term) /\ role[n] = "Leader"
        /\ acks' = [acks EXCEPT ![n] = @ \cup {m.from}]
        /\ commitIndex' = [commitIndex EXCEPT ![n] =
              IF IsMajority(acks'[n]) THEN Least(m.match, Len(log[n])) ELSE @]
        /\ UNCHANGED <<electionVars, log, msgs>>

Next ==
    \E n \in Nodes :
        \/ n \in Ticking /\ (TickLeader(n) \/ TickWaits(n) \/ TickElection(n))
        \/ \E c \in Commands : Propose(n, c)
        \/ RequestVote(n) \/ StepDown(n) \/ CountVote(n)
        \/ AppendEntries(n) \/ CountAck(n)

Spec == Init /\ [][Next]_vars

---------------------------------------------------------------------------
TypeOK ==
    /\ role \in [Nodes -> Roles]
    /\ currentTerm \in [Nodes -> 0 .. MaxTerm]
    /\ votedFor \in [Nodes -> Nodes \cup {None}]
    /\ votes \in [Nodes -> SUBSET Nodes]
    /\ log \in [Nodes -> Seq(Entry)]
    /\ commitIndex \in [Nodes -> Nat]
    /\ elapsed \in [Nodes -> 0 .. ElectionTimeout - 1]
    /\ acks \in [Nodes -> SUBSET Nodes]

(* At most one leader per term, however the votes of several terms         *)
(* interleave, repeat and arrive late.                                     *)
ElectionSafety ==
    \A m, n \in Nodes :
        role[m] = "Leader" /\ role[n] = "Leader" /\ currentTerm[m] = currentTerm[n] => m = n

(* Two logs that agree on the term at an index agree on everything up to   *)
(* it: a stale or repeated AppendEntries never splices two histories.      *)
LogMatching ==
    \A m, n \in Nodes :
        \A i \in DOMAIN log[m] \cap DOMAIN log[n] :
            log[m][i].term = log[n][i].term =>
                \A j \in 1 .. i : log[m][j] = log[n][j]

(* No node commits past the end of its log.                                *)
CommitWithinLog == \A n \in Nodes : commitIndex[n] <= Len(log[n])

(* Nobody, follower or leader, counts an entry as committed that it does   *)
(* not hold, though a follower with a longer stale suffix reports a match  *)
(* its leader may not have, and a truncation may drop what was counted;    *)
(* nor one that no quorum stands behind: one node has had success answers  *)
(* from a majority, itself included, and one reports a log that long.      *)
CommitsHaveAcks ==
    /\ CommitWithinLog
    /\ \A n \in Nodes : commitIndex[n] > 0 =>
           \E l \in Nodes :
               LET answers == {m \in msgs : m.type = "AppendResponse" /\ m.to = l}
               IN  /\ IsMajority({l} \cup {m.from : m \in answers})
                   /\ \E m \in answers : m.match >= commitIndex[n]

(* Terms never go back, and a node votes for one candidate in a term.      *)
VotesAreFinal ==
    [][\A n \in Nodes :
          \/ currentTerm'[n] > currentTerm[n]
          \/ /\ currentTerm'[n] = currentTerm[n]
             /\ votedFor[n] # None => votedFor'[n] = votedFor[n]]_vars

(* A leader never loses or rewrites an entry of its own log.               *)
LeaderAppendOnly ==
    [][\A n \in Nodes : role[n] = "Leader" /\ role'[n] = "Leader" =>
          /\ Len(log'[n]) >= Len(log[n])
          /\ \A i \in DOMAIN log[n] : log'[n][i] = log[n][i]]_vars

(* A replicated log never has two committed entries at one index: what a   *)
(* node has committed may be applied (lib.rs:3, lib.rs:5).  The code does  *)
(* not have this property: a follower reports the length of its own log,   *)
(* stale suffix included, and the leader commits that much of its own.     *)
CommittedLogsAgree ==
    \A m, n \in Nodes :
        \A i \in 1 .. Least(commitIndex[m], commitIndex[n]) : log[m][i] = log[n][i]

===========================================================================
