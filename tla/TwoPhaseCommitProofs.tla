------------------------ MODULE TwoPhaseCommitProofs ------------------------
(***************************************************************************)
(* Proofs about TwoPhaseCommit for every set of participants and every     *)
(* pattern of lost, repeated, delayed and reordered messages: agreement,   *)
(* final decisions, and the refinement of AtomicCommit.                    *)
(***************************************************************************)
EXTENDS TwoPhaseCommit, TLAPS

(* What a message that was sent says about its sender, now or for ever.    *)
VotesStand ==
    \A p \in Participants : Msg("Prepared", p) \in msgs =>
        pphase[p] \in {"Prepared", "Committed"} \/ phase = "Abort"

VotesCounted ==
    /\ \A p \in prepared : Msg("Prepared", p) \in msgs
    /\ phase = "Commit" => prepared = Participants

CommitsDecided == \A p \in Participants : pphase[p] = "Committed" => phase = "Commit"

CommitInv ==
    /\ TypeOK /\ VotesStand /\ VotesCounted
    /\ AnnouncedDecision /\ AbortHasVote /\ CommitsDecided

(* A message is its type and its participant.                              *)
LEMMA MsgParts ==
    \A t1, t2, p1, p2 : Msg(t1, p1) = Msg(t2, p2) <=> t1 = t2 /\ p1 = p2
  BY DEF Msg

(* A broadcast holds one message of its type for each participant.         *)
LEMMA ToAllParts ==
    \A t1, t2, p : Msg(t1, p) \in ToAll(t2) => t1 = t2
  BY MsgParts DEF ToAll

(* An exchange adds the messages sent, and accounts for the copies.        *)
LEMMA Exchanged ==
    ASSUME TypeOK, NEW taken, NEW ms \in SUBSET Message, Exchange(taken, ms)
    PROVE  /\ msgs' = msgs \cup ms
           /\ msgs' \subseteq Message
           /\ inflight' \subseteq msgs' /\ missed' \subseteq msgs' \ inflight'
           /\ taken \subseteq msgs
  <1>1. PICK sent \in SUBSET ms :
            /\ inflight' = (inflight \ taken) \cup sent
            /\ missed' = (missed \ sent) \cup (ms \ inflight')
    BY DEF Exchange
  <1>2. msgs' = msgs \cup ms /\ taken \subseteq inflight
    BY DEF Exchange
  <1>3. inflight \subseteq msgs /\ missed \subseteq msgs \ inflight /\ msgs \subseteq Message
    BY DEF TypeOK
  <1> QED BY <1>1, <1>2, <1>3, Zenon

(* The messages of the two sides are well typed.                           *)
LEMMA MessageTypes ==
    /\ \A t \in {"Prepare", "Commit", "Abort", "Prepared", "VoteAbort"} :
           ToAll(t) \subseteq Message
    /\ \A t \in {"Prepared", "VoteAbort"}, p \in Participants : Msg(t, p) \in Message
  BY DEF ToAll, Msg, Message

(* The steps of the protocol, by the handler that takes them.              *)
LEMMA NextSteps ==
    ASSUME [Next]_vars
    PROVE  \/ Begin \/ Restart \/ UNCHANGED vars
           \/ \E p \in Participants : \/ VotePrepared(p) \/ VoteAbort(p)
                                     \/ \E can_commit \in BOOLEAN : Prepare(p, can_commit)
                                     \/ PrepareAgain(p) \/ Commit(p) \/ Abort(p)
           \/ \E m \in Message : Unheeded(m) \/ TurnUp(m)
  <1>1. ASSUME NEW m \in Message, Receive(m)
        PROVE  \/ Unheeded(m)
               \/ \E p \in Participants : \/ VotePrepared(p) \/ VoteAbort(p)
                                         \/ \E can_commit \in BOOLEAN : Prepare(p, can_commit)
                                         \/ PrepareAgain(p) \/ Commit(p) \/ Abort(p)
    <2>1. m.participant \in Participants
      BY DEF Message
    <2> QED BY <1>1, <2>1, Zenon DEF Receive
  <1> QED BY <1>1, Zenon DEF Next

(* The strengthening implies agreement.                                    *)
LEMMA CommitInvAgrees == CommitInv => Agreement
  BY DEF CommitInv, TypeOK, VotesStand, VotesCounted, CommitsDecided, Agreement

(* The initial state satisfies it.                                         *)
LEMMA InitCommitInv == Init => CommitInv
  BY DEF Init, CommitInv, TypeOK, CoordinatorPhases, Decisions, ParticipantPhases,
         VotesStand, VotesCounted, AnnouncedDecision, AbortHasVote, CommitsDecided

(* Every step preserves it.                                                *)
LEMMA NextCommitInv == CommitInv /\ [Next]_vars => CommitInv'
  <1> SUFFICES ASSUME CommitInv, [Next]_vars PROVE CommitInv'
    OBVIOUS
  <1> USE DEF CommitInv, CoordinatorPhases, Decisions, ParticipantPhases,
              VotesStand, VotesCounted, AnnouncedDecision, AbortHasVote, CommitsDecided
  <1>t. TypeOK
    OBVIOUS
  <1>0. {} \in SUBSET Message /\ \A m \in Message : {m} \in SUBSET Message
    OBVIOUS
  <1>1. CASE Begin
    <2>1. /\ msgs' = msgs \cup ToAll("Prepare") /\ msgs' \subseteq Message
          /\ inflight' \subseteq msgs' /\ missed' \subseteq msgs' \ inflight'
      BY <1>t, <1>1, Exchanged, MessageTypes DEF Begin, Send
    <2>2. \A t, p : t # "Prepare" => (Msg(t, p) \in msgs' <=> Msg(t, p) \in msgs)
      BY <2>1, ToAllParts
    <2> QED BY <1>1, <2>1, <2>2 DEF Begin, TypeOK
  <1>2. ASSUME NEW p \in Participants, VotePrepared(p) PROVE CommitInv'
    <2>1. CASE prepared' # Participants
      <3>0. Exchange({Msg("Prepared", p)}, {})
        BY <1>2, <2>1 DEF VotePrepared, Take
      <3>1. /\ msgs' = msgs /\ msgs' \subseteq Message /\ Msg("Prepared", p) \in msgs
            /\ inflight' \subseteq msgs' /\ missed' \subseteq msgs' \ inflight'
        BY <1>t, <1>0, <3>0, Exchanged
      <3> QED BY <1>2, <2>1, <3>1 DEF VotePrepared, TypeOK
    <2>2. CASE prepared' = Participants
      <3>1. phase' = "Commit" /\ Exchange({Msg("Prepared", p)}, ToAll("Commit"))
        BY <1>2, <2>2 DEF VotePrepared, Answer
      <3>2. /\ msgs' = msgs \cup ToAll("Commit") /\ msgs' \subseteq Message
            /\ Msg("Prepared", p) \in msgs
            /\ inflight' \subseteq msgs' /\ missed' \subseteq msgs' \ inflight'
        BY <1>t, <3>1, Exchanged, MessageTypes
      <3>3. \A t, q : t # "Commit" => (Msg(t, q) \in msgs' <=> Msg(t, q) \in msgs)
        BY <3>2, ToAllParts
      <3> QED BY <1>2, <2>2, <3>1, <3>2, <3>3 DEF VotePrepared, TypeOK
    <2> QED BY <2>1, <2>2
  <1>3. ASSUME NEW p \in Participants, VoteAbort(p) PROVE CommitInv'
    <2>1. /\ msgs' = msgs \cup ToAll("Abort") /\ msgs' \subseteq Message
          /\ Msg("VoteAbort", p) \in msgs
          /\ inflight' \subseteq msgs' /\ missed' \subseteq msgs' \ inflight'
      BY <1>t, <1>3, Exchanged, MessageTypes DEF VoteAbort, Answer
    <2>2. \A t, q : t # "Abort" => (Msg(t, q) \in msgs' <=> Msg(t, q) \in msgs)
      BY <2>1, ToAllParts
    <2> QED BY <1>3, <2>1, <2>2 DEF VoteAbort, TypeOK
  <1>4. CASE Restart
    BY <1>4 DEF Restart, TypeOK
  <1>5. ASSUME NEW p \in Participants, NEW can_commit \in BOOLEAN, Prepare(p, can_commit)
        PROVE  CommitInv'
    <2>1. CASE can_commit
      <3>1. /\ msgs' = msgs \cup {Msg("Prepared", p)} /\ msgs' \subseteq Message
            /\ inflight' \subseteq msgs' /\ missed' \subseteq msgs' \ inflight'
            /\ pphase' = [pphase EXCEPT ![p] = "Prepared"]
            /\ UNCHANGED <<phase, prepared>>
        BY <1>t, <1>0, <1>5, <2>1, Exchanged, MessageTypes DEF Prepare, Vote, Answer
      <3>2. \A t, q : Msg(t, q) \in msgs' =>
                Msg(t, q) \in msgs \/ (t = "Prepared" /\ q = p)
        BY <3>1, MsgParts
      <3> QED BY <1>5, <3>1, <3>2 DEF Prepare, TypeOK
    <2>2. CASE ~can_commit
      <3>1. /\ msgs' = msgs \cup {Msg("VoteAbort", p)} /\ msgs' \subseteq Message
            /\ inflight' \subseteq msgs' /\ missed' \subseteq msgs' \ inflight'
            /\ pphase' = [pphase EXCEPT ![p] = "Aborted"]
            /\ UNCHANGED <<phase, prepared>>
        BY <1>t, <1>0, <1>5, <2>2, Exchanged, MessageTypes DEF Prepare, Vote, Answer
      <3>2. \A t, q : t # "VoteAbort" => (Msg(t, q) \in msgs' <=> Msg(t, q) \in msgs)
        BY <3>1, MsgParts
      <3> QED BY <1>5, <3>1, <3>2 DEF Prepare, TypeOK
    <2> QED BY <2>1, <2>2
  <1>6. ASSUME NEW p \in Participants, PrepareAgain(p) PROVE CommitInv'
    <2>1. /\ msgs' = msgs \cup {Msg("Prepared", p)} /\ msgs' \subseteq Message
          /\ inflight' \subseteq msgs' /\ missed' \subseteq msgs' \ inflight'
      BY <1>t, <1>0, <1>6, Exchanged, MessageTypes DEF PrepareAgain, Answer
    <2>2. \A t, q : Msg(t, q) \in msgs' =>
              Msg(t, q) \in msgs \/ (t = "Prepared" /\ q = p)
      BY <2>1, MsgParts
    <2> QED BY <1>6, <2>1, <2>2 DEF PrepareAgain, TypeOK
  <1>7. ASSUME NEW p \in Participants, Commit(p) PROVE CommitInv'
    <2>1. /\ msgs' = msgs /\ msgs' \subseteq Message /\ Msg("Commit", p) \in msgs
          /\ inflight' \subseteq msgs' /\ missed' \subseteq msgs' \ inflight'
      BY <1>t, <1>0, <1>7, Exchanged DEF Commit, Take
    <2> QED BY <1>7, <2>1 DEF Commit, TypeOK
  <1>8. ASSUME NEW p \in Participants, Abort(p) PROVE CommitInv'
    <2>1. /\ msgs' = msgs /\ msgs' \subseteq Message /\ Msg("Abort", p) \in msgs
          /\ inflight' \subseteq msgs' /\ missed' \subseteq msgs' \ inflight'
      BY <1>t, <1>0, <1>8, Exchanged DEF Abort, Take
    <2> QED BY <1>8, <2>1 DEF Abort, TypeOK
  <1>9. ASSUME NEW m \in Message, Unheeded(m) \/ TurnUp(m) PROVE CommitInv'
    <2>1. /\ inflight' \subseteq msgs' /\ missed' \subseteq msgs' \ inflight'
          /\ UNCHANGED <<phase, prepared, pphase, msgs>>
      BY <1>9 DEF Unheeded, TurnUp, TypeOK
    <2> QED BY <2>1 DEF TypeOK
  <1>10. CASE UNCHANGED vars
    BY <1>10 DEF vars, TypeOK
  <1> QED
    BY <1>1, <1>2, <1>3, <1>4, <1>5, <1>6, <1>7, <1>8, <1>9, <1>10, NextSteps

---------------------------------------------------------------------------
(* Agreement, with the facts about decisions it rests on: no participant   *)
(* commits while another aborts, an abort has its vote, and a message in   *)
(* flight announces the coordinator's decision.                            *)
THEOREM ParticipantsAgree ==
    Spec => [](TypeOK /\ Agreement /\ AbortHasVote /\ AnnouncedDecision)
  <1>1. CommitInv => TypeOK /\ Agreement /\ AbortHasVote /\ AnnouncedDecision
    BY CommitInvAgrees DEF CommitInv
  <1> QED BY <1>1, InitCommitInv, NextCommitInv, PTL DEF Spec

(* No step takes a decision back, at the coordinator or at a participant.  *)
THEOREM DecisionsStayFinal == Spec => DecisionsAreFinal
  <1> DEFINE Final ==
        /\ phase \in Decisions => phase' = phase
        /\ \A p \in Participants :
               pphase[p] \in {"Committed", "Aborted"} => pphase'[p] = pphase[p]
  <1>1. ASSUME CommitInv, [Next]_vars PROVE Final
    <2> USE DEF CommitInv, TypeOK, Decisions
    <2>1. CASE Begin \/ Restart
      BY <2>1 DEF Begin, Restart
    <2>2. ASSUME NEW p \in Participants, VotePrepared(p) \/ VoteAbort(p) PROVE Final
      BY <2>2 DEF VotePrepared, VoteAbort
    <2>3. ASSUME NEW p \in Participants, NEW can_commit \in BOOLEAN, Prepare(p, can_commit)
          PROVE  Final
      BY <1>1, <2>3 DEF Prepare, Vote
    <2>4. ASSUME NEW p \in Participants, PrepareAgain(p) \/ Commit(p) \/ Abort(p) PROVE Final
      BY <1>1, <2>4 DEF PrepareAgain, Commit, Abort
    <2>5. ASSUME NEW m \in Message, Unheeded(m) \/ TurnUp(m) PROVE Final
      BY <2>5 DEF Unheeded, TurnUp
    <2>6. CASE UNCHANGED vars
      BY <2>6 DEF vars
    <2> QED
      BY <1>1, <2>1, <2>2, <2>3, <2>4, <2>5, <2>6, NextSteps
  <1>2. CommitInv /\ [Next]_vars => [Final]_vars
    BY <1>1
  <1> QED BY <1>2, InitCommitInv, NextCommitInv, PTL DEF Spec, DecisionsAreFinal

(* What the refinement makes of a participant's phase.                     *)
LEMMA AbstractPhases ==
    /\ Abstract["Working"] = "working" /\ Abstract["Prepared"] = "prepared"
    /\ Abstract["Committed"] = "committed" /\ Abstract["Aborted"] = "aborted"
  BY DEF Abstract

(* A participant that moves, moves alone.                                  *)
LEMMA AbstractStep ==
    ASSUME TypeOK, NEW p \in Participants, NEW to \in ParticipantPhases,
           pphase' = [pphase EXCEPT ![p] = to]
    PROVE  AbstractState' = [AbstractState EXCEPT ![p] = Abstract[to]]
  BY DEF TypeOK, AbstractState

(* The protocol implements AtomicCommit: a participant commits only while  *)
(* all others are prepared or committed, and aborts only while nobody has  *)
(* committed.                                                              *)
THEOREM ImplementsPromise == Spec => ImplementsAtomicCommit
  <1>1. Init => Promise!Init
    BY AbstractPhases DEF Init, Promise!Init, AbstractState
  <1>2. ASSUME CommitInv, [Next]_vars PROVE [Promise!Next]_AbstractState
    <2> USE DEF CommitInv, TypeOK, ParticipantPhases
    <2>0. ASSUME pphase' = pphase PROVE UNCHANGED AbstractState
      BY <2>0 DEF AbstractState, Abstract
    <2>a. \A q \in Participants : AbstractState[q] = Abstract[pphase[q]]
      BY DEF AbstractState
    <2>1. CASE Begin \/ Restart
      BY <2>0, <2>1 DEF Begin, Restart
    <2>2. ASSUME NEW p \in Participants, VotePrepared(p) \/ VoteAbort(p) \/ PrepareAgain(p)
          PROVE  [Promise!Next]_AbstractState
      BY <2>0, <2>2 DEF VotePrepared, VoteAbort, PrepareAgain
    <2>3. ASSUME NEW p \in Participants, NEW can_commit \in BOOLEAN, Prepare(p, can_commit)
          PROVE  [Promise!Next]_AbstractState
      <3>1. CASE can_commit
        <4>1. AbstractState' = [AbstractState EXCEPT ![p] = "prepared"]
          BY <1>2, <2>3, <3>1, AbstractStep, AbstractPhases DEF Prepare, Vote
        <4>2. Promise!Prepare(p)
          BY <2>3, <2>a, <4>1, AbstractPhases DEF Prepare, Promise!Prepare
        <4> QED BY <4>2 DEF Promise!Next
      <3>2. CASE ~can_commit
        <4>1. \A q \in Participants : pphase[q] # "Committed"
          BY <1>2, <2>3 DEF Prepare, VotesStand, VotesCounted, CommitsDecided
        <4>2. AbstractState' = [AbstractState EXCEPT ![p] = "aborted"]
          BY <1>2, <2>3, <3>2, AbstractStep, AbstractPhases DEF Prepare, Vote
        <4>3. Promise!Abort(p)
          BY <1>2, <2>3, <2>a, <4>1, <4>2, AbstractPhases
          DEF Prepare, Promise!Abort, Promise!Undecided
        <4> QED BY <4>3 DEF Promise!Next
      <3> QED BY <3>1, <3>2
    <2>4. ASSUME NEW p \in Participants, Commit(p) PROVE [Promise!Next]_AbstractState
      <3>0. Msg("Commit", p) \in msgs
        BY <1>2, <2>4 DEF Commit, Take, Exchange
      <3>1. \A q \in Participants : pphase[q] \in {"Prepared", "Committed"}
        BY <1>2, <2>4, <3>0 DEF Commit, AnnouncedDecision, Decisions, VotesStand, VotesCounted
      <3>2. AbstractState' = [AbstractState EXCEPT ![p] = "committed"]
        BY <1>2, <2>4, AbstractStep, AbstractPhases DEF Commit
      <3>3. Promise!Commit(p)
        BY <2>4, <2>a, <3>1, <3>2, AbstractPhases DEF Commit, Promise!Commit
      <3> QED BY <3>3 DEF Promise!Next
    <2>5. ASSUME NEW p \in Participants, Abort(p) PROVE [Promise!Next]_AbstractState
      <3>0. Msg("Abort", p) \in msgs
        BY <1>2, <2>5 DEF Abort, Take, Exchange
      <3>1. \A q \in Participants : pphase[q] # "Committed"
        BY <1>2, <2>5, <3>0 DEF Abort, AnnouncedDecision, Decisions, CommitsDecided
      <3>2. CASE pphase[p] = "Aborted"
        BY <1>2, <2>0, <2>5, <3>2 DEF Abort
      <3>3. CASE pphase[p] # "Aborted"
        <4>1. AbstractState' = [AbstractState EXCEPT ![p] = "aborted"]
          BY <1>2, <2>5, AbstractStep, AbstractPhases DEF Abort
        <4>2. Promise!Abort(p)
          BY <1>2, <2>5, <2>a, <3>1, <3>3, <4>1, AbstractPhases
          DEF Abort, Promise!Abort, Promise!Undecided
        <4> QED BY <4>2 DEF Promise!Next
      <3> QED BY <3>2, <3>3
    <2>6. ASSUME NEW m \in Message, Unheeded(m) \/ TurnUp(m)
          PROVE  [Promise!Next]_AbstractState
      BY <2>0, <2>6 DEF Unheeded, TurnUp
    <2>7. CASE UNCHANGED vars
      BY <2>0, <2>7 DEF vars
    <2> QED
      BY <1>2, <2>1, <2>2, <2>3, <2>4, <2>5, <2>6, <2>7, NextSteps
  <1>3. CommitInv /\ [Next]_vars => [Promise!Next]_AbstractState
    BY <1>2
  <1> QED
    BY <1>1, <1>3, InitCommitInv, NextCommitInv, PTL
    DEF Spec, ImplementsAtomicCommit, Promise!Spec

===========================================================================
