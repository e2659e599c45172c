----------------------- MODULE ThreePhaseCommitProofs -----------------------
(***************************************************************************)
(* Proofs about ThreePhaseCommit for every set of participants, every      *)
(* pattern of delivery and every moment a timeout may fire: agreement, the *)
(* guarantee of the third phase, and the refinement of AtomicCommit.       *)
(***************************************************************************)
EXTENDS ThreePhaseCommit, TLAPS

(* A precommitted answer stands: its sender can no longer time out.        *)
PreCommitsStand ==
    \A p \in Participants : Msg("PreCommitted", p) \in msgs =>
        pphase[p] \in {"PreCommit", "Committed"}

PreCommitsCounted ==
    /\ \A p \in precommittedBy : Msg("PreCommitted", p) \in msgs
    /\ phase = "Committed" => precommittedBy = Participants

CommitsDecided ==
    \A p \in Participants :
        /\ Msg("Commit", p) \in msgs => phase = "Committed"
        /\ pphase[p] = "Committed" => phase = "Committed"

CommitInv == TypeOK /\ PreCommitsStand /\ PreCommitsCounted /\ CommitsDecided

(* A message is its type and its participant.                              *)
LEMMA MsgParts ==
    \A t1, t2, p1, p2 : Msg(t1, p1) = Msg(t2, p2) <=> t1 = t2 /\ p1 = p2
  BY DEF Msg

(* A broadcast holds one message of its type for each participant.         *)
LEMMA ToAllParts ==
    \A t1, t2, p : Msg(t1, p) \in ToAll(t2) => t1 = t2
  BY MsgParts DEF ToAll

(* Sending adds nothing but some of the messages sent.                     *)
LEMMA Sent ==
    ASSUME NEW ms, Send(ms)
    PROVE  msgs \subseteq msgs' /\ msgs' \subseteq msgs \cup ms
  BY DEF Send

(* The messages of the two sides are well typed.                           *)
LEMMA MessageTypes ==
    /\ \A t \in {"Prepare", "PreCommit", "Commit"} : ToAll(t) \subseteq Message
    /\ \A t \in {"Prepared", "PreCommitted"}, p \in Participants : Msg(t, p) \in Message
  BY DEF ToAll, Msg, Message

(* Once anybody has committed, everybody is past the phase that times out. *)
LEMMA CommitIsSafe == CommitInv => NoTimeoutBesideCommit /\ Agreement
  BY DEF CommitInv, TypeOK, PreCommitsStand, PreCommitsCounted, CommitsDecided,
         NoTimeoutBesideCommit, Agreement

(* The initial state satisfies the strengthening.                          *)
LEMMA InitCommitInv == Init => CommitInv
  BY DEF Init, CommitInv, TypeOK, Phases, PreCommitsStand, PreCommitsCounted, CommitsDecided

(* Every step preserves it.                                                *)
LEMMA NextCommitInv == CommitInv /\ [Next]_vars => CommitInv'
  <1> SUFFICES ASSUME CommitInv, [Next]_vars PROVE CommitInv'
    OBVIOUS
  <1> USE DEF CommitInv, TypeOK, Phases, PreCommitsStand, PreCommitsCounted, CommitsDecided
  <1>1. CASE Begin
    <2>1. msgs \subseteq msgs' /\ msgs' \subseteq msgs \cup ToAll("Prepare")
      BY <1>1, Sent DEF Begin
    <2>2. \A t, p : t # "Prepare" => (Msg(t, p) \in msgs' <=> Msg(t, p) \in msgs)
      BY <2>1, ToAllParts
    <2>3. msgs' \subseteq Message
      BY <2>1, MessageTypes
    <2> QED BY <1>1, <2>2, <2>3 DEF Begin
  <1>2. ASSUME NEW p \in Participants, Prepared(p) PROVE CommitInv'
    <2>1. CASE preparedBy' # Participants
      BY <1>2, <2>1 DEF Prepared
    <2>2. CASE preparedBy' = Participants
      <3>1. phase' = "PreCommit" /\ Send(ToAll("PreCommit"))
        BY <1>2, <2>2 DEF Prepared
      <3>2. msgs \subseteq msgs' /\ msgs' \subseteq msgs \cup ToAll("PreCommit")
        BY <3>1, Sent
      <3>3. \A t, q : t # "PreCommit" => (Msg(t, q) \in msgs' <=> Msg(t, q) \in msgs)
        BY <3>2, ToAllParts
      <3>4. msgs' \subseteq Message
        BY <3>2, MessageTypes
      <3> QED BY <1>2, <2>2, <3>1, <3>3, <3>4 DEF Prepared
    <2> QED BY <2>1, <2>2
  <1>3. ASSUME NEW p \in Participants, Precommitted(p) PROVE CommitInv'
    <2>1. CASE precommittedBy' # Participants
      BY <1>3, <2>1 DEF Precommitted
    <2>2. CASE precommittedBy' = Participants
      <3>1. phase' = "Committed" /\ Send(ToAll("Commit"))
        BY <1>3, <2>2 DEF Precommitted
      <3>2. msgs \subseteq msgs' /\ msgs' \subseteq msgs \cup ToAll("Commit")
        BY <3>1, Sent
      <3>3. \A t, q : t # "Commit" => (Msg(t, q) \in msgs' <=> Msg(t, q) \in msgs)
        BY <3>2, ToAllParts
      <3>4. msgs' \subseteq Message
        BY <3>2, MessageTypes
      <3> QED BY <1>3, <2>2, <3>1, <3>3, <3>4 DEF Precommitted
    <2> QED BY <2>1, <2>2
  <1>4. CASE CoordinatorTimeout
    BY <1>4 DEF CoordinatorTimeout
  <1>5. ASSUME NEW p \in Participants, NEW can_commit \in BOOLEAN, Prepare(p, can_commit)
        PROVE  CommitInv'
    <2>1. CASE can_commit
      <3>1. /\ msgs \subseteq msgs' /\ msgs' \subseteq msgs \cup {Msg("Prepared", p)}
            /\ pphase' = [pphase EXCEPT ![p] = "Preparing"]
        BY <1>5, <2>1, Sent DEF Prepare
      <3>2. \A t, q : t # "Prepared" => (Msg(t, q) \in msgs' <=> Msg(t, q) \in msgs)
        BY <3>1, MsgParts
      <3>3. msgs' \subseteq Message
        BY <3>1, MessageTypes
      <3> QED BY <1>5, <3>1, <3>2, <3>3 DEF Prepare
    <2>2. CASE ~can_commit
      BY <1>5, <2>2 DEF Prepare
    <2> QED BY <2>1, <2>2
  <1>6. ASSUME NEW p \in Participants, PreCommit(p) PROVE CommitInv'
    <2>1. msgs \subseteq msgs' /\ msgs' \subseteq msgs \cup {Msg("PreCommitted", p)}
      BY <1>6, Sent DEF PreCommit
    <2>2. \A t, q : Msg(t, q) \in msgs' =>
              Msg(t, q) \in msgs \/ (t = "PreCommitted" /\ q = p)
      BY <2>1, MsgParts
    <2>3. msgs' \subseteq Message
      BY <2>1, MessageTypes
    <2> QED BY <1>6, <2>1, <2>2, <2>3 DEF PreCommit
  <1>7. ASSUME NEW p \in Participants, Commit(p) PROVE CommitInv'
    BY <1>7 DEF Commit
  <1>8. ASSUME NEW p \in Participants, ParticipantTimeout(p) PROVE CommitInv'
    BY <1>8 DEF ParticipantTimeout
  <1>9. CASE UNCHANGED vars
    BY <1>9 DEF vars
  <1> QED
    BY <1>1, <1>2, <1>3, <1>4, <1>5, <1>6, <1>7, <1>8, <1>9
    DEF Next, CoordinatorStep, ParticipantStep

---------------------------------------------------------------------------
(* No participant commits while another, or the coordinator, aborts, and   *)
(* nobody who could still time out is left when one commits.               *)
THEOREM ParticipantsAgree == Spec => [](TypeOK /\ Agreement /\ NoTimeoutBesideCommit)
  <1>1. CommitInv => TypeOK /\ Agreement /\ NoTimeoutBesideCommit
    BY CommitIsSafe DEF CommitInv
  <1> QED BY <1>1, InitCommitInv, NextCommitInv, PTL DEF Spec

---------------------------------------------------------------------------
(* What the refinement makes of a participant's phase.                     *)
LEMMA AbstractPhases ==
    /\ Abstract["Idle"] = "working" /\ Abstract["Preparing"] = "prepared"
    /\ Abstract["PreCommit"] = "prepared"
    /\ Abstract["Committed"] = "committed" /\ Abstract["Aborted"] = "aborted"
  BY DEF Abstract

(* A participant that moves, moves alone.                                  *)
LEMMA AbstractStep ==
    ASSUME TypeOK, NEW p \in Participants, NEW to \in Phases,
           pphase' = [pphase EXCEPT ![p] = to]
    PROVE  AbstractState' = [AbstractState EXCEPT ![p] = Abstract[to]]
  BY DEF TypeOK, AbstractState

(* The protocol implements AtomicCommit, timeouts included.                *)
THEOREM ImplementsPromise == Spec => ImplementsAtomicCommit
  <1>1. Init => Promise!Init
    BY AbstractPhases DEF Init, Promise!Init, AbstractState
  <1>2. ASSUME CommitInv, [Next]_vars PROVE [Promise!Next]_AbstractState
    <2> USE DEF CommitInv, TypeOK, Phases
    <2>0. ASSUME pphase' = pphase PROVE UNCHANGED AbstractState
      BY <2>0 DEF AbstractState, Abstract
    <2>a. \A q \in Participants : AbstractState[q] = Abstract[pphase[q]]
      BY DEF AbstractState
    <2>b. NoTimeoutBesideCommit
      BY <1>2, CommitIsSafe
    <2>1. CASE Begin \/ CoordinatorTimeout
      BY <2>0, <2>1 DEF Begin, CoordinatorTimeout
    <2>2. ASSUME NEW p \in Participants, Prepared(p) \/ Precommitted(p)
          PROVE  [Promise!Next]_AbstractState
      BY <2>0, <2>2 DEF Prepared, Precommitted
    <2>3. ASSUME NEW p \in Participants, NEW can_commit \in BOOLEAN, Prepare(p, can_commit)
          PROVE  [Promise!Next]_AbstractState
      <3>1. CASE can_commit
        <4>1. AbstractState' = [AbstractState EXCEPT ![p] = "prepared"]
          BY <1>2, <2>3, <3>1, AbstractStep, AbstractPhases DEF Prepare
        <4>2. Promise!Prepare(p)
          BY <2>3, <2>a, <4>1, AbstractPhases DEF Prepare, Promise!Prepare
        <4> QED BY <4>2 DEF Promise!Next
      <3>2. CASE ~can_commit
        <4>1. \A q \in Participants : pphase[q] # "Committed"
          BY <2>3, <2>b DEF Prepare, NoTimeoutBesideCommit
        <4>2. AbstractState' = [AbstractState EXCEPT ![p] = "aborted"]
          BY <1>2, <2>3, <3>2, AbstractStep, AbstractPhases DEF Prepare
        <4>3. Promise!Abort(p)
          BY <1>2, <2>3, <2>a, <4>1, <4>2, AbstractPhases
          DEF Prepare, Promise!Abort, Promise!Undecided
        <4> QED BY <4>3 DEF Promise!Next
      <3> QED BY <3>1, <3>2
    <2>4. ASSUME NEW p \in Participants, PreCommit(p) PROVE [Promise!Next]_AbstractState
      <3>1. AbstractState' = [AbstractState EXCEPT ![p] = "prepared"]
        BY <1>2, <2>4, AbstractStep, AbstractPhases DEF PreCommit
      <3>2. AbstractState[p] = "prepared"
        BY <2>4, <2>a, AbstractPhases DEF PreCommit
      <3> QED BY <3>1, <3>2 DEF AbstractState
    <2>5. ASSUME NEW p \in Participants, Commit(p) PROVE [Promise!Next]_AbstractState
      <3>1. \A q \in Participants : pphase[q] \in {"PreCommit", "Committed"}
        BY <1>2, <2>5 DEF Commit, PreCommitsStand, PreCommitsCounted, CommitsDecided
      <3>2. AbstractState' = [AbstractState EXCEPT ![p] = "committed"]
        BY <1>2, <2>5, AbstractStep, AbstractPhases DEF Commit
      <3>3. Promise!Commit(p)
        BY <2>5, <2>a, <3>1, <3>2, AbstractPhases DEF Commit, Promise!Commit
      <3> QED BY <3>3 DEF Promise!Next
    <2>6. ASSUME NEW p \in Participants, ParticipantTimeout(p)
          PROVE  [Promise!Next]_AbstractState
      <3>1. \A q \in Participants : pphase[q] # "Committed"
        BY <2>6, <2>b DEF ParticipantTimeout, NoTimeoutBesideCommit
      <3>2. AbstractState' = [AbstractState EXCEPT ![p] = "aborted"]
        BY <1>2, <2>6, AbstractStep, AbstractPhases DEF ParticipantTimeout
      <3>3. Promise!Abort(p)
        BY <1>2, <2>6, <2>a, <3>1, <3>2, AbstractPhases
        DEF ParticipantTimeout, Promise!Abort, Promise!Undecided
      <3> QED BY <3>3 DEF Promise!Next
    <2>7. CASE UNCHANGED vars
      BY <2>0, <2>7 DEF vars
    <2> QED
      BY <1>2, <2>1, <2>2, <2>3, <2>4, <2>5, <2>6, <2>7
      DEF Next, CoordinatorStep, ParticipantStep
  <1>3. CommitInv /\ [Next]_vars => [Promise!Next]_AbstractState
    BY <1>2
  <1> QED
    BY <1>1, <1>3, InitCommitInv, NextCommitInv, PTL
    DEF Spec, ImplementsAtomicCommit, Promise!Spec

===========================================================================
