------------------------- MODULE ThreePhaseCommit -------------------------
(***************************************************************************)
(* The 3PC state machines of iron-3pc over the same network as             *)
(* TwoPhaseCommit: a message once sent may be delivered at any later time  *)
(* and any number of times, or never.  Timeouts may fire at any time; the  *)
(* crate gives them no clock.  A handler's state change is durable before  *)
(* its action is sent.  There is no handler for an abort vote at the       *)
(* coordinator nor for an abort decision at a participant: both sides      *)
(* leave the Preparing phase by their own timeout.                         *)
(***************************************************************************)
EXTENDS FiniteSets

CONSTANT Participants

ASSUME ParticipantsAssumption == Participants # {}

VARIABLES
    phase,         \* the coordinator's phase
    preparedBy,    \* the participants whose prepared answer it has
    precommittedBy,\* the participants whose precommitted answer it has
    pphase,        \* each participant's phase
    msgs           \* every message sent so far

vars == <<phase, preparedBy, precommittedBy, pphase, msgs>>

Phases == {"Idle", "Preparing", "PreCommit", "Committed", "Aborted"}

Message == [type : {"Prepare", "Prepared", "PreCommit", "PreCommitted", "Commit"},
            participant : Participants]
Msg(type, p) == [type |-> type, participant |-> p]
ToAll(type) == {Msg(type, p) : p \in Participants}

(* Any of the messages may be lost.                                        *)
Send(ms) == \E sent \in SUBSET ms : msgs' = msgs \cup sent

Init ==
    /\ phase = "Idle" /\ preparedBy = {} /\ precommittedBy = {}
    /\ pphase = [p \in Participants |-> "Idle"]
    /\ msgs = {}

---------------------------------------------------------------------------
(* The coordinator.                                                        *)

Begin ==
    /\ phase = "Idle"
    /\ phase' = "Preparing"
    /\ Send(ToAll("Prepare"))
    /\ UNCHANGED <<preparedBy, precommittedBy, pphase>>

Prepared(p) ==
    /\ Msg("Prepared", p) \in msgs
    /\ phase = "Preparing"
    /\ preparedBy' = preparedBy \cup {p}
    /\ IF preparedBy' = Participants
       THEN phase' = "PreCommit" /\ Send(ToAll("PreCommit"))
       ELSE UNCHANGED <<phase, msgs>>
    /\ UNCHANGED <<precommittedBy, pphase>>

(* Faulty: the answers are recorded and decide nothing.                    *)
PrecommittedRecorded(p) ==
    /\ Msg("PreCommitted", p) \in msgs
    /\ phase = "PreCommit"
    /\ precommittedBy' = precommittedBy \cup {p}
    /\ UNCHANGED <<phase, preparedBy, pphase, msgs>>

Precommitted(p) ==
    /\ Msg("PreCommitted", p) \in msgs
    /\ phase = "PreCommit"
    /\ precommittedBy' = precommittedBy \cup {p}
    /\ IF precommittedBy' = Participants
       THEN phase' = "Committed" /\ Send(ToAll("Commit"))
       ELSE UNCHANGED <<phase, msgs>>
    /\ UNCHANGED <<preparedBy, pphase>>

(* In PreCommit the timeout returns PartitionMayBlock and changes nothing. *)
CoordinatorTimeout ==
    /\ phase = "Preparing"
    /\ phase' = "Aborted"
    /\ UNCHANGED <<preparedBy, precommittedBy, pphase, msgs>>

---------------------------------------------------------------------------
(* A participant.                                                          *)

Prepare(p, can_commit) ==
    /\ Msg("Prepare", p) \in msgs
    /\ pphase[p] = "Idle"
    /\ IF can_commit
       THEN pphase' = [pphase EXCEPT ![p] = "Preparing"] /\ Send({Msg("Prepared", p)})
       ELSE pphase' = [pphase EXCEPT ![p] = "Aborted"] /\ UNCHANGED msgs
    /\ UNCHANGED <<phase, preparedBy, precommittedBy>>

PreCommit(p) ==
    /\ Msg("PreCommit", p) \in msgs
    /\ pphase[p] = "Preparing"
    /\ pphase' = [pphase EXCEPT ![p] = "PreCommit"]
    /\ Send({Msg("PreCommitted", p)})
    /\ UNCHANGED <<phase, preparedBy, precommittedBy>>

Commit(p) ==
    /\ Msg("Commit", p) \in msgs
    /\ pphase[p] = "PreCommit"
    /\ pphase' = [pphase EXCEPT ![p] = "Committed"]
    /\ UNCHANGED <<phase, preparedBy, precommittedBy, msgs>>

(* Faulty: the timeout aborts a pre-committed participant too.             *)
ParticipantTimeoutAnyPhase(p) ==
    /\ pphase[p] \in {"Preparing", "PreCommit"}
    /\ pphase' = [pphase EXCEPT ![p] = "Aborted"]
    /\ UNCHANGED <<phase, preparedBy, precommittedBy, msgs>>

(* Faulty: the timeout only reports, as the coordinator's does.            *)
ParticipantTimeoutReports(p) ==
    /\ pphase[p] = "Preparing"
    /\ UNCHANGED vars

ParticipantTimeout(p) ==
    /\ pphase[p] = "Preparing"
    /\ pphase' = [pphase EXCEPT ![p] = "Aborted"]
    /\ UNCHANGED <<phase, preparedBy, precommittedBy, msgs>>

ParticipantStep(p) ==
    \/ \E can_commit \in BOOLEAN : Prepare(p, can_commit)
    \/ PreCommit(p) \/ Commit(p) \/ ParticipantTimeout(p)

CoordinatorStep ==
    \/ Begin \/ CoordinatorTimeout
    \/ \E p \in Participants : Prepared(p) \/ Precommitted(p)

Next == CoordinatorStep \/ \E p \in Participants : ParticipantStep(p)

Spec == Init /\ [][Next]_vars

(* Every message that stays deliverable is delivered, the caller begins,   *)
(* and a timer that stays armed fires.                                     *)
Fairness ==
    /\ WF_vars(Begin) /\ WF_vars(CoordinatorTimeout)
    /\ \A p \in Participants :
          /\ WF_vars(Prepared(p)) /\ WF_vars(Precommitted(p))
          /\ WF_vars(ParticipantStep(p))

FairSpec == Spec /\ Fairness

---------------------------------------------------------------------------
TypeOK ==
    /\ phase \in Phases
    /\ preparedBy \subseteq Participants /\ precommittedBy \subseteq Participants
    /\ pphase \in [Participants -> Phases]
    /\ msgs \subseteq Message

(* No participant commits while another, or the coordinator, aborts,       *)
(* although every side may time out on its own at any moment.              *)
Agreement ==
    /\ \A p, q \in Participants : ~(pphase[p] = "Committed" /\ pphase[q] = "Aborted")
    /\ phase = "Aborted" => \A p \in Participants : pphase[p] # "Committed"

(* The point of the third phase: when anybody has committed, no            *)
(* participant is still in a phase its own timeout would abort.            *)
NoTimeoutBesideCommit ==
    (\E p \in Participants : pphase[p] = "Committed") =>
        \A p \in Participants : pphase[p] \in {"PreCommit", "Committed"}

(* A pre-committed participant, or the coordinator that waits for its      *)
(* answer, waits for a message that was lost.                              *)
Lost ==
    \E p \in Participants :
        /\ pphase[p] = "PreCommit"
        /\ \/ phase = "PreCommit" /\ Msg("PreCommitted", p) \notin msgs
           \/ phase = "Committed" /\ Msg("Commit", p) \notin msgs

(* The transaction commits everywhere, unless somebody aborts or one of    *)
(* the messages that nobody repeats is lost: timers and answers that race  *)
(* never leave it stuck in any other way.                                  *)
CommitsUnlessAbortedOrLost ==
    \/ <>(\A p \in Participants : pphase[p] = "Committed")
    \/ <>(phase = "Aborted" \/ \E p \in Participants : pphase[p] = "Aborted")
    \/ <>[]Lost

(* A participant that voted to prepare does not wait for ever: it gets to  *)
(* PreCommit or its timeout aborts it.  Only PreCommit may block.          *)
OnlyPreCommitBlocks ==
    \A p \in Participants : (pphase[p] = "Preparing") ~> (pphase[p] # "Preparing")

---------------------------------------------------------------------------
Abstract ==
    [Idle |-> "working", Preparing |-> "prepared", PreCommit |-> "prepared",
     Committed |-> "committed", Aborted |-> "aborted"]

AbstractState == [p \in Participants |-> Abstract[pphase[p]]]

Promise == INSTANCE AtomicCommit WITH state <- AbstractState

ImplementsAtomicCommit == Promise!Spec

===========================================================================
