-------------------------- MODULE TwoPhaseCommit --------------------------
(***************************************************************************)
(* The 2PC state machines of iron-2pc, a coordinator and its participants, *)
(* over a network that may lose, duplicate, delay and reorder.             *)
(*                                                                         *)
(* The crate does no I/O: its caller persists every returned decision      *)
(* before sending it (lib.rs:57), and a participant's phase before its     *)
(* answer.  So these handlers change durable state, and a crash between    *)
(* persisting and sending shows as a message that is lost.  An undecided   *)
(* coordinator has nothing persisted: its restart is Coordinator::new.     *)
(*                                                                         *)
(* A message is attempted once when it is returned (transport.rs:6-11),    *)
(* and the attempt may fail.  A copy may still turn up at any later time,  *)
(* delayed, duplicated or sent again by the caller, but nothing makes one: *)
(* there is no retry and no timeout.                                       *)
(***************************************************************************)
EXTENDS FiniteSets

CONSTANT Participants

ASSUME ParticipantsAssumption == Participants # {}

VARIABLES
    phase,         \* the coordinator's phase; a decision is "Commit" or "Abort"
    prepared,      \* the participants whose prepared vote it has
    pphase,        \* each participant's phase
    msgs,          \* every message returned for sending so far
    inflight,      \* those of which a copy is under way and will arrive
    missed         \* history: those whose last copy was lost, or came in vain

vars == <<phase, prepared, pphase, msgs, inflight, missed>>

Decisions == {"Commit", "Abort"}
CoordinatorPhases == {"Idle", "Preparing"} \cup Decisions
ParticipantPhases == {"Working", "Prepared", "Committed", "Aborted"}

Message == [type : {"Prepare", "Commit", "Abort", "Prepared", "VoteAbort"},
            participant : Participants]
Msg(type, p) == [type |-> type, participant |-> p]
ToAll(type) == {Msg(type, p) : p \in Participants}

(* Messages are taken from the network and others are sent, any of which   *)
(* may be lost.                                                            *)
Exchange(taken, ms) ==
    /\ taken \subseteq inflight
    /\ msgs' = msgs \cup ms
    /\ \E sent \in SUBSET ms :
          /\ inflight' = (inflight \ taken) \cup sent
          /\ missed' = (missed \ sent) \cup (ms \ inflight')

Send(ms) == Exchange({}, ms)
Take(m) == Exchange({m}, {})
Answer(m, ms) == Exchange({m}, ms)

Init ==
    /\ phase = "Idle" /\ prepared = {}
    /\ pphase = [p \in Participants |-> "Working"]
    /\ msgs = {} /\ inflight = {} /\ missed = {}

---------------------------------------------------------------------------
(* The coordinator.                                                        *)

Begin ==
    /\ phase = "Idle"
    /\ phase' = "Preparing"
    /\ Send(ToAll("Prepare"))
    /\ UNCHANGED <<prepared, pphase>>

(* Faulty: the first vote decides.                                         *)
VotePreparedHasty(p) ==
    /\ phase = "Preparing"
    /\ prepared' = prepared \cup {p}
    /\ phase' = "Commit" /\ Answer(Msg("Prepared", p), ToAll("Commit"))
    /\ UNCHANGED pphase

VotePrepared(p) ==
    /\ phase = "Preparing"
    /\ prepared' = prepared \cup {p}
    /\ IF prepared' = Participants
       THEN phase' = "Commit" /\ Answer(Msg("Prepared", p), ToAll("Commit"))
       ELSE UNCHANGED phase /\ Take(Msg("Prepared", p))
    /\ UNCHANGED pphase

(* Faulty: the abort vote is recorded and decides nothing.                 *)
VoteAbortRecorded(p) ==
    /\ phase = "Preparing"
    /\ Take(Msg("VoteAbort", p))
    /\ UNCHANGED <<phase, prepared, pphase>>

VoteAbort(p) ==
    /\ phase = "Preparing"
    /\ phase' = "Abort"
    /\ Answer(Msg("VoteAbort", p), ToAll("Abort"))
    /\ UNCHANGED <<prepared, pphase>>

(* The coordinator crashes before a decision: nothing of it was persisted. *)
Restart ==
    /\ phase = "Preparing"
    /\ phase' = "Idle" /\ prepared' = {}
    /\ UNCHANGED <<pphase, msgs, inflight, missed>>

---------------------------------------------------------------------------
(* A participant.  The acknowledgements Committed and Aborted, which a     *)
(* repeated prepare also returns once the outcome is known, are not votes  *)
(* and no handler of the coordinator takes them; they are not sent here.   *)

(* The vote on a prepare.                                                  *)
Vote(p, can_commit) ==
    LET to == IF can_commit THEN "Prepared" ELSE "Aborted"
        vote == IF can_commit THEN "Prepared" ELSE "VoteAbort"
    IN  /\ pphase' = [pphase EXCEPT ![p] = to]
        /\ Answer(Msg("Prepare", p), {Msg(vote, p)})
        /\ UNCHANGED <<phase, prepared>>

(* Faulty: a repeated prepare votes afresh, whatever the phase.            *)
PrepareAfresh(p, can_commit) == Vote(p, can_commit)

Prepare(p, can_commit) == pphase[p] = "Working" /\ Vote(p, can_commit)

(* A repeated prepare: the vote is sent again whatever can_commit says.    *)
PrepareAgain(p) ==
    /\ pphase[p] = "Prepared"
    /\ Answer(Msg("Prepare", p), {Msg("Prepared", p)})
    /\ UNCHANGED <<phase, prepared, pphase>>

Commit(p) ==
    /\ pphase[p] = "Prepared"
    /\ pphase' = [pphase EXCEPT ![p] = "Committed"]
    /\ Take(Msg("Commit", p))
    /\ UNCHANGED <<phase, prepared>>

Abort(p) ==
    /\ pphase[p] # "Committed"
    /\ pphase' = [pphase EXCEPT ![p] = "Aborted"]
    /\ Take(Msg("Abort", p))
    /\ UNCHANGED <<phase, prepared>>

---------------------------------------------------------------------------
(* A message that its handler refuses, or acknowledges without any effect: *)
(* a vote while no votes are being collected, a prepare once the outcome   *)
(* is known, a commit to a participant that is not prepared, an abort to a *)
(* committed one.                                                          *)
Useless(m) ==
    CASE m.type \in {"Prepared", "VoteAbort"} -> phase # "Preparing"
      [] m.type = "Prepare" -> pphase[m.participant] \in {"Committed", "Aborted"}
      [] m.type = "Commit" -> pphase[m.participant] # "Prepared"
      [] m.type = "Abort" -> pphase[m.participant] = "Committed"

Unheeded(m) ==
    /\ m \in inflight
    /\ Useless(m)
    /\ inflight' = inflight \ {m} /\ missed' = missed \cup {m}
    /\ UNCHANGED <<phase, prepared, pphase, msgs>>

(* The handler of a message that arrives.                                  *)
Receive(m) ==
    LET p == m.participant
    IN  \/ m.type = "Prepared" /\ VotePrepared(p)
        \/ m.type = "VoteAbort" /\ VoteAbort(p)
        \/ m.type = "Prepare" /\ \E can_commit \in BOOLEAN : Prepare(p, can_commit)
        \/ m.type = "Prepare" /\ PrepareAgain(p)
        \/ m.type = "Commit" /\ Commit(p)
        \/ m.type = "Abort" /\ Abort(p)
        \/ Unheeded(m)

(* A late or repeated copy of a message comes under way.  One that would   *)
(* be of no use then is left out: it may come once it is of use, and it    *)
(* may become useless on its way.                                          *)
TurnUp(m) ==
    /\ m \in msgs \ inflight
    /\ ~Useless(m)
    /\ inflight' = inflight \cup {m} /\ missed' = missed \ {m}
    /\ UNCHANGED <<phase, prepared, pphase, msgs>>

Next == Begin \/ Restart \/ \E m \in Message : Receive(m) \/ TurnUp(m)

Spec == Init /\ [][Next]_vars

(* The caller begins the transaction, and a copy that is under way         *)
(* arrives.  Nothing is sent or delivered a second time because of this.   *)
Fairness == WF_vars(Begin) /\ \A m \in Message : WF_vars(Receive(m))

FairSpec == Spec /\ Fairness

---------------------------------------------------------------------------
TypeOK ==
    /\ phase \in CoordinatorPhases
    /\ prepared \subseteq Participants
    /\ pphase \in [Participants -> ParticipantPhases]
    /\ msgs \subseteq Message
    /\ inflight \subseteq msgs /\ missed \subseteq msgs \ inflight

(* No participant commits while another aborts, or while the coordinator   *)
(* has decided otherwise, whatever is lost, repeated or reordered and      *)
(* however often the coordinator restarts before deciding.                 *)
Agreement ==
    /\ \A p, q \in Participants : ~(pphase[p] = "Committed" /\ pphase[q] = "Aborted")
    /\ \A p \in Participants : pphase[p] = "Committed" => phase = "Commit"
    /\ phase = "Commit" => \A p \in Participants : pphase[p] # "Aborted"

(* A coordinator aborts only because a participant voted to: votes that    *)
(* are late, repeated or from before a restart never turn into an abort.   *)
AbortHasVote ==
    phase = "Abort" => \E p \in Participants : Msg("VoteAbort", p) \in msgs

(* Every Commit or Abort message announces the coordinator's decision, so  *)
(* a restarted coordinator never contradicts a message still in flight.    *)
AnnouncedDecision ==
    \A p \in Participants, d \in Decisions : Msg(d, p) \in msgs => phase = d

(* A decision is final, at the coordinator and at every participant.       *)
DecisionsAreFinal ==
    [][/\ phase \in Decisions => phase' = phase
       /\ \A p \in Participants :
             pphase[p] \in {"Committed", "Aborted"} => pphase'[p] = pphase[p]]_vars

(* The messages that would move on a participant that has no outcome, or a *)
(* coordinator that lacks its vote.                                        *)
Awaited(p) ==
    LET awaits(types) == {Msg(t, p) : t \in types}
    IN  CASE phase \in Decisions ->
               IF pphase[p] \in {"Working", "Prepared"} THEN awaits({phase}) ELSE {}
          [] phase = "Preparing" /\ pphase[p] = "Working" -> awaits({"Prepare"})
          [] phase = "Preparing" /\ pphase[p] = "Prepared" /\ p \notin prepared ->
               awaits({"Prepare", "Prepared"})
          [] phase = "Preparing" /\ pphase[p] = "Aborted" -> awaits({"VoteAbort"})
          [] OTHER -> {}

Missed == \E p \in Participants : Awaited(p) \cap missed # {}

(* Every participant reaches an outcome, unless the coordinator restarts   *)
(* for ever or somebody waits for ever for a message that was lost, or     *)
(* that came when its receiver could not take it.  With no retry and no    *)
(* timeout, nothing else may stop the protocol: votes that are repeated,   *)
(* late or from before a restart leave nobody in a state that cannot move  *)
(* on.                                                                     *)
Termination ==
    \/ <>(\A p \in Participants : pphase[p] \in {"Committed", "Aborted"})
    \/ []<><<Restart>>_vars
    \/ <>[]Missed

---------------------------------------------------------------------------
(* The participants' phases are an atomic commit.                          *)
Abstract ==
    [Working |-> "working", Prepared |-> "prepared",
     Committed |-> "committed", Aborted |-> "aborted"]

AbstractState == [p \in Participants |-> Abstract[pphase[p]]]

Promise == INSTANCE AtomicCommit WITH state <- AbstractState

ImplementsAtomicCommit == Promise!Spec

===========================================================================
