---------------------------- MODULE NodeRuntime ----------------------------
(***************************************************************************)
(* iron-runtime's NodeRuntime: one protocol state machine, one WAL and the *)
(* external effects.  handle() runs one event at a time (it takes          *)
(* &mut self): the protocol mutates its state and returns a transition,    *)
(* the record is appended and flushed, and the actions run in order.  Each *)
(* of those points is a step here, so a crash, a failing call or a dropped *)
(* future may come between any two of them.                                *)
(*                                                                         *)
(* The protocol is any deterministic machine that keeps the Protocol       *)
(* contract, so its state is the sequence of recorded events it applied.   *)
(* The WAL is the one of DurableLog, which Wal.tla implements, with the    *)
(* failures of FileWal.                                                    *)
(***************************************************************************)
EXTENDS Integers, Sequences, FiniteSets

CONSTANTS
    Events,         \* inputs of the protocol
    Recorded,       \* the events whose transition carries a durable record
    ActionsOf,      \* how many actions each event's transition carries
    TooLarge,       \* the events whose record exceeds max_record_bytes
    MaxLsn,         \* the last LSN
    MaxApplied      \* bound on the events applied between two recoveries

ASSUME EventsAssumption == Recorded \subseteq Events /\ TooLarge \subseteq Recorded
ASSUME ActionsAssumption == ActionsOf \in [Events -> Nat]
ASSUME BoundsAssumption == MaxLsn \in Nat /\ MaxApplied \in Nat

VARIABLES
    log, durable,   \* the WAL: records in the file, records covered by a barrier
    poisoned,       \* the FileWal refuses writes until it is reopened
    applied,        \* the protocol's state
    phase,          \* where the runtime is
    current,        \* the event being handled
    done,           \* how many of its actions have run
    failed,         \* history: the positions of applied whose append failed
    executed        \* history: the actions that ran, with what each could reveal

vars == <<log, durable, poisoned, applied, phase, current, done, failed, executed>>

Log == INSTANCE DurableLog WITH Records <- Recorded

Phases == {"down", "ready", "append", "flush", "effects"}

(* The runtime is created over an opened WAL; recover() comes first.       *)
Init ==
    /\ log = << >> /\ durable = 0 /\ poisoned = FALSE
    /\ applied = << >>
    /\ phase = "down" /\ current \in Events /\ done = 0
    /\ failed = {} /\ executed = << >>

(* recover: replay() sets a barrier, and the protocol is rebuilt from the  *)
(* records.  No action runs.                                               *)
Recover ==
    /\ phase = "down"
    /\ Log!Barrier
    /\ applied' = log
    /\ phase' = "ready"
    /\ poisoned' = FALSE /\ done' = 0 /\ failed' = {}
    /\ UNCHANGED <<current, executed>>

(* handle, first line: protocol.handle(event) changes the protocol's state *)
(* before anything is written.                                             *)
HandleRecorded(e) ==
    /\ phase = "ready"
    /\ e \in Recorded
    /\ Len(applied) < MaxApplied
    /\ applied' = Append(applied, e)
    /\ current' = e /\ done' = 0
    /\ phase' = "append"
    /\ UNCHANGED <<log, durable, poisoned, failed, executed>>

(* A transition without a record: it changes no state, and if it asks for  *)
(* actions commit_transition returns UndurableEffects.                     *)
HandleUnrecorded(e) ==
    /\ phase = "ready"
    /\ e \notin Recorded
    /\ current' = e /\ done' = 0
    /\ phase' = IF ActionsOf[e] > 0 THEN "ready" ELSE "effects"
    /\ UNCHANGED <<log, durable, poisoned, applied, failed, executed>>

(* The appends that cannot succeed: ensure_writable, the record's size and *)
(* the last LSN refuse them.                                               *)
Refused == poisoned \/ current \in TooLarge \/ Len(log) >= MaxLsn

(* handle returns an error for a transition the protocol already made.     *)
Forsake == failed' = failed \cup {Len(applied)} /\ phase' = "ready"

(* An error that leaves the file and the writer alone: a refusal, or       *)
(* WalRecordInput::new, encode_frame or the seek to the end of the log     *)
(* failing, which any append may meet and none remembers.                  *)
AppendRefused ==
    /\ phase = "append"
    /\ Forsake
    /\ UNCHANGED <<log, durable, poisoned, applied, current, done, executed>>

(* Faulty: the actions run once append returns, without the flush.         *)
AppendSkipsFlush ==
    /\ phase = "append"
    /\ ~Refused
    /\ Log!Append1(current)
    /\ phase' = "effects"
    /\ UNCHANGED <<poisoned, applied, current, done, failed, executed>>

AppendSucceeds ==
    /\ phase = "append"
    /\ ~Refused
    /\ Log!Append1(current)
    /\ phase' = "flush"
    /\ UNCHANGED <<poisoned, applied, current, done, failed, executed>>

(* Faulty: a failed append leaves the WAL usable.                          *)
AppendFailsQuietly ==
    /\ phase = "append"
    /\ ~Refused
    /\ log' \in {log, Append(log, current)}
    /\ Forsake
    /\ UNCHANGED <<durable, poisoned, applied, current, done, executed>>

(* write_all or the policy's sync_data fails: without or with the record   *)
(* in the file, the writer is poisoned.                                    *)
AppendFails ==
    /\ phase = "append"
    /\ ~Refused
    /\ log' \in {log, Append(log, current)}
    /\ poisoned' = TRUE
    /\ Forsake
    /\ UNCHANGED <<durable, applied, current, done, executed>>

FlushSucceeds ==
    /\ phase = "flush"
    /\ Log!Barrier
    /\ phase' = "effects"
    /\ UNCHANGED <<poisoned, applied, current, done, failed, executed>>

FlushFails ==
    /\ phase = "flush"
    /\ poisoned' = TRUE
    /\ phase' = "ready"
    /\ UNCHANGED <<log, durable, applied, current, done, failed, executed>>

(* What running the next action adds to the history.                       *)
Ran == [lsn |-> Len(log), event |-> current, action |-> done + 1,
        state |-> applied, unlogged |-> failed]

(* Faulty: a failed action is skipped and the next one runs.               *)
RunActionOrSkip ==
    /\ phase = "effects"
    /\ done < ActionsOf[current]
    /\ done' = done + 1
    /\ executed' \in {executed, Append(executed, Ran)}
    /\ UNCHANGED <<log, durable, poisoned, applied, phase, current, failed>>

(* The next action runs, and may reveal all of the protocol's state.       *)
RunAction ==
    /\ phase = "effects"
    /\ done < ActionsOf[current]
    /\ done' = done + 1
    /\ executed' = Append(executed, Ran)
    /\ UNCHANGED <<log, durable, poisoned, applied, phase, current, failed>>

(* All actions ran; or one failed, or the caller dropped the future at an  *)
(* await, and the rest of them are forgotten.                              *)
Finish ==
    /\ phase = "effects"
    /\ phase' = "ready"
    /\ UNCHANGED <<log, durable, poisoned, applied, current, done, failed, executed>>

(* The process stops and a new one opens the same file.                    *)
Stop ==
    /\ phase' = "down"
    /\ applied' = << >> /\ failed' = {}
    /\ UNCHANGED <<poisoned, current, done, executed>>

Crash == phase # "down" /\ Stop /\ UNCHANGED <<log, durable>>

PowerLoss == Stop /\ Log!Lose

Next ==
    \/ Recover
    \/ \E e \in Events : HandleRecorded(e) \/ HandleUnrecorded(e)
    \/ AppendRefused \/ AppendSucceeds \/ AppendFails
    \/ FlushSucceeds \/ FlushFails
    \/ RunAction \/ Finish
    \/ Crash \/ PowerLoss

Spec == Init /\ [][Next]_vars

---------------------------------------------------------------------------
ExecutedType == [lsn : Nat, event : Events, action : Nat,
                 state : Seq(Recorded), unlogged : SUBSET Nat]

TypeOK ==
    /\ log \in Seq(Recorded) /\ durable \in 0 .. Len(log)
    /\ poisoned \in BOOLEAN
    /\ applied \in Seq(Recorded) /\ failed \subseteq 1 .. Len(applied)
    /\ phase \in Phases /\ current \in Events /\ done \in Nat
    /\ executed \in Seq(ExecutedType)

(* WAL before effects: an action that ran belongs to a record that is      *)
(* durable in the log at its LSN, now and after every later crash, so a    *)
(* restarted protocol still has the transition it announced                *)
(* (commit_transition, PROJECT_PLAN.md:295).                               *)
EffectsAreLogged ==
    \A i \in DOMAIN executed :
        executed[i].lsn \in 1 .. durable /\ log[executed[i].lsn] = executed[i].event

(* The effects of the whole run, crashes and restarts included, come in    *)
(* the order of the log, transition after transition: an action is the     *)
(* first of a later record than the action before it, or the next one of   *)
(* the same transition.  So a failed effect cuts the list, none is run     *)
(* again after a restart, and no transition's actions run among another's  *)
(* (commit_transition).                                                    *)
EffectsInOrder ==
    \A i \in DOMAIN executed :
        \/ /\ executed[i].action = 1
           /\ i > 1 => executed[i - 1].lsn < executed[i].lsn
        \/ /\ i > 1
           /\ executed[i - 1].lsn = executed[i].lsn
           /\ executed[i - 1].event = executed[i].event
           /\ executed[i - 1].action = executed[i].action - 1

(* The transitions of a state that are not among the unlogged ones, and    *)
(* the place of one of them in the log.                                    *)
Kept(state, unlogged) == 1 .. Len(state) \ unlogged
Rank(state, unlogged, p) == Cardinality({q \in Kept(state, unlogged) : q <= p})

(* Without the unlogged transitions, the state is what a recovery from the *)
(* records up to lsn rebuilds.                                             *)
Accounted(state, unlogged, lsn) ==
    /\ Cardinality(Kept(state, unlogged)) = lsn
    /\ \A p \in Kept(state, unlogged) : state[p] = log[Rank(state, unlogged, p)]

(* How far the protocol may be ahead of its log when an action runs, which *)
(* may reveal all of the protocol's state: by the transitions whose append *)
(* returned an error since the last recovery, and by nothing else.  All    *)
(* others are the log, record for record, and stay so.  The protocol is    *)
(* mutated first (lib.rs:82), so this rests on what FileWal does after     *)
(* each error: a record left in the file by a failed append would be       *)
(* counted twice if the writer took another.                               *)
RevealedStateIsAccounted ==
    \A i \in DOMAIN executed :
        Accounted(executed[i].state, executed[i].unlogged, executed[i].lsn)

(* PROJECT_PLAN.md:295: durable protocol state is appended to the WAL      *)
(* before any effect that could reveal it.  The code does not keep this:   *)
(* an append refused for its size, or for an encoding or seek error,       *)
(* neither undoes the transition nor stops later events, whose actions     *)
(* reveal it.                                                              *)
RevealedStateIsLogged ==
    \A i \in DOMAIN executed :
        executed[i].state = SubSeq(log, 1, executed[i].lsn)

===========================================================================
