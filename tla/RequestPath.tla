---------------------------- MODULE RequestPath ----------------------------
(***************************************************************************)
(* A request's way through one node: the configuration file is validated,  *)
(* the gRPC service validates the envelope, the DedupTable reserves its    *)
(* key, the outcome is stored, logged and flushed, and only then answered; *)
(* a restart rebuilds the table from the log.                              *)
(*                                                                         *)
(* The table's owner is the one docs/PROJECT_PLAN.md:155-181 describes and *)
(* foundation_recovery.rs plays: a protocol of iron-runtime's NodeRuntime, *)
(* which handles one event at a time, writes the transition's record       *)
(* before its actions, and refuses actions without a record.  A replayed   *)
(* outcome is therefore logged again before it is answered.  As in that    *)
(* test, a record's payload is the outcome.  The WAL is DurableLog, which  *)
(* Wal.tla implements, with the failures of FileWal.                       *)
(*                                                                         *)
(* The network may deliver a request, or a retry of it, any number of      *)
(* times and at any time: Requests are what remote nodes have sent.        *)
(***************************************************************************)
EXTENDS DedupTable, Envelope, NodeConfig

CONSTANTS
    Requests,        \* envelopes of remote nodes
    Files,           \* the configuration files a restart may find
    ResponseId,      \* what the identifier generator returns
    MaxCompletions,  \* bound on the records of the log
    Wires,           \* wire forms, and
    Envelopes,       \* envelopes, that a service may see
    Memberships      \* member maps that a file may hold

ASSUME RequestsAssumption ==
    /\ Requests \subseteq EnvelopeType
    /\ \A e \in Requests : Key(e) \in Keys /\ Fingerprint(e) \in Fingerprints
ASSUME KeysAssumption == Keys \subseteq Bytes \X Bytes \X Bytes
ASSUME SamplesAssumption ==
    /\ Wires \subseteq WireType
    /\ Envelopes \subseteq {e \in EnvelopeType : Correlates(e)}
    /\ \A members \in Memberships :
          DOMAIN members \subseteq Bytes /\ IsFiniteSet(DOMAIN members)
ASSUME BoundAssumption == MaxCompletions \in Nat

VARIABLES
    limits,          \* the accepted max_message and max_record
    completions,     \* the records of the log
    durable,         \* how many of them a barrier covers
    poisoned,        \* the FileWal refuses writes until it is reopened
    pending,         \* how many of them recovery has still to restore
    phase,           \* where the runtime is in committing a transition
    current,         \* the completion being committed, if any
    working,         \* the admitted requests whose outcome is being computed
    answers,         \* history: the responses sent for keys not forgotten
    forgotten        \* history: keys evicted, or not restored, once

vars == <<config, table, limits, completions, durable, poisoned, pending, phase,
          current, working, answers, forgotten>>

Log == INSTANCE DurableLog WITH
    log <- completions, durable <- durable,
    Records <- [key : Keys, fingerprint : Fingerprints, outcome : Outcomes]

(* A request as it arrives: a first delivery or a retry, accepted by the   *)
(* service under the message limit.                                        *)
Arrivals ==
    UNION {Delivered(e, limits.max_message) :
              e \in Requests \cup UNION {Retry(e) : e \in Requests}}

Adopt(raw) ==
    /\ Accepted(raw)
    /\ config' = raw.dedup
    /\ limits' = [max_message |-> raw.transport.max_message, max_record |-> raw.wal.max_record]

(* What an outcome leaves in the table, seen from the answers already      *)
(* given: a key that lost its outcome is new work from then on.            *)
Forget(lost) ==
    /\ forgotten' = forgotten \cup lost
    /\ answers' = {a \in answers : <<a.cluster, a.destination, a.correlation>> \notin
                      {<<k[1], k[2], {k[3]}>> : k \in lost}}

Evicted == {k \in Keys : Completed(table, k) /\ k \notin DOMAIN table'.entries}

Idle == phase = "idle" /\ pending = 0

Commit(e, outcome) == phase' = "append" /\ current' = {[request |-> e, outcome |-> outcome]}

---------------------------------------------------------------------------
(* A node that has not started; it is started by Restart.                  *)
Init ==
    /\ config \in {raw.dedup : raw \in {r \in Files : Accepted(r)}}
    /\ limits = [max_message |-> 0, max_record |-> 0]
    /\ table = Empty /\ completions = << >> /\ durable = 0
    /\ poisoned = FALSE /\ pending = 0
    /\ phase = "down" /\ current = {} /\ working = {}
    /\ answers = {} /\ forgotten = {}

(* begin returns New, and the owner starts the evaluation.                 *)
DeliverNew(e) ==
    /\ Idle
    /\ Begin(Key(e), Fingerprint(e))
    /\ working' = working \cup {e}
    /\ Forget(Evicted)
    /\ UNCHANGED <<config, limits, completions, durable, poisoned, pending, phase, current>>

(* Faulty: a retained outcome is answered without a record of its own.     *)
DeliverReplayUnlogged(e) ==
    /\ Idle
    /\ Completed(table, Key(e)) /\ table.entries[Key(e)].fingerprint = Fingerprint(e)
    /\ phase' = "reply" /\ current' = {[request |-> e, outcome |-> table.entries[Key(e)].state]}
    /\ UNCHANGED <<config, table, limits, completions, durable, poisoned, pending, working,
                   answers, forgotten>>

(* begin returns Replay, and the owner answers with the retained outcome.  *)
DeliverReplay(e) ==
    /\ Idle
    /\ Completed(table, Key(e)) /\ table.entries[Key(e)].fingerprint = Fingerprint(e)
    /\ Commit(e, table.entries[Key(e)].state)
    /\ UNCHANGED <<config, table, limits, completions, durable, poisoned, pending, working,
                   answers, forgotten>>

(* The evaluation ends: complete returns Completed.                        *)
Finish(e, outcome) ==
    /\ Idle /\ e \in working
    /\ Complete(Key(e), Fingerprint(e), outcome)
    /\ working' = working \ {e}
    /\ Commit(e, outcome)
    /\ Forget(Evicted)
    /\ UNCHANGED <<config, limits, completions, durable, poisoned, pending>>

(* The evaluation fails: abort returns Aborted.                            *)
Fail(e) ==
    /\ Idle /\ e \in working
    /\ Abort(Key(e), Fingerprint(e))
    /\ working' = working \ {e}
    /\ UNCHANGED <<config, limits, completions, durable, poisoned, pending, phase, current,
                   answers, forgotten>>

---------------------------------------------------------------------------
(* commit_transition, one step at every call that may fail.                *)
Quiet == UNCHANGED <<config, table, limits, pending, working, answers, forgotten>>

RecordOf(c) ==
    [key |-> Key(c.request), fingerprint |-> Fingerprint(c.request), outcome |-> c.outcome]

(* The appends that cannot succeed.                                        *)
Refused(c) ==
    poisoned \/ Size[c.outcome] > limits.max_record \/ Len(completions) >= MaxCompletions

AppendSucceeds(c) ==
    /\ phase = "append" /\ ~Refused(c)
    /\ Log!Append1(RecordOf(c))
    /\ phase' = "flush"
    /\ UNCHANGED <<poisoned, current>> /\ Quiet

(* An error that leaves the file and the writer alone: a refusal, or an    *)
(* encoding or seek error, which any append may meet.                      *)
AppendRefused(c) ==
    /\ phase = "append"
    /\ phase' = "idle" /\ current' = {}
    /\ UNCHANGED <<completions, durable, poisoned>> /\ Quiet

(* The write or its sync fails, without or with the record in the file.    *)
AppendFails(c) ==
    /\ phase = "append" /\ ~Refused(c)
    /\ completions' \in {completions, Append(completions, RecordOf(c))}
    /\ poisoned' = TRUE
    /\ phase' = "idle" /\ current' = {}
    /\ UNCHANGED durable /\ Quiet

FlushSucceeds ==
    /\ phase = "flush"
    /\ Log!Barrier
    /\ phase' = "reply"
    /\ UNCHANGED <<poisoned, current>> /\ Quiet

FlushFails ==
    /\ phase = "flush"
    /\ poisoned' = TRUE
    /\ phase' = "idle" /\ current' = {}
    /\ UNCHANGED <<completions, durable>> /\ Quiet

(* The response goes out, unless the message limit refuses it or the send  *)
(* fails.                                                                  *)
Reply(c) ==
    /\ phase = "reply"
    /\ \E sent \in SUBSET Response(c.request, ResponseId, c.request.type, c.request.schema,
                                   c.outcome, limits.max_message) :
          answers' = IF Key(c.request) \in forgotten THEN answers ELSE answers \cup sent
    /\ phase' = "idle" /\ current' = {}
    /\ UNCHANGED <<config, table, limits, completions, durable, poisoned, pending, working,
                   forgotten>>

---------------------------------------------------------------------------
(* The process stops: the table and the evaluations are gone, and with     *)
(* them any part of the log no barrier covers.                             *)
Stop ==
    /\ phase # "down"
    /\ Log!Lose
    /\ phase' = "down"
    /\ table' = Empty /\ pending' = 0 /\ poisoned' = FALSE
    /\ current' = {} /\ working' = {}
    /\ UNCHANGED <<config, limits, answers, forgotten>>

(* A process starts: the file is validated, the log is opened, which a     *)
(* record over the record limit refuses, and replay() sets a barrier.      *)
Restart(raw) ==
    /\ phase = "down"
    /\ Adopt(raw)
    /\ \A i \in DOMAIN completions : Size[completions[i].outcome] <= raw.wal.max_record
    /\ Log!Barrier
    /\ phase' = "idle" /\ pending' = Len(completions)
    /\ UNCHANGED <<table, poisoned, current, working, answers, forgotten>>

(* restore_completed on the next record; an error does not end recovery.   *)
RestoreNext ==
    /\ phase = "idle" /\ pending > 0
    /\ LET r == completions[Len(completions) - pending + 1]
       IN  /\ table' = Restore(table, r)
           /\ Forget(Evicted \cup {k \in {r.key} : ~Completed(table', k)})
    /\ pending' = pending - 1
    /\ UNCHANGED <<config, limits, completions, durable, poisoned, phase, current, working>>

Next ==
    \/ Idle /\ \E e \in Arrivals : DeliverNew(e) \/ DeliverReplay(e)
    \/ \E e \in working : Fail(e) \/ \E o \in Outcomes : Finish(e, o)
    \/ \E c \in current : AppendSucceeds(c) \/ AppendRefused(c) \/ AppendFails(c) \/ Reply(c)
    \/ FlushSucceeds \/ FlushFails
    \/ Stop \/ RestoreNext
    \/ \E raw \in Files : Restart(raw)

Spec == Init /\ [][Next]_vars

---------------------------------------------------------------------------
(* An answer is kept: once a response went out, the table holds exactly    *)
(* its outcome for its request, across failed appends, copies, retries and *)
(* restarts, until the key is evicted or recovery refuses it               *)
(* (docs/PROJECT_PLAN.md:174).                                             *)
AnsweredIsRetained ==
    Idle => \A a \in answers :
        \E k \in Present(table), c \in a.correlation :
            k = <<a.cluster, a.destination, c>> /\ table.entries[k].state = a.payload

(* A reservation has an owner: somebody is evaluating its request and will *)
(* complete or abort it.  The one exception is a key that recovery         *)
(* reserved for a logged outcome above the configured limit, which nobody  *)
(* will ever release (dedup.rs:310, docs/PROJECT_PLAN.md:177).             *)
ReservationsAreOwned ==
    \A k \in Keys : Reserved(table, k) =>
        \/ \E e \in working : Matches(k, Fingerprint(e)) /\ Key(e) = k
        \/ \E i \in DOMAIN completions :
              completions[i].key = k /\ Size[completions[i].outcome] > config.max_outcome

(* Whatever the table retains can be logged and sent back under the        *)
(* configuration in force, also right after a restart under another one.   *)
RetainedOutcomesFit ==
    \A k \in Keys : Completed(table, k) =>
        /\ Size[table.entries[k].state] <= limits.max_message
        /\ Size[table.entries[k].state] + FrameOverhead <= limits.max_record

Running == Idle /\ phase' # "down"

(* Work in progress never loses its reservation to the eviction of other   *)
(* entries: a reserved key leaves only on its own, by its abort.           *)
ReservationsAreKept ==
    [][Running => \A k \in Keys :
          Reserved(table, k) /\ k \notin Present(table') =>
              Present(table') = Present(table) \ {k}]_vars

(* A completed entry never changes, and eviction takes the oldest first:   *)
(* no completed entry leaves while an older completed one stays.           *)
OldestLeavesFirst ==
    [][Running => \A k \in Keys : Completed(table, k) =>
          IF k \in Present(table')
          THEN table'.entries[k] = table.entries[k]
          ELSE \A j \in Keys :
                  /\ Completed(table, j)
                  /\ table.entries[j].seq < table.entries[k].seq
                  => j \notin Present(table')]_vars

(* The outcomes announced, under the keys of their requests.               *)
Announced ==
    UNION {{[key |-> <<a.cluster, a.destination, c>>, outcome |-> a.payload] :
               c \in a.correlation} : a \in answers}

Service == INSTANCE IdempotentService WITH answered <- Announced

(* The path implements the idempotent service: whatever is delivered again *)
(* or at the same time, whichever write fails and wherever the node stops  *)
(* and recovers, the clients see one outcome for a key until it is evicted *)
(* or not restored (docs/PROJECT_PLAN.md:155-181).                         *)
PromiseKept == Service!Spec

---------------------------------------------------------------------------
(* What follows concerns functions, not the state: it is evaluated before  *)
(* the first start of the node.                                            *)
NotStarted == limits.max_message = 0

(* Conversion at the service boundary is faithful both ways: no accepted   *)
(* wire form is changed by it (a u32 cast to u16, a lost or defaulted      *)
(* field, an empty correlation taken for none), so that what is sent on is *)
(* what was received (into_core, from_core).                               *)
WireRoundTrip == NotStarted =>
    \A limit \in {raw.transport.max_message : raw \in Files} : RoundTrips(Wires, limit)

(* The fingerprint tells two requests under one key apart exactly when     *)
(* they differ in more than the attempt: a retry is recognized, and a      *)
(* reused message ID with other contents is not mistaken for one           *)
(* (docs/PROJECT_PLAN.md:148-149, :298).                                   *)
FingerprintsSeparate == NotStarted =>
    /\ Separates(Envelopes)
    /\ \A e \in Envelopes : \A r \in Retry(e) :
          Fingerprint(r) = Fingerprint(e) /\ Key(r) = Key(e) /\ SameContents(r, e)

(* The one pass of validate_members over the map, which reports as it goes *)
(* and forgets what it refused, finds exactly what is wrong with the       *)
(* membership as a whole: it accepts a sound one only, reports a shared    *)
(* endpoint whatever the names that share it, and misses the local node    *)
(* just when no sound entry has its name.                                  *)
MembersJudgedRight == NotStarted =>
    \A members \in Memberships, local \in UNION {DOMAIN m : m \in Memberships} :
        JudgedRight(members, local)

===========================================================================
