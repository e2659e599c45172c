# iron-consensus: a TLA+ verification project

This directory holds TLA+ models of the iron-consensus workspace (`src/`), TLC
configurations that check them on small instances, and TLAPS proofs of the
theorems that matter most. Paths below are relative to `src/`; crates live
under `crates/`.

Checking one run: `tlc -config MCWal.cfg MCWal`. Checking one proof module:
`tlapm WalProofs.tla`. `PROJECT.json` lists every run with its properties, the
hazards the properties are for, the source lines each definition stands for, the
theorems, and for every property a mutant: a plausible bug of the code under
which that property fails. The mutants are the operators commented `Faulty:` in
the modules; no specification uses them.

## 1. Inventory

| component | state | operations | hard behaviour |
|---|---|---|---|
| **iron-wal** (`writer.rs`, `reader.rs`, `format.rs`, `record.rs`) | a file of checksummed frames, an exclusive lock, and the writer's cached `last_lsn`, `valid_length`, `durable_through`, `unsynced_records`, `poisoned` | `open` (create, lock, sync, scan, repair), `append`, `flush`, `replay` | several processes race to open; write and sync fail halfway; power is lost with any subset of the unsynced data on disk |
| **iron-runtime** (`lib.rs`) | one protocol machine, one WAL, poisoned or not | `recover`, `handle` / `commit_transition` | the protocol changes before its record is written; crash or failure between append, flush and each action |
| **iron-2pc** | coordinator phase and prepared set; participant phase | `begin`, `vote_prepared`, `vote_abort`, `prepare`, `commit`, `abort`, rebuilding the coordinator | repeated and stale votes, a coordinator that restarts undecided, late decisions |
| **iron-3pc** | the same with a pre-commit round | the above with `precommitted` and the two timeouts | a timeout on either side racing the other side's answer |
| **iron-core `DedupTable`** (`dedup.rs`) | entries, FIFO of insertions, retained bytes, last sequence | `begin`, `complete`, `abort`, `restore_completed` | eviction under two bounds at once, exhausted sequence, recovery from a log whose keys repeat, under another configuration |
| **iron-raft** | role, term, vote, log, commit index, acks | `tick`, `propose`, `request_vote`, `vote`, `append_entries`, `append_response` | messages of several terms late, lost or twice; logs that diverge |
| **iron-multipaxos** | round, promise, accepted values, promises and votes collected | `start_round`, `propose`, `receive`, `restore_accepted` | competing proposers, votes of older rounds, a node rebuilt from its accepted values only |
| **iron-testkit network** (`network.rs`, `driver.rs`, `fault.rs`, `clock.rs`) | clock, queue, held deliveries, rules, partitions, crashed nodes | `send`, `add_fault`, `partition`, `heal`, `crash`, `restart`, `release_reordered_at`, `pop_delivery` | rules that overlap; scheduling that fails in the middle of a call; clock and counter at their limit |
| **iron-protocol**, **iron-transport** | contracts: the `Protocol` and `Transport` traits and their validated data types | none of their own | the durability and at-least-once promises the others rely on |
| **iron-core** configuration (`config.rs`, `limits.rs`) | immutable validated values | `NodeConfig::try_from` and the conversions it calls | limits that contradict each other across parts; members judged one by one; a restart under another file than the log was written under |
| **iron-core** values (`envelope.rs`, `id.rs`, `error.rs`) | immutable validated values | constructors, `response_v1`, `retry`, fingerprints, identifier grammars | two contents under one fingerprint, or two fingerprints of one request |
| **iron-grpc** | none | conversion to and from protobuf, a served callback | a narrowing integer, a field that is absent, empty or zero |
| **binaries** (`iron-coordinator`, `iron-participant`, `iron-consensus-node`) | one state machine in a mutex | dispatch of some of its calls | they drop the messages the machine returns and persist nothing |

How they interact. `NodeRuntime` owns a protocol and a WAL: it calls
`protocol.handle`, appends the returned record, flushes, then performs the
actions through the application's effect handler. A restart replays the WAL
through `protocol.apply_record`. The dedup table belongs to the owner of a
protocol, is rebuilt from the same WAL, and decides whether a request is run; the
gRPC service validates what reaches it, under limits from the configuration.
The four protocol cores do no I/O: they are called with messages and return
messages, and the caller's transport may lose, repeat, delay and reorder these
(`iron-transport` promises at-least-once, unordered). The simulated network of
the test kit is such a transport, with a script of faults.

What makes each component correct:

* WAL: one writer; the writer's cached position is the file's; what was
  reported durable is on disk and is never lost, rewritten or given another LSN;
  repair cuts only what is incomplete.
* Runtime: no action before its record is durable, actions in the order of the log, and what an
  action reveals is what a recovery would rebuild, but for transitions whose append failed.
* 2PC, 3PC: one outcome, decided only as the votes allow, never revised; who may
  block, and when.
* Dedup: both bounds hold, queue and map agree, work in progress is never
  evicted and always has somebody who works on it.
* A request's whole way: an outcome that was answered is durable, and is what every
  later copy of the request gets, until it is evicted; retained outcomes always fit
  the limits in force.
* Configuration, envelope, wire form: what is accepted is consistent as a whole;
  a conversion changes nothing it accepts; a retry, and nothing else, has
  its request's fingerprint.
* Raft: one leader per term, final votes, matching logs, commits within the log and
  behind the answers of a majority.
* Multi-Paxos: no proposal without a promised majority, no decision without
  votes, one value decided per ballot and promises kept by the nodes that stay up.
* Simulated network: time never goes back, untouched messages stay in order, no
  copy disappears without a reason.

The hazards, 40 of them at their lines, are in `PROJECT.json`.

## 2. Modules

| module | what it is |
|---|---|
| `DurableLog` | abstract: a log that grows at its end, a durable prefix that never shrinks, and a loss that cuts anything behind that prefix |
| `Wal`, `MCWal` | `FileWal` and the file system under it; implements `DurableLog` |
| `WalProofs` | proofs about `Wal` |
| `NodeRuntime`, `MCNodeRuntime` | the runtime, composed over an instance of `DurableLog` |
| `NodeRuntimeProofs` | proofs about `NodeRuntime` |
| `AtomicCommit` | abstract: participants that reach one outcome, commit only when all were ready |
| `TwoPhaseCommit`, `ThreePhaseCommit` | the two commit protocols; each implements `AtomicCommit` |
| `TwoPhaseCommitProofs`, `ThreePhaseCommitProofs` | their proofs, including that implementation |
| `IdempotentService` | abstract: one outcome per key, for every retry of it, until the key is forgotten |
| `Identifiers`, `Envelope`, `NodeConfig` | pure operators: identifier grammars, the envelope with its wire form, and the validation of a configuration |
| `Selection` | keeping part of a sequence by positions, without recursion, so that it can be reasoned about |
| `DedupTable` | the dedup table: its algorithms and calls |
| `RequestPath`, `MCRequestPath` | a request's way through one node: composes `DedupTable`, `Envelope` and `NodeConfig` with the runtime's steps over an instance of `DurableLog`; implements `IdempotentService` |
| `RequestPathProofs` | proofs about `RequestPath` and what it composes: `DedupTable`, `Envelope`, `NodeConfig` and `Selection` |
| `Raft`, `MCRaft`, `RaftProofs` | the Raft core, and its proofs: elections first, then the logs that rest on them |
| `MultiPaxos`, `MCMultiPaxos`, `MultiPaxosProofs` | the Multi-Paxos core |
| `SimulatedNetwork`, `MCSimulatedNetwork`, `SimulatedNetworkProofs` | the test kit's network, and its proofs |

### Wal

The file is split into what a program reads (`exists`, `file`, `tail`) and what
a power loss is sure to leave (`entry`, `synced`, `stable`). A file is a
sequence of frame-sized pieces and an incomplete piece after them; offsets are
counted in frames, so `valid_length` is a number of frames. A piece is a valid
frame when its LSN is its position. The checksums of `format.rs` make any other
content recognisable, so everything else is `Junk`. An incomplete piece keeps
how much of it there is (up to 2 units of header, and the payload's units
behind them) and the payload length a complete header announces, because
`scan` treats the two cases differently.

`open` is one action for each point where another process or a crash may
intervene: `CheckPath`, `OpenFile`, `TryLock`, `SyncNewFile`,
`SyncDirectory`, then one of `ScanClean`, `ScanRepairs`, `RepairSyncFails` and a
refusal. `append` is the lock holder's, so it is one step; its outcomes are
`AppendSynced`, `AppendUnsynced`, `AppendSyncFails`, `AppendOverflows` (the
unsynced count is full after the write) and `AppendWriteFails`. `flush` succeeds or
fails, `replay` compares the file with the cached position, `Exit` is the end of
a process at any point, and `PowerLoss` keeps what is certain, some of the rest,
and may tear or unlink. `confirmed` is a history variable: the records a
successful sync was reported to cover.

Assumed of the file system: pages that a failed `sync_data` did not
write stay dirty, so that a later success covers them. `FsyncPersistsEntry` says
whether syncing a file also persists the directory entries on its path, as common journaling
file systems do; with FALSE, only `sync_directory` does, and only that of the file.
`DirectoryPersisted` says whether the WAL's directory was there, and on the platter, before:
`create_dir_all` (`writer.rs:103`) makes a missing one and nothing syncs its parent. The runs take
it as FALSE. The errors of `append` before `write_all` (`writer.rs:181-196`) change neither file
nor writer and are no steps here; they matter to the callers and are in their modules.

### NodeRuntime

`handle` takes `&mut self`, so one event runs at a time, but each of its await
and failure points is a step: `HandleRecorded` / `HandleUnrecorded` (the
protocol's own change), then `Append...`, `Flush...`, `RunAction`, `Finish`.
`Crash` and `PowerLoss` may come between any two. The protocol is any
deterministic machine that keeps the `Protocol` contract, so its state is the
sequence of recorded events it applied. The WAL is the instance `Log` of
`DurableLog`, plus the writer's poisoning. An append may return an error in two ways:
`AppendFails`, from `write_all` on, poisons the writer; `AppendRefused`, before it, does not and leaves nothing
behind (`writer.rs:181-196`). Size, last LSN and poisoning force the second (`Refused`), and an encoding or seek
error makes it possible for any record. Both are a transition the protocol made and the log does not count (`Forsake`).
`failed` is the history of their positions, `executed` that of every action with the state it could
reveal.

### TwoPhaseCommit, ThreePhaseCommit

One action per handler of coordinator and participant. `msgs` is the set of
everything sent so far, and nothing leaves it. An action's messages are each attempted once, and any of
them may be lost. In 3PC a handler may take any message of `msgs`, which covers delay, reordering and
duplication at once. In 2PC a handler takes a copy that is under way (`inflight`), `TurnUp` brings a
late or repeated copy of anything sent before, and `Unheeded` is a message that its handler refuses or answers without
effect; `missed` is the history of messages whose last copy was lost or came in vain. The distinction is there for liveness:
what must arrive is a copy under way, not a copy that nobody sends.
The crate asks its caller to persist a decision before sending it
(`crates/iron-2pc/src/lib.rs:57`), so a handler's state is durable before its
messages and a crash in between looks like a lost message. An undecided
coordinator has persisted nothing; its restart is `Restart`. In 3PC the two
timeouts may fire at any time.

### Identifiers, Envelope, NodeConfig

Functions without state. A byte is a number and a string the sequence of its bytes;
a call that may fail returns the set of its results, which is empty when it fails.
`Envelope` has `try_from_version`, `response_v1`, `retry`, the fingerprint, the two
conversions of iron-grpc and `Delivered`, what the served `deliver` hands on. SHA-256 is
taken to be injective, so the fingerprint is the byte string that is hashed; a length
prefix is one element, and the constant magic and version before the fields are left out. `NodeConfig` returns the set of all faults of a file, each
with part, field, member index and code, as `ValidationErrors` lists them; members are judged
in the order of the map (`InOrder`), one round of the loop after the other (`Judged`), with what
the loop remembers. A URL is a record of what the
`url` crate found in it.

### DedupTable

The table is a record with the four fields of the struct. Calls that only
report change nothing and are no steps. `VecDeque::remove` at chosen positions is
`Keep` of `Selection`; the run checks on samples that it agrees with `SelectSeq`, which
the prover cannot see through. Bytes are counted as the elements of `OutcomeBytes`. `Reserve`, `Store` and `EvictOldest` are
pure helpers, so that `Restore` is the composition the source has: `begin`, then
`complete`.

### RequestPath

The table has no owner in `src/` yet; `docs/PROJECT_PLAN.md:155-181` describes it and
`foundation_recovery.rs` plays it. Here it is a protocol of `NodeRuntime`:
one event at a time, `DeliverNew`, `DeliverReplay`, `Finish` or `Fail`, and then
`commit_transition` with a step at each call that may fail. Since the runtime refuses
actions without a record (`UndurableEffects`, `iron-runtime/src/lib.rs:88`), a
replayed outcome is logged again before it is answered. As in the test, a record's
payload is the outcome, and recovery knows key and fingerprint.

Requests are what remote nodes have sent. Each, or a retry of it, may arrive any
number of times, and only if the service accepts it. `Stop` is a crash or a power loss at
any point; `Restart` picks any file that validation accepts, and `RestoreNext` is one
`restore_completed`. `answers` and `forgotten` are histories: the responses that
went out, and the keys whose outcome was evicted or refused by recovery. Seen by a client
these two are all there is: with them as its state, `RequestPath` implements
`IdempotentService` (`PromiseKept`), which knows of no table, log, failure or restart.

### Raft

One action per handler, outcome and node. A term newer than one's own is
adopted first, as `become_follower` does. Every `AppendEntries` of this code
carries the whole log from index 0, so `prev_log_index` is always 0; `next_index`
is written and never read; both are left out. Refusals matter to
their receiver only by a later term, and are one message type. Nodes do not crash, since the
crate cannot restore a term or a vote.

### MultiPaxos

Each node is proposer, acceptor and learner. Node ids are numbers, because their
order breaks the ties of ballots. What a node sends itself travels like any
message, except its own `Prepare`, which the code never sends. The crate leaves the
value to its caller; `Careful` restricts the caller to what `accepted()` reports,
and to one value per slot and ballot as far as it remembers: `proposals` is what it proposed
in the current round, and is lost with the node. `Restart` rebuilds a node with
`restore_accepted`, which brings back, for each slot, what `accepted()` last reported or the newest value the node
voted for, and nothing else; only the nodes of `Crashing` restart. A rebuilt proposer is at round 0 and
uses its ballots again, with other values if its caller likes.

### SimulatedNetwork

One action per method; a mutex makes each call atomic. Of a message the routing
matters: ordinal, source, destination. `queue` and `held` are the
driver's heap and the reorder map; sends beyond the clock or counter limits are
partial, as in the code: the copies scheduled before the failure stay. A count of
copies that overflows schedules none.
`delivered` and `discarded` are histories.

## 3. Runs

States are distinct states found by TLC.

| run | question | instance | states |
|---|---|---|---|
| `wal` | Is the log right through races, failures and power losses? | 2 processes, an empty and a two-unit record, 3 configurations (Always, Batch of 2, Manual; Reject and Truncate; two record limits), 3 LSNs, unsynced limit 2 | 27 thousand |
| `wal_frontier` | violation, see findings | the same | |
| `runtime` | Effects logged and ordered, and how far may what they reveal be ahead of the log? | 3 recorded events (2 actions, 1, and 1 with a record that is too large) and 2 stateless ones, 3 LSNs, 4 events between recoveries | 4.7 million |
| `runtime_refused` | violation, see findings | the same | |
| `two_phase` | Agreement under loss and restarts, and who may be left without an outcome? | 3 participants | 276 thousand |
| `three_phase` | Agreement with timeouts anywhere, and who may block? | 3 participants | 1.4 thousand |
| `requests` | Is an answer kept through failures, restarts and other configurations? Are bounds, bookkeeping and conversions right? Do clients see an idempotent service? | 4 requests on 3 keys (one key has two contents), outcomes of size 1 and 3, 4 files of which 3 are valid, table of 2 entries, 3 insertions, 3 records; 28,800 wire forms, 768 envelopes, 125 member maps of up to 3 names | 825 thousand |
| `raft` | One leader per term, matching logs, commits within logs and acknowledged? | 3 nodes, 2 of them tick, timeout 2, 2 terms, 2 entries, at most 17 messages | 497 thousand |
| `raft_commit` | violation, see findings | 2 ticking nodes, timeout 1, 3 terms, 1 entry, 23 messages | |
| `paxos` | Quorums, promises and one value per ballot with competing proposers and rounds, beside a node that restarts? | 3 nodes, 2 careful proposers, 1 slot, 2 commands, 2 rounds each, 1 proposer that may crash; messages: 18 of the other proposer alone, 15 of this one alone, 14 of both when they propose the same command | 510 thousand |
| `paxos_agreement` | violation, see findings | 2 careful proposers, 2 commands, 1 round each | |
| `network` | Order and accounting of scripted faults? | 2 nodes, 5 rules (reorder, delay, duplicate, a duplicate too many, drop) of which 2 are added, 1 cut, 3 attempts, 2 copies, ticks 0..2, 3 sequences | 2.7 million |

Why the bounds are enough. WAL: a third LSN behind a batch of two is the first
that is unsynced beside confirmed ones, and the last is the exhausted one; two
processes suffice for every race for one lock. Runtime: two recorded events with
more than one action let a failure fall between them, and a recovery then follows
on a log with and without the failed record; four events let a refused one, of any kind, stand before, between and
behind those that are logged. Commit protocols: with three
participants some but not all may have voted, and some but not all of the rest may
hear the outcome; their theorems hold for any number. Requests: three keys over two
entries force evictions, and two large outcomes force them by their bytes, so that a key
may complete, be evicted and be admitted again within three insertions; three records
let a replayed outcome follow two others into the log. The files differ in the limits a
restart may lower: below what is in the table's log (an outcome is then refused in
recovery), below the log's records (the log then does not open), and into a
contradiction (the file is refused). The functions are checked on samples that contain every
boundary of their conditions, once, before the node starts.
Raft: two terms with two candidates and a third node that only votes give split
votes and a deposed leader; two entries make logs that differ at the first index and
at the second; two elections and the replication of diverging logs fit into 17
messages. Paxos: two ballots compete, and a second round has promises and votes of
the first still in flight; the 14 messages allow two proposers to compete up to a decision.
While one proposer is silent, 18 messages allow the one that stays up to decide in its second
round with votes of its first one in flight and acceptors that forget; 15 allow the other to lose its memory after its
first ballot was voted on and to run a second life's ballot of the same number up to a decision. The bound on
messages holds back exploration, not the check: what the last explored state sends is checked.
Network: the counter runs out within the third send and within a duplication, and
the clock within a delay and a reorder.

Named bounds: `MaxLsn` and `MaxUnsynced` of `Wal`, `MaxSequence` of `DedupTable`,
`MaxCopies`, `MaxTick` and `MaxSequence` of `SimulatedNetwork`, `MaxTerm` of `Raft`,
`MaxRound` of `MultiPaxos`, `MaxAttempt`, `MaxU16` and `MaxText` of the pure modules stand for the largest integer of the code and keep the
code's behaviour at that limit where it has one. `MaxApplied`,
`MaxCompletions`, `MaxLog`, `MaxAttempts`, `MaxRules` only bound the instance, and so does
`MaxMessages`, `MaxAlone`, `MaxRestarting` and `MaxContended`, in state constraints of the MC modules.

Symmetry permutes, in `MCRaft`, the
nodes that tick and those that do not, each among themselves, and in `MCMultiPaxos` the
commands, between which neither the model nor the constraint tells a difference. No run with a
liveness property uses it.

Deadlock is checked except in the commit protocols, where a transaction ends
or blocks for good, and in `network`, where a script ends.

### Fairness

Only the commit protocols promise progress, and only of what the code and its contracts do once.

2PC: weak fairness on `Begin` (the caller starts the transaction) and on `Receive` of each message: a
copy that is under way arrives, and its handler runs. Nothing forces a lost message to be
sent again or a handled one to come again: `begin` refuses while votes are collected
(`iron-2pc/src/lib.rs:81`), there is no timeout, and a transport makes one attempt
(`iron-transport/src/transport.rs:6-11`). `TurnUp` may bring a copy and has no fairness, and there is
none about a coordinator restart.

3PC: weak fairness on `Begin` and on each coordinator handler and participant step: a message that is not lost and
stays deliverable is delivered. No handler of 3PC answers a message a second time, so this repeats nothing;
a message that was lost is never delivered.

* `Termination` (2PC): everybody reaches an outcome, unless the coordinator
  restarts for ever, or from some point on somebody always waits for a message that was lost or came in vain
  (`Missed`). That is a real exception at each message: a lost `Prepare`, vote or decision, or a `VoteAbort` that arrives
  between a restart and the next `begin`, leaves a coordinator collecting votes, or a prepared participant, for good.
  What the property excludes is that anything else stops the protocol, repeated and stale votes and
  restarts included.
* `CommitsUnlessAbortedOrLost` (3PC): the transaction commits everywhere unless
  somebody aborts or an answer of the last two rounds is lost, which nobody
  repeats.
* `OnlyPreCommitBlocks` (3PC): a timer that is armed fires, as the caller of
  `timeout` must arrange, so nobody stays in `Preparing`; a participant in
  `PreCommit` may stay there.

Raft and Multi-Paxos have no fairness: they promise no progress, and their
callers hold the only clock.

## 4. What is proved

TLAPS checks the following for every value of the constants. TLC checked each
inductive invariant on the instances above, or on slightly smaller ones.

| theorem | statement | argument |
|---|---|---|
| `WalProofs!WriterIsCoherent` | the type invariant, one lock owner, and an open writer's cached position equals the file's | `WriterInv` adds `PlatterCoherent` (what a power loss leaves is a prefix of the file, frame by frame) and `FileReachable` (no file under the lock without a path): the position is right after a power loss only because what survives is a prefix |
| `WalProofs!ConfirmedSurvives` | what a sync was reported to cover is on the platter, if `FsyncPersistsEntry` | on top of `WriterInv`; one lemma per kind of step: `Undisturbed` (files untouched), `SyncConfirms` (a sync covers the file the writer believes in, by coherence), `PowerLossConfirmed` |
| `WalProofs!ConfirmedIsForever` | no step loses or reassigns a confirmed LSN, under the same assumption | the action form of the same lemmas |
| `WalProofs!UnsyncedAreCounted` | `unsynced_records` is the number of frames behind the frontier, below the batch and within its width | inductive with `WriterInv`: a sync that succeeds moves the frontier to the end of the file the writer believes in |
| `WalProofs!ImplementsPromise` | the WAL implements `DurableLog`, under the same assumption | a step-by-step refinement on `WriterInv`: what a reader accepts is characterised by the first piece it refuses, which exists because the naturals are well founded (`ReadsSomewhere`, `ReadsOnce`); then `SyncIsBarrier`, `WriteIsAppend`, `DamageIsLoss` (only unsynced pieces go bad, and what was synced lies before them) and `PowerLossIsLoss` |
| `WalProofs!FramesStay` | no program's step removes or changes a whole frame | on `WriterInv`: coherence makes every truncation cut behind the last frame |
| `NodeRuntimeProofs!EffectsRunInOrder` | over the whole run, crashes included, each action is the first of a later record than the action before it or the next one of the same transition | `OrderInv` adds `OrderedSoFar`: before its first action a transition's record is behind those of all effects so far, and afterwards the last effect is its latest action |
| `NodeRuntimeProofs!WalBeforeEffects` | every action that ran belongs to a durable record | `EffectsInv` adds `PhaseInv`: in phase `effects` the last record is `current` and is durable |
| `NodeRuntimeProofs!RevealedStateStaysAccounted` | what an action reveals is, without the transitions whose append returned an error since the last recovery, the log up to its record, then and ever after | `RevealInv` adds `Accounts`: while the writer takes records, the protocol's state without the failed transitions is exactly the log; lemmas count the kept positions (`RankBounds`, `AccountedKept` and those beside them) |
| `TwoPhaseCommitProofs!ParticipantsAgree` | one outcome; an abort has a vote; announced decisions are the coordinator's | `CommitInv` ties messages to phases: a participant that sent Prepared stays ready until a decision, a counted vote was sent, Commit is sent only when all are counted |
| `TwoPhaseCommitProofs!DecisionsStayFinal` | no decision is revised | `CommitInv` and each action |
| `TwoPhaseCommitProofs!ImplementsPromise` | 2PC implements `AtomicCommit` | every step maps to a step or a stutter |
| `ThreePhaseCommitProofs!ParticipantsAgree` | one outcome, and nobody may still time out beside a commit | `CommitInv`: a commit means every participant has pre-committed, and a pre-committed one has no timeout |
| `ThreePhaseCommitProofs!ImplementsPromise` | 3PC implements `AtomicCommit` | as above |
| `RaftProofs!OneLeaderPerTerm` | at most one leader per term, for any finite set of nodes | `ElectionInv`: a node remembers the vote it sent in its term and never sent two, votes held were sent, and a leader holds a majority of them; two majorities meet (`MajoritiesMeet`, from `FiniteSetTheorems`) |
| `RaftProofs!VotesStayFinal` | terms never go back, and a vote does not change within its term | each action |
| `RaftProofs!CommitsWithinLogs` | no commit index beyond its log; types | `LogInv` adds the shape of messages and that who stands has a term; `MergedTyped` says that merging two logs gives a log |
| `RaftProofs!LogsStayMatched` | two logs that agree on a term at an index agree up to it | `MatchInv` speaks of all logs, those in messages included: each entry's term has an `Elected` node (evidence nothing takes away, and no rival), and a leader's log reaches every entry of its term, so that the entry it appends is new; logs that match merge into one of the two (`MergedChooses`) |
| `RaftProofs!LeadersOnlyAppend` | a leader never rewrites its log | the same invariant: a message of the leader's own term could only come from itself |
| `RaftProofs!QuorumsBehindCommits` | every commit index lies in its node's log, and a majority's success answers to one node stand behind it, one of them for a log that long | `CommitInv`: the answers a leader counts were sent to it, and the commit index an `AppendEntries` carries is backed as its sender's was; the clamp to one's own log only lowers it |
| `MultiPaxosProofs!TypesHold` | types | shapes of messages |
| `MultiPaxosProofs!QuorumsBehindProposals` | a majority of promises behind each proposal | `QuorumInv`: what a proposer counts was sent for its own ballots; a restart drops what was counted together with the round |
| `MultiPaxosProofs!QuorumsBehindDecisions` | a majority of votes behind each decision | the same invariant |
| `MultiPaxosProofs!PromisesStayKept` | a node that stays up never votes below its answers | `PromiseCovers`, and that ballots are totally ordered |
| `MultiPaxosProofs!BallotsStayDecided` | with careful callers, no slot is decided with two values under one ballot of a proposer that stays up, whichever others crash and forget | `BallotInv`: while its node is up a careful caller remembers what it proposed under the current ballot (`CallerRemembers`) and so proposes one value per slot (`CarefulProposal`), and whatever is voted for or decided under a ballot was proposed under it (`OnlyProposed`) |
| `RequestPathProofs!RetainedAlwaysFit` | every retained outcome fits the message and, framed, the record limit in force | `FitInv`: the table keeps outcomes only of at most `max_outcome`, which an accepted file relates to the other two limits; that `begin`, `complete` and `restore_completed` add no other outcome is a lemma each |
| `RequestPathProofs!AnswersAreDurable` | each response sent has a durable record of its outcome under its request's key (`AnswersAreLogged`, stated in the proof module) | `AnswerInv` adds `CommitLogged`: from `flush` on, the last record is the current completion, and in `reply` it is durable |
| `RequestPathProofs!ReservationsHaveOwners` | a reserved key is being evaluated, or its logged outcome is above the limit in force | inductive with `FitInv`; what each action does to the table is a lemma (`DeliverNewIs`, `FinishIs`, `FailIs`, `RestoreNextIs`), and a step that ends one key's evaluation leaves the others their owner (`OwnersRemain`) |
| `RequestPathProofs!WireFormIsFaithful` | `RoundTrips` for all wire forms and limits | no induction: `into_core` rearranges fields it has checked |
| `RequestPathProofs!FingerprintsAreFaithful` | `Separates` for any set of envelopes of the type (a correlation being one valid ID, if any) | each field is hashed behind its length, so what is hashed can be read back field by field (`Peel`, `NineFields`); an empty correlation cannot be a valid one |
| `RequestPathProofs!OrderAlwaysMatches` | the queue and the map of the table hold the same entries, each once, in increasing sequence | `BooksInv` with `OrderSound`; `RankNumbers` and `KeepIs` say what removing positions from a sequence leaves, and one lemma per call (`EvictKeepsOrder` to `AbortLeavesOrder`) |
| `RequestPathProofs!AlwaysWithinBounds` | both bounds hold and the byte counter is exact | `BooksInv` with `ConfigSound` (an accepted file's outcome limit fits its total) and `Bounded`; an eviction that is asked for a slot or for room finds it (`SlotFreed`, `RoomFound`), since `complete` never needs more than what the other completed entries hold |
| `RequestPathProofs!ReservationsAlwaysKept` | a reserved key leaves the running table alone or not at all | each call's entries, field by field (`EvictionIs` to `RestorationIs`): an eviction selects completed entries |
| `RequestPathProofs!OldestAlwaysLeavesFirst` | no completed entry leaves while an older one stays, and none changes | on `OrderSound`: positions are sequence order, and `First` takes the lowest (`EvictsOldestFirst`) |
| `RequestPathProofs!AnswersAreRetained` | what was answered can be answered again from the table, until its key is evicted or refused by recovery | `RetainInv` relates three histories: `LogAgrees` (records of one key that was not forgotten agree), `LogRestored` (the table is the log as far as recovery got) and `CommitRetained` (the transition on its way to the log repeats the table) |
| `RequestPathProofs!ImplementsIdempotentService` | the request path implements `IdempotentService` | step by step on `RetainInv`: the outcome being answered is what the table holds, what the table holds is what the log holds, and all earlier answers are in the log (`CommitsOneOutcome`); an eviction and a refused restoration are the service's `Forget` |
| `RequestPathProofs!MembershipJudgedRight` | `JudgedRight` for every member map of any size and every local name | the order of byte strings is strict and total, so that a finite map can be visited in order, each name once (`InOrderIs`); the recursive function has a value (`LoopExists`) and keeps `LoopInvariant`. Induction over the rounds is done with the least counterexample, by the well-foundedness of the naturals |
| `RequestPathProofs!WireAlwaysRoundTrips`, `FingerprintsAlwaysSeparate`, `MembersAlwaysJudgedRight` | the properties `WireRoundTrip`, `FingerprintsSeparate`, `MembersJudgedRight` of the run, whatever the samples | instances of `WireFormIsFaithful`, `FingerprintsAreFaithful`, `MembershipJudgedRight` |
| `SimulatedNetworkProofs!NetworkTyped` | types, and the clock and counter within their widths | `NetworkInv`, the one invariant of this module. A call schedules copies at the end of the sequence, moves some from one place to another, or refuses (`SentAs`, `ReleasedAs`, `Passes`): each kind of step is one lemma per conjunct |
| `SimulatedNetworkProofs!AlwaysDeliveredInOrder` | deliveries never go back in time | a copy is scheduled no earlier than `now` and behind every sequence number in use (`Numbered`), and `now` is past what was delivered (`Due`) |
| `SimulatedNetworkProofs!AlwaysUnfaultedInOrder` | untouched messages arrive as sent | `PlainInOrder`: the one copy of such a message is due at once, so that ticks and sequence numbers both grow with the sending |
| `SimulatedNetworkProofs!AlwaysOneShot` | a one-shot rule strikes one attempt, and is used up by it | `UsedOnce` |
| `SimulatedNetworkProofs!AlwaysCopiesAccounted` | every copy is in one place, or its release was refused | `HeldSound` (a held message is held once and has no copy) and `Accounted`; the four places are disjoint (`Numbered`), so that their sizes add up |

Assumptions: the named `ASSUME`s of the modules, all evaluated by TLC, and
those in the table.

`AnswersAreDurable` and `AnsweredIsRetained` complement each other: the first says the log
has what was answered, the second that the table, which recovery builds from the log by
`restore_completed`, gives it again.

Only model-checked:

* liveness (`Termination`, `CommitsUnlessAbortedOrLost`, `OnlyPreCommitBlocks`): temporal
  properties under fairness are out of the prover's reach.

Every invariant and action property of the passing runs is stated by a theorem or, as below,
a part of one. Three properties are proved without a run of their own, since one that is run
contains what they say or rests on it: `DecisionsAreFinal` (`ImplementsAtomicCommit`),
`VotesAreFinal` (`ElectionSafety`) and `CommitWithinLog` (a conjunct of `CommitsHaveAcks`).

The type invariants of `NodeRuntime`, the commit protocols, `Raft` and `MultiPaxos`, and
`LockOwner` and `TypeOK` of `Wal`, are parts of the invariants proved.

## 5. Findings

Each is a run that TLC finds violated, with what the repository says beside what its
code does; quotes and lines are in `PROJECT.json`.

1. `wal_frontier`: `open` takes `durable_through` from its scan, without a
   sync. Records left unsynced by a process that died are then reported durable
   and may still be lost (`writer.rs:140`, against `writer.rs:161`).
2. `runtime_refused`: a record the log refuses without poisoning, for its size or for an encoding or seek
   error, leaves the protocol changed and unlogged, and later actions reveal that state
   (`iron-runtime/src/lib.rs:82`). `RevealedStateIsAccounted` says how much of the claim is left.
3. `raft_commit`: a follower reports the length of its whole log, stale suffix
   included, as the match; a leader commits entries that follower does not hold,
   and two nodes commit different entries (`iron-raft/src/lib.rs:311`).
4. `paxos_agreement`: `start_round` counts its own promise but does not set
   `promised`; the node then accepts an older ballot, and a slot is decided twice
   (`iron-multipaxos/src/lib.rs:112`).

Smaller things the models show, which no run singles out:

* `open` syncs the directory only when the path did not exist before it; if the
  creator dies first, no later `open` does (`writer.rs:107`); and no `open` syncs the parent of a directory
  that `create_dir_all` made (`writer.rs:103`). With `FsyncPersistsEntry = FALSE`, `ConfirmedOnPlatter` fails for
  the first reason, and with `DirectoryPersisted = FALSE` also for the second.
* A proposer rebuilt by `restore_accepted` starts at round 0 and uses its ballots again
  (`iron-multipaxos/src/lib.rs:80-91`), and an old promise still answers them (`lib.rs:199`). With
  another value proposed in the second life, one ballot may decide a slot twice; `BallotsDecideOnce` is therefore about
  proposers that stay up.
* Recovery keeps the first completion of a key that was evicted and done again,
  so it may replay the older outcome (`dedup.rs:300`). `AnsweredIsRetained` is therefore
  about keys that were never forgotten.
* Recovery under a lowered outcome limit reserves a key before it refuses its outcome, and
  nobody releases the key (`dedup.rs:310`), though `docs/PROJECT_PLAN.md:177` has no
  incomplete reservation survive a restart. `ReservationsAreOwned` names this exception.
* A configuration that passes validation guarantees that an outcome fits a record
  only for records that carry nothing else: `config.rs:640-657` compares the
  message limit with the record limit, and an owner that logs key and fingerprint beside the
  outcome may exceed it.
* `release_reordered_at` takes messages out of `held` before scheduling them, and
  loses them when scheduling refuses (`network.rs:183`). `CopiesAccounted` says
  exactly when.
* The votes a proposer collected in an earlier round are still counted in the current one, so
  that a decision may go out for a ballot that few voted for (`iron-multipaxos/src/lib.rs:249`).
  `DecisionsHaveVotes` says what is left of the quorum. It takes no competition: the instance of
  `paxos_agreement` with `Proposers = {1}` and `MaxRound = 3` decides the slot twice for this
  reason. It and finding 4 are two causes, and each alone breaks agreement: with `promised` set
  in `start_round`, or with the votes cleared there, TLC still finds a slot decided twice by a
  single careful proposer.
* A follower takes the commit index of whichever `AppendEntries` it handles last, so that it may go
  back (`iron-raft/src/lib.rs:303`); and the answers a leader counts towards an entry may be older
  than the entry. `CommitsHaveAcks` is what is left of a commit's quorum.

The passing properties of Raft and Multi-Paxos are those that hold of the code
in spite of 3, 4 and the counted old votes; agreement itself is not among them. `CommitsHaveAcks` and
`BallotsDecideOnce` say how much of it is left.

## 6. Not modelled

* `wal_fixture.rs` (edits of files for tests; the damage is what power losses make),
  the seeded scenario, `Driver::retain` and `advance_by` of the test kit.
* Corruption of a synced frame: `scan` reports it and changes nothing.
* Numeric identifiers that no envelope carries, UUID text, the wording of errors, the
  default values of a configuration, and the parsing of TOML and URLs.
* The tonic client and server around iron-grpc's `deliver`. The binaries: they call some methods of
  one state machine under a mutex and drop the result.
* Raft after a restart, and single-node clusters: the crate has no operation for
  the first, and the second never elects anybody (the first is listed as a hazard).

## 7. Plan

Done, in this order: WAL, runtime over its abstraction, 2PC, 3PC, dedup, Raft,
Multi-Paxos, simulated network; then configuration,
envelope, wire form, and the request path that composes them with the table, the runtime's
steps and the log; theorems on each, the latest on what is left of agreement in Raft and
Multi-Paxos, on the request path as an idempotent service, and on the validation of members.

Left, models:

1. `scan` over a sequence of units instead of frames, checked against the
   frame-level definition `Wal` uses.
2. 2PC over `SimulatedNetwork`, the way the foundation tests drive it.

Left, theorems:

3. The commit protocols' participants once 2PC runs over `SimulatedNetwork`: that this network is one of
   those `TwoPhaseCommit` assumes, so that its theorems carry over.
