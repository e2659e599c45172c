---------------------------- MODULE NodeConfig ----------------------------
(***************************************************************************)
(* The validation of a node's configuration: NodeConfig::try_from with the *)
(* conversions it calls, and the member map's deserialization.  The result *)
(* is the set of all faults; a configuration without faults is accepted.   *)
(*                                                                         *)
(* A URL is a record of what Url::parse found, with its canonical text; a  *)
(* cluster ID is the set of the bytes Uuid::parse_str returned; a listen   *)
(* address says whether it parses.                                         *)
(***************************************************************************)
EXTENDS Identifiers, Integers, FiniteSets

CONSTANTS
    MinRecord, MaxRecord,   \* MIN_RECORD_BYTES, MAX_RECORD_BYTES
    MaxMessage,             \* MAX_MESSAGE_BYTES
    MaxTimeout,             \* MAX_TIMEOUT_MILLIS
    MinTotal, MaxTotal,     \* MIN_ and MAX_TOTAL_OUTCOME_BYTES
    MaxU32,                 \* u32::MAX
    FrameOverhead           \* WAL_FRAME_OVERHEAD_BYTES

ASSUME RangesAssumption ==
    /\ {MinRecord, MaxRecord, MaxMessage, MaxTimeout,
        MinTotal, MaxTotal, MaxU32, FrameOverhead} \subseteq Nat
    /\ MinRecord <= MaxRecord /\ MinTotal <= MaxTotal

Fault(field, index, code) == [part |-> "node", field |-> field, index |-> index, code |-> code]

Unless(ok, field, index, code) == IF ok THEN {} ELSE {Fault(field, index, code)}

InRange(ok, field) == Unless(ok, field, 0, "out_of_range")

(* extend_prefixed                                                         *)
Prefixed(part, faults) == {[f EXCEPT !.part = part] : f \in faults}

(* PeerEndpoint::parse: the first rule a URL breaks.                       *)
EndpointRules(url) ==
    << <<url.parses,         "invalid_url">>,
       <<url.web,            "invalid_scheme">>,
       <<url.host,           "missing_host">>,
       <<~url.credentials,   "credentials_not_allowed">>,
       <<~url.query,         "query_not_allowed">>,
       <<~url.fragment,      "fragment_not_allowed">> >>

EndpointFault(url) ==
    LET rules == EndpointRules(url)
        broken == {i \in DOMAIN rules : ~rules[i][1]}
    IN  {rules[i][2] : i \in {j \in broken : \A k \in broken : j <= k}}

AtEndpoint(url, field, index) == {Fault(field, index, code) : code \in EndpointFault(url)}

---------------------------------------------------------------------------
(* WalConfig::try_from; max_unsynced is meaningful in the batch mode only. *)
WalFaults(raw) ==
    Unless(raw.directory # << >>, "directory", 0, "empty")
    \cup InRange(raw.max_record \in MinRecord .. MaxRecord, "max_record_bytes")
    \cup Unless(raw.mode = "batch" => raw.max_unsynced \in 1 .. MaxU32,
                "sync_policy.max_unsynced_records", 0, "zero")

(* TransportConfig::try_from                                               *)
TransportFaults(raw) ==
    Unless(raw.listen_parses, "listen_address", 0, "invalid_socket_address")
    \cup AtEndpoint(raw.advertised, "advertised_url", 0)
    \cup InRange(raw.request_timeout \in 1 .. MaxTimeout, "request_timeout_ms")
    \cup InRange(raw.connect_timeout \in 1 .. MaxTimeout, "connect_timeout_ms")
    \cup InRange(raw.max_message \in 1 .. MaxMessage, "max_message_bytes")

(* DedupConfig::try_from                                                   *)
DedupFaults(raw) ==
    LET outcome == raw.max_outcome \in 1 .. MaxTotal
        total == raw.max_total \in MinTotal .. MaxTotal
    IN  InRange(raw.max_entries \in 1 .. MaxU32, "max_entries")
        \cup InRange(outcome, "max_outcome_bytes")
        \cup InRange(total, "max_total_outcome_bytes")
        \cup Unless(outcome /\ total => raw.max_outcome <= raw.max_total,
                    "max_total_outcome_bytes", 0, "less_than_max_outcome_bytes")

---------------------------------------------------------------------------
(* deserialize_members: a name given twice refuses the file.               *)
Deserialized(pairs) ==
    LET names == [i \in DOMAIN pairs |-> pairs[i].name]
    IN  IF \E i, j \in DOMAIN pairs : i # j /\ names[i] = names[j] THEN {}
        ELSE {[n \in Range(names) |-> pairs[CHOOSE i \in DOMAIN pairs : names[i] = n].url]}

(* The order of strings, by bytes.                                         *)
Before(a, b) ==
    \/ Len(a) < Len(b) /\ SubSeq(b, 1, Len(a)) = a
    \/ \E i \in DOMAIN a \cap DOMAIN b :
          a[i] < b[i] /\ SubSeq(a, 1, i - 1) = SubSeq(b, 1, i - 1)

(* The order in which a BTreeMap visits its keys.                          *)
InOrder(names) ==
    CHOOSE s \in [1 .. Cardinality(names) -> names] :
        \A i, j \in DOMAIN s : i < j => Before(s[i], s[j])

(* Faulty: the canonical texts of refused members are not remembered.      *)
JudgeForgetful(names, members, judged, i) ==
    LET name == names[i]
        url == members[name]
        sound == EndpointFault(url) = {}
    IN  [kept |-> judged.kept \cup (IF IsNodeId(name) /\ sound THEN {name} ELSE {}),
         seen |-> judged.seen \cup (IF IsNodeId(name) /\ sound THEN {url.canonical} ELSE {}),
         faults |-> judged.faults
             \cup Unless(IsNodeId(name), "members.node_id", i, "invalid_node_id")
             \cup AtEndpoint(url, "members.endpoint", i)
             \cup Unless(sound => url.canonical \notin judged.seen,
                         "members.endpoint", i, "duplicate_endpoint")]

(* One round of the loop of validate_members: the i-th member in the       *)
(* map's order, counted from 1, after those judged.                        *)
Judge(names, members, judged, i) ==
    LET name == names[i]
        url == members[name]
        sound == EndpointFault(url) = {}
    IN  [kept |-> judged.kept \cup (IF IsNodeId(name) /\ sound THEN {name} ELSE {}),
         seen |-> judged.seen \cup (IF sound THEN {url.canonical} ELSE {}),
         faults |-> judged.faults
             \cup Unless(IsNodeId(name), "members.node_id", i, "invalid_node_id")
             \cup AtEndpoint(url, "members.endpoint", i)
             \cup Unless(sound => url.canonical \notin judged.seen,
                         "members.endpoint", i, "duplicate_endpoint")]

(* The loop of validate_members, after each of its rounds.                 *)
Judged(members) ==
    LET names == InOrder(DOMAIN members)
        judged[i \in 0 .. Cardinality(DOMAIN members)] ==
            IF i = 0 THEN [kept |-> {}, seen |-> {}, faults |-> {}]
            ELSE Judge(names, members, judged[i - 1], i)
    IN  judged

(* validate_members: the local node is looked for among the members kept,  *)
(* if its own name is valid.                                               *)
MemberFaults(members, local) ==
    LET judged == Judged(members)[Cardinality(DOMAIN members)]
    IN  judged.faults \cup Unless(IsNodeId(local) => local \in judged.kept,
                                  "members", 0, "missing_local_node")

(* What is wrong with a membership as a whole is found by the one pass     *)
(* over it, which reports as it goes and forgets what it refused.          *)
JudgedRight(members, local) ==
    LET faults == MemberFaults(members, local)
        codes == {f.code : f \in faults}
        names == DOMAIN members
        Sound(n) == EndpointFault(members[n]) = {}
        Shared == \E m, n \in names :
            m # n /\ Sound(m) /\ Sound(n) /\ members[m].canonical = members[n].canonical
        Missing == IsNodeId(local) /\ ~(local \in names /\ Sound(local))
    IN  /\ "duplicate_endpoint" \in codes <=> Shared
        /\ "missing_local_node" \in codes <=> Missing
        /\ faults = {} <=> ~Shared /\ ~Missing /\ \A n \in names : IsNodeId(n) /\ Sound(n)

---------------------------------------------------------------------------
ClusterFaults(parsed) ==
    Unless(parsed # {}, "cluster_id", 0, "invalid_uuid")
    \cup Unless(\A bytes \in parsed : IsOpaque(bytes), "cluster_id", 0, "zero")

(* Faulty: the outcome limit is not compared with the message limit.       *)
LimitFaultsPartial(raw) ==
    Unless(WalFaults(raw.wal) = {} /\ TransportFaults(raw.transport) = {}
              => raw.transport.max_message + FrameOverhead <= raw.wal.max_record,
           "transport.max_message_bytes", 0, "exceeds_wal_record_limit")

(* The limits are compared across parts only when both parts are sound.    *)
LimitFaults(raw) ==
    Unless(WalFaults(raw.wal) = {} /\ TransportFaults(raw.transport) = {}
              => raw.transport.max_message + FrameOverhead <= raw.wal.max_record,
           "transport.max_message_bytes", 0, "exceeds_wal_record_limit")
    \cup Unless(DedupFaults(raw.dedup) = {} /\ TransportFaults(raw.transport) = {}
                   => raw.dedup.max_outcome <= raw.transport.max_message,
                "dedup.max_outcome_bytes", 0, "exceeds_message_limit")

(* NodeConfig::try_from, on the deserialized members.                      *)
Faults(raw, members) ==
    ClusterFaults(raw.cluster)
    \cup Unless(IsNodeId(raw.node), "node_id", 0, "invalid_node_id")
    \cup MemberFaults(members, raw.node)
    \cup Prefixed("wal", WalFaults(raw.wal))
    \cup Prefixed("transport", TransportFaults(raw.transport))
    \cup Prefixed("dedup", DedupFaults(raw.dedup))
    \cup LimitFaults(raw)

Accepted(raw) == \E members \in Deserialized(raw.members) : Faults(raw, members) = {}

===========================================================================
