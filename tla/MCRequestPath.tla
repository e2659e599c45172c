--------------------------- MODULE MCRequestPath ---------------------------
(***************************************************************************)
(* Instances of RequestPath for TLC, and the properties of the pure        *)
(* functions under it, over the samples below.  Bytes: 1 and 2 are         *)
(* letters, 3 is the dash, 4 another mark, 5 is allowed nowhere.           *)
(***************************************************************************)
EXTENDS RequestPath

Small == <<1>>
Large == <<1, 1, 1>>
MCOutcomes == {Small, Large}
MCSize == [o \in MCOutcomes |-> Len(o)]
MCMarks == {3, 4}
MCResponseId == <<9>>

Request(message, payload, attempt) ==
    [cluster |-> <<1>>, source |-> <<1>>, destination |-> <<2>>, message |-> message,
     correlation |-> {}, protocol |-> <<1>>, type |-> <<2>>, schema |-> 1,
     attempt |-> attempt, payload |-> payload]

(* Three requests, one of them too long for the lowered message limit, and *)
(* a second request under the key of the first.                            *)
MCRequests ==
    {Request(<<1>>, <<1>>, 0), Request(<<2>>, <<1>>, MaxAttempt), Request(<<3>>, <<1, 1>>, MaxAttempt),
     Request(<<1>>, <<2>>, MaxAttempt)}
MCKeys == {Key(e) : e \in MCRequests}
MCFingerprints == {Fingerprint(e) : e \in MCRequests}

---------------------------------------------------------------------------
Url(canonical) ==
    [parses |-> TRUE, web |-> TRUE, host |-> TRUE, credentials |-> FALSE,
     query |-> FALSE, fragment |-> FALSE, canonical |-> canonical]

Member(name, url) == [name |-> name, url |-> url]

File(outcome, total, message, record) ==
    [cluster |-> {<<1>>}, node |-> <<1>>,
     members |-> <<Member(<<1>>, Url("a")), Member(<<2>>, Url("b"))>>,
     wal |-> [directory |-> <<"data">>, max_record |-> record, mode |-> "always", max_unsynced |-> 0],
     transport |-> [listen_parses |-> TRUE, advertised |-> Url("a"),
                    request_timeout |-> 1, connect_timeout |-> 1, max_message |-> message],
     dedup |-> [max_entries |-> 2, max_outcome |-> outcome, max_total |-> total]]

(* One small and one large outcome fill the table.                         *)
Roomy == File(3, 4, 3, 4)

(* A restart that lowers the outcome limit below what may be in the log,   *)
(* and one under whose record limit such a log does not open.              *)
Lowered == File(1, 2, 1, 3)
Strict == File(1, 2, 1, 2)

(* Refused: the outcomes do not fit into a message.                        *)
Crossed == File(3, 4, 1, 4)

MCFiles == {Roomy, Lowered, Strict, Crossed}

(* Keep selects as SelectSeq does.                                         *)
ASSUME KeepIsSelectSeq ==
    \A s \in UNION {[1 .. n -> 1 .. 3] : n \in 0 .. 4}, kept \in SUBSET (1 .. 3) :
        LET Test(x) == x \in kept
        IN  Keep(s, {i \in DOMAIN s : Test(s[i])}) = SelectSeq(s, Test)

---------------------------------------------------------------------------
MCWires ==
    [version : 0 .. 4, cluster : {<<1>>, <<0>>}, source : {<<1>>, <<1, 3>>, << >>},
     destination : {<<2>>, <<4>>}, message : {<<1>>, <<1, 1>>},
     correlation : {{}, {<< >>}, {<<1>>}, {<<0>>}}, protocol : {<<1>>, <<4>>, <<5>>},
     type : {<<2>>}, schema : 0 .. 4, attempt : 0 .. 1, payload : {<<1>>, <<1, 1>>}]

MCEnvelopes ==
    [cluster : {<<1>>}, source : {<<1>>, <<1, 1>>}, destination : {<<1>>, <<1, 1>>},
     message : {<<1>>, <<2>>}, correlation : {{}, {<<1>>}}, protocol : {<<1>>, <<1, 1>>},
     type : {<<1>>, <<1, 1>>}, schema : 1 .. 2, attempt : 0 .. 1,
     payload : {<< >>, <<1>>, <<1, 1>>}]

(* Names and endpoints good and bad; two endpoints share a canonical text. *)
MCUrls ==
    {Url("a"), Url("b"), [Url("a") EXCEPT !.query = TRUE],
     [Url("c") EXCEPT !.web = FALSE, !.fragment = TRUE]}
MCMemberships == UNION {[names -> MCUrls] : names \in SUBSET {<<1>>, <<2>>, << >>}}

===========================================================================
