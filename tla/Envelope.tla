----------------------------- MODULE Envelope -----------------------------
(***************************************************************************)
(* iron-core's Envelope and iron-grpc's wire form of it, as functions.     *)
(* A call that may fail returns the set of its result, empty if it fails;  *)
(* an optional field is a set of at most one value.                        *)
(***************************************************************************)
EXTENDS Identifiers

CONSTANTS
    MaxU16,          \* u16::MAX
    MaxAttempt       \* u32::MAX, the last delivery attempt

ASSUME WidthsAssumption == MaxU16 \in Nat \ {0} /\ MaxAttempt \in Nat

V1 == 1

Bytes == Seq(Nat)

EnvelopeType ==
    [cluster : Bytes, source : Bytes, destination : Bytes, message : Bytes,
     correlation : SUBSET Bytes, protocol : Bytes, type : Bytes,
     schema : Nat, attempt : Nat, payload : Bytes]

WireType ==
    [version : Nat, cluster : Bytes, source : Bytes, destination : Bytes, message : Bytes,
     correlation : SUBSET Bytes, protocol : Bytes, type : Bytes,
     schema : Nat, attempt : Nat, payload : Bytes]

(* A correlation is one valid message ID, if there is any.                 *)
Correlates(e) == \A c \in e.correlation : e.correlation = {c} /\ IsOpaque(c)

(* The payload is checked against the configured limit; every other field  *)
(* is valid by its type.                                                   *)
NewV1(fields, limit) == {e \in {fields} : Len(e.payload) <= limit}

TryFromVersion(version, fields, limit) ==
    IF version = V1 THEN NewV1(fields, limit) ELSE {}

(* response_v1; id is what the generator returns.                          *)
Response(request, id, type, schema, payload, limit) ==
    IF id = Zero THEN {}
    ELSE NewV1([request EXCEPT !.source = request.destination,
                               !.destination = request.source,
                               !.message = id, !.correlation = {request.message},
                               !.type = type, !.schema = schema,
                               !.attempt = 0, !.payload = payload], limit)

(* Only the attempt changes, and it does not wrap.                         *)
Retry(e) == IF e.attempt < MaxAttempt THEN {[e EXCEPT !.attempt = @ + 1]} ELSE {}

(* Faulty: a field is hashed without its length.                           *)
FieldUnprefixed(bytes) == bytes

(* update_field; the length is one element, as wide as it needs to be.     *)
Field(bytes) == <<Len(bytes)>> \o bytes

(* semantic_fingerprint hashes all fields but the version and the attempt; *)
(* a schema version has a fixed width.  SHA-256 is taken to be injective:  *)
(* the digest is what is hashed.                                           *)
Fingerprint(e) ==
    Field(e.cluster) \o Field(e.source) \o Field(e.destination) \o Field(e.message)
        \o Field(IF e.correlation = {} THEN << >> ELSE CHOOSE c \in e.correlation : TRUE)
        \o Field(e.protocol) \o Field(e.type) \o Field(<<e.schema>>) \o Field(e.payload)

(* The two differ in the attempt only.                                     *)
SameContents(e, f) ==
    /\ e.cluster = f.cluster /\ e.source = f.source /\ e.destination = f.destination
    /\ e.message = f.message /\ e.correlation = f.correlation
    /\ e.protocol = f.protocol /\ e.type = f.type /\ e.schema = f.schema
    /\ e.payload = f.payload

(* The fingerprint tells two envelopes apart exactly when they differ in   *)
(* more than the attempt.                                                  *)
Separates(envelopes) ==
    LET digest == [e \in envelopes |-> Fingerprint(e)]
    IN  \A e, f \in envelopes : digest[e] = digest[f] <=> SameContents(e, f)

(* DedupKey::from_envelope                                                 *)
Key(e) == <<e.cluster, e.source, e.message>>

---------------------------------------------------------------------------
(* The protobuf form: unvalidated fields, integers as u32.                 *)
FromCore(e) ==
    [version |-> V1, cluster |-> e.cluster, source |-> e.source,
     destination |-> e.destination, message |-> e.message,
     correlation |-> e.correlation, protocol |-> e.protocol, type |-> e.type,
     schema |-> e.schema, attempt |-> e.attempt, payload |-> e.payload]

(* Every conversion of into_core before the envelope is built.             *)
Converts(w) ==
    /\ IsOpaque(w.cluster) /\ IsOpaque(w.message)
    /\ \A c \in w.correlation : IsOpaque(c)
    /\ IsNodeId(w.source) /\ IsNodeId(w.destination)
    /\ IsName(w.protocol) /\ IsName(w.type)
    /\ w.schema \in 1 .. MaxU16 /\ w.version \in 0 .. MaxU16

FieldsOf(w) ==
    [cluster |-> w.cluster, source |-> w.source, destination |-> w.destination,
     message |-> w.message, correlation |-> w.correlation,
     protocol |-> w.protocol, type |-> w.type, schema |-> w.schema,
     attempt |-> w.attempt, payload |-> w.payload]

(* Faulty: the u32 schema version is cast to u16 before it is checked.     *)
IntoCoreTruncates(w, limit) ==
    LET cast == [w EXCEPT !.schema = @ % (MaxU16 + 1)]
    IN  IF Converts(cast) THEN TryFromVersion(w.version, FieldsOf(cast), limit) ELSE {}

IntoCore(w, limit) ==
    IF Converts(w) THEN TryFromVersion(w.version, FieldsOf(w), limit) ELSE {}

(* What the served deliver hands to its handler for an envelope that a     *)
(* client sent.                                                            *)
Delivered(e, limit) == IntoCore(FromCore(e), limit)

(* What an accepted wire form says is what the envelope says: it is sent   *)
(* on unchanged, and the next node accepts it again as the same envelope.  *)
RoundTrips(wires, limit) ==
    \A w \in wires : \A e \in IntoCore(w, limit) :
        FromCore(e) = w /\ Delivered(e, limit) = {e}

===========================================================================
