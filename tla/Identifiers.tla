---------------------------- MODULE Identifiers ----------------------------
(* iron-core's identifiers: which byte sequences each parser accepts.  A   *)
(* byte is a number; a UUID's text is taken as its bytes.                  *)
EXTENDS Naturals, Sequences, Functions

CONSTANTS
    LowerAlnum,      \* the bytes of lowercase ASCII letters and digits
    Dash,            \* the byte '-'
    Marks,           \* the bytes '-', '_' and '.'
    MaxText,         \* MAX_TEXT_ID_BYTES
    OpaqueBytes      \* OPAQUE_ID_BYTES

ASSUME AlphabetAssumption ==
    Marks \cup LowerAlnum \subseteq Nat /\ Dash \in Marks \ LowerAlnum
ASSUME LengthsAssumption == MaxText \in Nat \ {0} /\ OpaqueBytes \in Nat \ {0}

IsText(text, allowed) == Len(text) \in 1 .. MaxText /\ Range(text) \subseteq allowed

(* NodeId::parse                                                           *)
IsNodeId(text) ==
    /\ IsText(text, LowerAlnum \cup {Dash})
    /\ text[1] \in LowerAlnum /\ text[Len(text)] \in LowerAlnum

(* ProtocolName::parse, MessageType::parse                                 *)
IsName(text) == IsText(text, LowerAlnum \cup Marks)

Zero == [i \in 1 .. OpaqueBytes |-> 0]

(* from_bytes of the opaque identifiers, after the conversion to an array. *)
IsOpaque(bytes) == Len(bytes) = OpaqueBytes /\ bytes # Zero

===========================================================================
