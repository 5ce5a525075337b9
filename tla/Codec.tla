------------------------------- MODULE Codec -------------------------------
(***************************************************************************)
(* The generated JSON codecs: a body is decoded member by member into a    *)
(* struct, checked for missing fields, for trailing data and by the        *)
(* validator; what was accepted is encoded again, as the other side of the *)
(* wire would, and decoded once more.                                      *)
(*                                                                         *)
(* A member is a name and a value.  The text of a string is a word: one of *)
(* Proper, which every field takes, or Odd: empty, too long, not in the    *)
(* enumeration, or not a UUID nor a date.  The text of an object stands    *)
(* for what it maps its keys to; on the wire its members also have an      *)
(* order, which the Go map it is decoded into does not keep.               *)
(***************************************************************************)
EXTENDS Naturals, Sequences, FiniteSets

CONSTANTS
    Proper,     \* words that are right for every field
    Odd,        \* a word that is wrong where there is a format or a limit
    Fraction,   \* a proper word that, as a date, has a fraction of a second,
    Whole,      \* and the one for the second it is in
    Unset,      \* an optional field that is not set, a zero value
    Orders,     \* the orders in which the members of a payload may be written
    MaxMembers  \* bound on the members of a body

ASSUME WordsAssumption == Odd \notin Proper /\ Unset \notin Proper \cup {Odd}
ASSUME DatesAssumption == {Fraction, Whole} \subseteq Proper /\ Fraction # Whole
ASSUME OrdersAssumption == Orders # {}
ASSUME MembersAssumption == MaxMembers \in Nat

VARIABLES
    type,      \* the struct being decoded
    wire,      \* the members of the body, in order
    rest,      \* what comes after them
    pos,       \* how many of them were read
    seen,      \* requiredBitSet, as the set of the bits that are set
    struct,    \* the fields of the struct
    failures,  \* the names of the missing fields, as reported
    step,      \* where the decoder is, and its verdict
    accepted   \* the struct of the first pass, once it was accepted

cvars == <<type, wire, rest, pos, seen, struct, failures, step, accepted>>

---------------------------------------------------------------------------
(* The structs, field by field in the order of their indices.  Error       *)
(* stands for the four response types that are aliases of it, too.         *)

CreateTaskRequest ==
    << [name |-> "handler",         kind |-> "string", required |-> TRUE],
       [name |-> "payload",         kind |-> "object", required |-> FALSE],
       [name |-> "idempotency_key", kind |-> "string", required |-> FALSE] >>

Error ==
    << [name |-> "code",    kind |-> "enum", required |-> TRUE],
       [name |-> "message", kind |-> "text", required |-> TRUE] >>

Task ==
    << [name |-> "id",         kind |-> "uuid", required |-> TRUE],
       [name |-> "status",     kind |-> "enum", required |-> TRUE],
       [name |-> "created_at", kind |-> "date", required |-> TRUE] >>

Types == {"CreateTaskRequest", "Error", "Task"}
Structs == [CreateTaskRequest |-> CreateTaskRequest, Error |-> Error, Task |-> Task]

Fields == Structs[type]

Mask == {i \in DOMAIN Fields : Fields[i].required}

Zero == [i \in DOMAIN Fields |-> Unset]

(* The JSON values; "other" is null, a number, a boolean or an array.      *)
Value == [kind : {"string"}, text : Proper \cup {Odd}]
           \cup [kind : {"object"}, text : Proper, order : Orders]
           \cup {[kind |-> "other", text |-> Odd]}

Names == {"handler", "payload", "idempotency_key", "code", "message", "id",
          "status", "created_at"}
Member == [name : Names, value : Value]
Stranger == [name |-> "another", value |-> [kind |-> "other", text |-> Odd]]

(* The bodies of a type: its own fields in any number and order, with one  *)
(* field it does not know among them.                                      *)
Bodies(own) ==
    UNION {[1 .. n -> [name : own, value : Value] \cup {Stranger}] :
             n \in 0 .. MaxMembers}

---------------------------------------------------------------------------
(* What the decoder of one field takes, by the kind of the field.  An      *)
(* enumeration takes any string: its validator comes later.                *)

DecodePayload(v)  == v.kind = "object"
DecodeStr(v)      == v.kind = "string"
DecodeEnum(v)     == v.kind = "string"
DecodeUUID(v)     == v.kind = "string" /\ v.text \in Proper
DecodeDateTime(v) == v.kind = "string" /\ v.text \in Proper

Decodes(kind, v) ==
    CASE kind = "object"             -> DecodePayload(v)
      [] kind \in {"string", "text"} -> DecodeStr(v)
      [] kind = "enum"               -> DecodeEnum(v)
      [] kind = "uuid"               -> DecodeUUID(v)
      [] kind = "date"               -> DecodeDateTime(v)

(* The validators: 1 to 128 characters, if set; a word of the enumeration. *)
ValidString(text) == text \in Proper \cup {Unset}
ValidEnum(text)   == text \in Proper

Valid(kind, text) ==
    /\ kind = "string" => ValidString(text)
    /\ kind = "enum" => ValidEnum(text)

---------------------------------------------------------------------------
Init ==
    /\ type \in Types
    /\ wire \in Bodies({Fields[i].name : i \in DOMAIN Fields})
    /\ rest \in {"eof", "cut", "trailing"}
    /\ pos = 0 /\ seen = {} /\ struct = Zero
    /\ failures = <<>>
    /\ step = "members"
    /\ accepted = <<>>

(* One member whose name is a field of the struct.  An optional field is   *)
(* reset first, a second payload does not add to the first, and the bit of *)
(* a required field is set before its value is decoded.  (Mutants: a field *)
(* that was set is kept; the bit of the last field is set for any.)        *)
Field_MutFirstWins(i) ==
    /\ step = "members" /\ pos < Len(wire)
    /\ wire[pos + 1].name = Fields[i].name
    /\ Decodes(Fields[i].kind, wire[pos + 1].value)
    /\ pos' = pos + 1
    /\ seen' = seen \cup ({i} \cap Mask)
    /\ struct' = [struct EXCEPT ![i] = IF @ = Unset THEN wire[pos + 1].value.text ELSE @]
    /\ UNCHANGED <<type, wire, rest, failures, step, accepted>>

Field_MutWrongBit(i) ==
    /\ step = "members" /\ pos < Len(wire)
    /\ wire[pos + 1].name = Fields[i].name
    /\ Decodes(Fields[i].kind, wire[pos + 1].value)
    /\ pos' = pos + 1
    /\ seen' = seen \cup {1}
    /\ struct' = [struct EXCEPT ![i] = wire[pos + 1].value.text]
    /\ UNCHANGED <<type, wire, rest, failures, step, accepted>>

Field(i) ==
    /\ step = "members" /\ pos < Len(wire)
    /\ wire[pos + 1].name = Fields[i].name
    /\ Decodes(Fields[i].kind, wire[pos + 1].value)
    /\ pos' = pos + 1
    /\ seen' = seen \cup ({i} \cap Mask)
    /\ struct' = [struct EXCEPT ![i] = wire[pos + 1].value.text]
    /\ UNCHANGED <<type, wire, rest, failures, step, accepted>>

FieldFails(i) ==
    /\ step = "members" /\ pos < Len(wire)
    /\ wire[pos + 1].name = Fields[i].name
    /\ ~Decodes(Fields[i].kind, wire[pos + 1].value)
    /\ step' = "malformed"
    /\ UNCHANGED <<type, wire, rest, pos, seen, struct, failures, accepted>>

Skip ==
    /\ step = "members" /\ pos < Len(wire)
    /\ \A i \in DOMAIN Fields : wire[pos + 1].name # Fields[i].name
    /\ pos' = pos + 1
    /\ UNCHANGED <<type, wire, rest, seen, struct, failures, step, accepted>>

(* The end of the object, if it comes.                                     *)
End ==
    /\ step = "members" /\ pos = Len(wire)
    /\ step' = IF rest = "cut" THEN "malformed" ELSE "required"
    /\ UNCHANGED <<type, wire, rest, pos, seen, struct, failures, accepted>>

(* The bits of the mask that are not set, lowest first: one turn reports   *)
(* the lowest and resets it.  The turns taken so far are the failures.     *)
Missed == {i \in Mask \ seen : \A k \in DOMAIN failures : failures[k] # Fields[i].name}

Lowest(i) == i \in Missed /\ \A j \in Missed : i <= j

ReportMissing(i) ==
    /\ step = "required" /\ Lowest(i)
    /\ failures' = Append(failures, Fields[i].name)
    /\ UNCHANGED <<type, wire, rest, pos, seen, struct, step, accepted>>

Required ==
    /\ step = "required" /\ Missed = {}
    /\ step' = IF failures = <<>> THEN "trailing" ELSE "missing"
    /\ UNCHANGED <<type, wire, rest, pos, seen, struct, failures, accepted>>

Trailing ==
    /\ step = "trailing"
    /\ step' = IF rest = "eof" THEN "validate" ELSE "malformed"
    /\ UNCHANGED <<type, wire, rest, pos, seen, struct, failures, accepted>>

(* (Mutant: only the first field is validated.)                            *)
Validate_MutFirstOnly ==
    /\ step = "validate"
    /\ step' = IF Valid(Fields[1].kind, struct[1]) THEN "valid" ELSE "invalid"
    /\ UNCHANGED <<type, wire, rest, pos, seen, struct, failures, accepted>>

Validate ==
    /\ step = "validate"
    /\ step' = IF \A i \in DOMAIN Fields : Valid(Fields[i].kind, struct[i])
                 THEN "valid" ELSE "invalid"
    /\ UNCHANGED <<type, wire, rest, pos, seen, struct, failures, accepted>>

(* A date is written in whole seconds (docs/getting-started.md:106 shows   *)
(* an answer), though it is read with any fraction.                        *)
EncodeDateTime(text) == IF text = Fraction THEN Whole ELSE text

(* What a field says on the wire, and the value that says it: the members  *)
(* of the payload come in whatever order ranging over the map gives them.  *)
Said(i, text) == IF Fields[i].kind = "date" THEN EncodeDateTime(text) ELSE text

OnTheWire(i, text, order) ==
    IF Fields[i].kind = "object"
    THEN [kind |-> "object", text |-> text, order |-> order]
    ELSE [kind |-> "string", text |-> Said(i, text)]

(* encodeFields: the fields in order, an optional one only if it is set.   *)
(* (Mutant: an optional field is always written.)                          *)
Written(i, order) ==
    << [name |-> Fields[i].name, value |-> OnTheWire(i, struct[i], order)] >>

IfWritten_MutUnset(i, order) ==
    IF i \in DOMAIN Fields
    THEN << [Written(i, order)[1] EXCEPT !.value.text = IF @ = Unset THEN Odd ELSE @] >>
    ELSE <<>>

IfWritten(i, order) ==
    IF i \in DOMAIN Fields /\ (Fields[i].required \/ struct[i] # Unset)
    THEN Written(i, order) ELSE <<>>

encodeFields(order) == IfWritten(1, order) \o IfWritten(2, order) \o IfWritten(3, order)

Encode ==
    /\ step = "valid" /\ accepted = <<>>
    /\ accepted' = struct
    /\ \E order \in Orders : wire' = encodeFields(order)
    /\ rest' = "eof"
    /\ pos' = 0 /\ seen' = {} /\ struct' = Zero
    /\ step' = "members"
    /\ UNCHANGED <<type, failures>>

Next ==
    \/ \E i \in DOMAIN Fields : Field(i) \/ FieldFails(i) \/ ReportMissing(i)
    \/ Skip \/ End \/ Required \/ Trailing \/ Validate
    \/ Encode

Spec == Init /\ [][Next]_cvars

---------------------------------------------------------------------------
(* Properties.                                                             *)

Verdict == {"malformed", "missing", "invalid", "valid"}

(* The types: in particular only required fields have a bit.               *)
TypeOK ==
    /\ type \in Types
    /\ wire \in Seq(Member \cup {Stranger})
    /\ rest \in {"eof", "cut", "trailing"}
    /\ pos \in 0 .. Len(wire)
    /\ seen \subseteq Mask
    /\ struct \in [DOMAIN Fields -> Proper \cup {Odd, Unset}]
    /\ failures \in Seq({Fields[i].name : i \in Mask})
    /\ step \in {"members", "required", "trailing", "validate"} \cup Verdict
    /\ accepted = <<>> \/ accepted \in [DOMAIN Fields -> Proper \cup {Odd, Unset}]

(* i is the last of the first n members to carry the name of field f.      *)
LastOf(f, i, n) ==
    /\ i \in 1 .. n /\ wire[i].name = Fields[f].name
    /\ \A j \in i + 1 .. n : wire[j].name # Fields[f].name

(* Of a duplicate key the last one counts, for a required field, for an    *)
(* optional one and for the payload, which is not merged; a key that does  *)
(* not occur leaves its field unset; order and strangers do not matter.    *)
LastWins ==
    \A f \in DOMAIN Fields :
        /\ \A i \in 1 .. pos : LastOf(f, i, pos) => struct[f] = wire[i].value.text
        /\ (\A i \in 1 .. pos : wire[i].name # Fields[f].name) => struct[f] = Unset

(* What the members as a whole deserve, without going through them: a      *)
(* value of the wrong type anywhere, even one that a duplicate overrides,  *)
(* makes the body malformed; then come missing fields; then trailing data; *)
(* the validator sees the last value of each key only.                     *)
Occurs(f) == \E i \in DOMAIN wire : wire[i].name = Fields[f].name
WellTyped ==
    \A f \in DOMAIN Fields, i \in DOMAIN wire :
        wire[i].name = Fields[f].name => Decodes(Fields[f].kind, wire[i].value)
AllValid ==
    \A f \in DOMAIN Fields, i \in DOMAIN wire :
        LastOf(f, i, Len(wire)) => Valid(Fields[f].kind, wire[i].value.text)
Complete == \A f \in Mask : Occurs(f)
Malformed == ~WellTyped \/ rest = "cut" \/ (Complete /\ rest = "trailing")

VerdictDeserved ==
    step \in Verdict =>
        /\ step = "malformed" <=> Malformed
        /\ step = "missing" <=> ~Malformed /\ ~Complete
        /\ step = "valid" <=> ~Malformed /\ Complete /\ AllValid

(* A refusal for missing fields names each of them once, in the order of   *)
(* the struct, and no other.                                               *)
MissingNamed ==
    step = "missing" =>
        \E missed \in [DOMAIN failures -> {f \in Mask : ~Occurs(f)}] :
            /\ \A k \in DOMAIN failures : failures[k] = Fields[missed[k]].name
            /\ \A k, l \in DOMAIN failures : k < l => missed[k] < missed[l]
            /\ \A f \in Mask : ~Occurs(f) => \E k \in DOMAIN failures : missed[k] = f

(* What one side has accepted, encoded again, the other side accepts,      *)
(* whatever the order the payload's members are written in; no field is    *)
(* lost, gained or changed on the way, but for the fraction of a second of *)
(* a date; and from then on nothing is lost any more: the value that was   *)
(* read encodes to the body it was read from, up to that order             *)
(* (oas_json_gen.go:229-237).                                              *)
RoundTrip ==
    accepted # <<>> /\ step \in Verdict =>
        /\ step = "valid"
        /\ struct = [i \in DOMAIN Fields |-> Said(i, accepted[i])]
        /\ \E order \in Orders : encodeFields(order) = wire
=============================================================================
