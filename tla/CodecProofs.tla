---------------------------- MODULE CodecProofs ----------------------------
(***************************************************************************)
(* What the codecs decide about a body, for bodies of any length over any  *)
(* words.  The invariant says what was read up to pos: which fields        *)
(* occurred, what the last of each said, that all of them were well typed; *)
(* and what each later step has established about the whole body.          *)
(***************************************************************************)
EXTENDS Codec, TLAPS

(* The structs have two or three fields with distinct names, and an        *)
(* enumeration is always required.                                         *)
LEMMA FieldsFacts ==
    ASSUME type \in Types
    PROVE  /\ DOMAIN Fields \in {1 .. 2, 1 .. 3}
           /\ \A f, g \in DOMAIN Fields : Fields[f].name = Fields[g].name => f = g
           /\ \A f \in DOMAIN Fields : Fields[f].kind = "enum" => Fields[f].required
PROOF
  <1>1. CASE type = "CreateTaskRequest"
    <2>1. Fields = CreateTaskRequest
      BY <1>1 DEF Fields, Structs
    <2>2. /\ DOMAIN Fields = 1 .. 3
          /\ Fields[1].name = "handler" /\ Fields[1].kind = "string"
          /\ Fields[2].name = "payload" /\ Fields[2].kind = "object"
          /\ Fields[3].name = "idempotency_key" /\ Fields[3].kind = "string"
      BY <2>1 DEF CreateTaskRequest
    <2> QED
      BY <2>2
  <1>2. CASE type = "Error"
    <2>1. Fields = Error
      BY <1>2 DEF Fields, Structs
    <2>2. /\ DOMAIN Fields = 1 .. 2
          /\ Fields[1].name = "code" /\ Fields[1].required
          /\ Fields[2].name = "message" /\ Fields[2].kind = "text"
      BY <2>1 DEF Error
    <2> QED
      BY <2>2
  <1>3. CASE type = "Task"
    <2>1. Fields = Task
      BY <1>3 DEF Fields, Structs
    <2>2. /\ DOMAIN Fields = 1 .. 3
          /\ Fields[1].name = "id" /\ Fields[1].kind = "uuid"
          /\ Fields[2].name = "status" /\ Fields[2].required
          /\ Fields[3].name = "created_at" /\ Fields[3].kind = "date"
      BY <2>1 DEF Task
    <2> QED
      BY <2>2
  <1> QED
    BY <1>1, <1>2, <1>3 DEF Types

---------------------------------------------------------------------------
(* Field f occurs among the first pos members, and what its last           *)
(* occurrence says.                                                        *)
Read(f) == \E i \in 1 .. pos : wire[i].name = Fields[f].name
Latest(f) == \E i \in 1 .. pos : LastOf(f, i, pos) /\ struct[f] = wire[i].value.text

ReadSoFar ==
    /\ \A f \in DOMAIN Fields : IF Read(f) THEN Latest(f) ELSE struct[f] = Unset
    /\ seen = {f \in Mask : Read(f)}
    /\ \A f \in DOMAIN Fields, i \in 1 .. pos :
          wire[i].name = Fields[f].name => Decodes(Fields[f].kind, wire[i].value)

Shape ==
    /\ type \in Types
    /\ Len(wire) \in Nat /\ DOMAIN wire = 1 .. Len(wire)
    /\ rest \in {"eof", "cut", "trailing"}
    /\ pos \in 0 .. Len(wire)
    /\ DOMAIN struct = DOMAIN Fields
    /\ step \in {"members", "required", "trailing", "validate"} \cup Verdict

StepKnows ==
    /\ step \notin {"members", "malformed"} => pos = Len(wire) /\ rest # "cut"
    /\ step \notin {"required", "missing"} => failures = <<>>
    /\ step = "required" /\ failures # <<>> => Mask \ seen # {}
    /\ step = "missing" => Mask \ seen # {}
    /\ step \in {"trailing", "validate", "valid", "invalid"} => Mask \subseteq seen
    /\ step \in {"validate", "valid", "invalid"} => rest = "eof"
    /\ step = "valid" => \A i \in DOMAIN Fields : Valid(Fields[i].kind, struct[i])
    /\ step = "invalid" => \E i \in DOMAIN Fields : ~Valid(Fields[i].kind, struct[i])
    /\ step = "malformed" => Malformed

CodecInv == Shape /\ ReadSoFar /\ StepKnows

(* One more member: a field that it names has it for its last, the others  *)
(* have the last they had.                                                 *)
LEMMA OneMoreMember ==
    ASSUME Shape, pos < Len(wire), pos' = pos + 1, type' = type, wire' = wire,
           NEW f \in DOMAIN Fields
    PROVE  /\ wire[pos + 1].name = Fields[f].name =>
                 /\ Read(f)'
                 /\ \A i \in 1 .. pos + 1 : LastOf(f, i, pos + 1) <=> i = pos + 1
           /\ wire[pos + 1].name # Fields[f].name =>
                 /\ Read(f)' <=> Read(f)
                 /\ \A i \in 1 .. pos : LastOf(f, i, pos + 1) <=> LastOf(f, i, pos)
PROOF
  <1>1. pos \in Nat /\ 1 .. pos + 1 = 1 .. pos \cup {pos + 1}
    BY DEF Shape
  <1>2. Fields' = Fields
    BY DEF Fields
  <1>3. ASSUME wire[pos + 1].name = Fields[f].name
        PROVE  /\ Read(f)'
               /\ \A i \in 1 .. pos + 1 : LastOf(f, i, pos + 1) <=> i = pos + 1
    BY <1>1, <1>2, <1>3 DEF Read, LastOf
  <1>4. ASSUME wire[pos + 1].name # Fields[f].name
        PROVE  /\ Read(f)' <=> Read(f)
               /\ \A i \in 1 .. pos : LastOf(f, i, pos + 1) <=> LastOf(f, i, pos)
    <2>1. Read(f)' <=> Read(f)
      BY <1>1, <1>2, <1>4 DEF Read
    <2>2. ASSUME NEW i \in 1 .. pos PROVE LastOf(f, i, pos + 1) <=> LastOf(f, i, pos)
      <3>1. i + 1 .. pos + 1 = (i + 1 .. pos) \cup {pos + 1}
        BY <1>1
      <3>2. i \in 1 .. pos + 1
        BY <1>1
      <3> QED
        BY <1>4, <3>1, <3>2 DEF LastOf
    <2> QED
      BY <2>1, <2>2
  <1> QED
    BY <1>3, <1>4

---------------------------------------------------------------------------
(* Before the first member nothing is read and no field is set.            *)
LEMMA CodecInvInit == Init => CodecInv
PROOF
  <1> SUFFICES ASSUME Init PROVE CodecInv
    OBVIOUS
  <1> USE DEF Init
  <1>1. Shape
    <2>1. PICK n \in 0 .. MaxMembers :
             wire \in [1 .. n -> [name : {Fields[i].name : i \in DOMAIN Fields},
                                  value : Value] \cup {Stranger}]
      BY DEF Bodies
    <2>2. n \in Nat /\ DOMAIN wire = 1 .. n
      BY <2>1, MembersAssumption
    <2>3. Len(wire) = n
      BY <2>1, <2>2
    <2> QED
      BY <2>2, <2>3 DEF Shape, Zero
  <1>2. ReadSoFar
    BY DEF ReadSoFar, Read, Zero
  <1>3. StepKnows
    BY DEF StepKnows
  <1> QED
    BY <1>1, <1>2, <1>3 DEF CodecInv

(* A field is read.                                                        *)
LEMMA FieldStep ==
    ASSUME CodecInv, NEW i \in DOMAIN Fields, Field(i)
    PROVE  CodecInv'
PROOF
  <1> USE DEF CodecInv
  <1>1. /\ pos < Len(wire) /\ pos' = pos + 1 /\ type' = type /\ wire' = wire
        /\ step = "members" /\ step' = step /\ failures' = failures /\ rest' = rest
        /\ wire[pos + 1].name = Fields[i].name
        /\ Decodes(Fields[i].kind, wire[pos + 1].value)
        /\ seen' = seen \cup ({i} \cap Mask)
        /\ struct' = [struct EXCEPT ![i] = wire[pos + 1].value.text]
    BY DEF Field
  <1>2. Fields' = Fields /\ Mask' = Mask
    BY <1>1 DEF Fields, Mask
  <1>3. Shape'
    BY <1>1, <1>2 DEF Shape
  <1>4. StepKnows'
    BY <1>1 DEF StepKnows
  <1>5. pos \in Nat /\ 1 .. pos + 1 = 1 .. pos \cup {pos + 1}
    BY DEF Shape
  <1>6. ASSUME NEW f \in DOMAIN Fields
        PROVE  /\ Read(f)' <=> Read(f) \/ f = i
               /\ IF Read(f)' THEN Latest(f)' ELSE struct'[f] = Unset
    <2>1. CASE f = i
      <3>1. Read(f)' /\ LastOf(f, pos + 1, pos + 1)
        BY <1>1, <1>5, <2>1, OneMoreMember
      <3>2. struct'[f] = wire[pos + 1].value.text
        BY <1>1, <2>1 DEF Shape
      <3>3. Latest(f)'
        BY <1>1, <1>2, <1>5, <3>1, <3>2 DEF Latest, LastOf
      <3> QED
        BY <2>1, <3>1, <3>3
    <2>2. CASE f # i
      <3>1. wire[pos + 1].name # Fields[f].name
        BY <1>1, <2>2, FieldsFacts DEF Shape
      <3>2. /\ Read(f)' <=> Read(f)
            /\ \A j \in 1 .. pos : LastOf(f, j, pos + 1) <=> LastOf(f, j, pos)
        BY <1>1, <3>1, OneMoreMember
      <3>3. struct'[f] = struct[f]
        BY <1>1, <2>2 DEF Shape
      <3>4. Latest(f) => Latest(f)'
        BY <1>1, <1>2, <1>5, <3>2, <3>3 DEF Latest, LastOf
      <3> QED
        BY <2>2, <3>2, <3>3, <3>4 DEF ReadSoFar
    <2> QED
      BY <2>1, <2>2
  <1>7. seen' = {f \in Mask : Read(f)}'
    BY <1>1, <1>2, <1>6 DEF ReadSoFar, Mask
  <1>8. \A f \in DOMAIN Fields, j \in 1 .. pos + 1 :
           wire[j].name = Fields[f].name => Decodes(Fields[f].kind, wire[j].value)
    BY <1>1, <1>5, FieldsFacts DEF ReadSoFar, Shape
  <1>9. ReadSoFar'
    BY <1>1, <1>2, <1>6, <1>7, <1>8 DEF ReadSoFar
  <1> QED
    BY <1>3, <1>4, <1>9

(* A stranger is skipped.                                                  *)
LEMMA SkipStep ==
    ASSUME CodecInv, Skip
    PROVE  CodecInv'
PROOF
  <1> USE DEF CodecInv
  <1>1. /\ pos < Len(wire) /\ pos' = pos + 1 /\ type' = type /\ wire' = wire
        /\ step = "members" /\ step' = step /\ failures' = failures /\ rest' = rest
        /\ seen' = seen /\ struct' = struct
        /\ \A f \in DOMAIN Fields : wire[pos + 1].name # Fields[f].name
    BY DEF Skip
  <1>2. Fields' = Fields /\ Mask' = Mask
    BY <1>1 DEF Fields, Mask
  <1>3. Shape'
    BY <1>1, <1>2 DEF Shape
  <1>4. StepKnows'
    BY <1>1 DEF StepKnows
  <1>5. pos \in Nat /\ 1 .. pos + 1 = 1 .. pos \cup {pos + 1}
    BY DEF Shape
  <1>6. ASSUME NEW f \in DOMAIN Fields
        PROVE  /\ Read(f)' <=> Read(f)
               /\ Latest(f) => Latest(f)'
    <2>1. /\ Read(f)' <=> Read(f)
          /\ \A j \in 1 .. pos : LastOf(f, j, pos + 1) <=> LastOf(f, j, pos)
      BY <1>1, OneMoreMember
    <2> QED
      BY <1>1, <1>2, <1>5, <2>1 DEF Latest, LastOf
  <1>7. seen' = {f \in Mask : Read(f)}'
    BY <1>1, <1>2, <1>6 DEF ReadSoFar, Mask
  <1>8. \A f \in DOMAIN Fields, j \in 1 .. pos + 1 :
           wire[j].name = Fields[f].name => Decodes(Fields[f].kind, wire[j].value)
    BY <1>1, <1>5 DEF ReadSoFar
  <1>9. ReadSoFar'
    BY <1>1, <1>2, <1>6, <1>7, <1>8 DEF ReadSoFar
  <1> QED
    BY <1>3, <1>4, <1>9

---------------------------------------------------------------------------
(* When all members were read, what was read is the body.                  *)
LEMMA WholeBody ==
    ASSUME Shape, ReadSoFar, pos = Len(wire)
    PROVE  /\ WellTyped
           /\ Complete <=> Mask \subseteq seen
           /\ Complete =>
                 (AllValid <=> \A f \in DOMAIN Fields : Valid(Fields[f].kind, struct[f]))
PROOF
  <1>1. DOMAIN wire = 1 .. pos /\ pos \in Nat
    BY DEF Shape
  <1>2. WellTyped
    BY <1>1 DEF WellTyped, ReadSoFar
  <1>3. \A f \in DOMAIN Fields : Occurs(f) <=> Read(f)
    BY <1>1 DEF Occurs, Read
  <1>4. Complete <=> Mask \subseteq seen
    BY <1>3 DEF Complete, ReadSoFar, Mask
  <1>5. ASSUME NEW f \in DOMAIN Fields, Read(f)
        PROVE  Valid(Fields[f].kind, struct[f]) <=>
                 \A i \in DOMAIN wire :
                    LastOf(f, i, Len(wire)) => Valid(Fields[f].kind, wire[i].value.text)
    <2>1. PICK i \in 1 .. pos : LastOf(f, i, pos) /\ struct[f] = wire[i].value.text
      BY <1>5 DEF ReadSoFar, Latest
    <2>2. ASSUME NEW j \in 1 .. pos, LastOf(f, j, pos) PROVE j = i
      BY <1>1, <2>1, <2>2 DEF LastOf
    <2> QED
      BY <1>1, <2>1, <2>2
  <1>6. ASSUME NEW f \in DOMAIN Fields, ~Read(f), Complete
        PROVE  /\ Valid(Fields[f].kind, struct[f])
               /\ \A i \in DOMAIN wire : ~LastOf(f, i, Len(wire))
    <2>1. f \notin Mask
      BY <1>3, <1>6 DEF Complete
    <2>2. Fields[f].kind # "enum"
      BY <2>1, FieldsFacts DEF Mask, Shape
    <2>3. struct[f] = Unset
      BY <1>6 DEF ReadSoFar
    <2>4. \A i \in DOMAIN wire : ~LastOf(f, i, Len(wire))
      BY <1>1, <1>6 DEF Read, LastOf
    <2> QED
      BY <2>2, <2>3, <2>4 DEF Valid, ValidString
  <1>7. ASSUME Complete
        PROVE  AllValid <=> \A f \in DOMAIN Fields : Valid(Fields[f].kind, struct[f])
    BY <1>5, <1>6, <1>7 DEF AllValid
  <1> QED
    BY <1>2, <1>4, <1>7

(* The steps that read nothing.                                            *)
LEMMA OtherSteps ==
    ASSUME CodecInv,
           \/ \E i \in DOMAIN Fields : FieldFails(i) \/ ReportMissing(i)
           \/ End \/ Required \/ Trailing \/ Validate
    PROVE  CodecInv'
PROOF
  <1> USE DEF CodecInv
  <1>1. /\ type' = type /\ wire' = wire /\ rest' = rest /\ pos' = pos
        /\ seen' = seen /\ struct' = struct
    BY DEF FieldFails, ReportMissing, End, Required, Trailing, Validate
  <1>2. Fields' = Fields /\ Mask' = Mask
    BY <1>1 DEF Fields, Mask
  <1>3. step' \in {"members", "required", "trailing", "validate"} \cup Verdict
    BY DEF FieldFails, ReportMissing, End, Required, Trailing, Validate, Shape, Verdict
  <1>4. Shape' /\ ReadSoFar'
    BY <1>1, <1>2, <1>3 DEF Shape, ReadSoFar, Read, Latest, LastOf
  <1>5. Malformed' <=> Malformed
    BY <1>1, <1>2 DEF Malformed, WellTyped, Complete, Occurs
  <1>6. ASSUME NEW i \in DOMAIN Fields, FieldFails(i) PROVE StepKnows'
    <2>1. pos + 1 \in DOMAIN wire
      BY <1>6 DEF FieldFails, Shape
    <2>2. Malformed
      BY <1>6, <2>1 DEF FieldFails, Malformed, WellTyped
    <2> QED
      BY <1>5, <1>6, <2>2 DEF FieldFails, StepKnows
  <1>7. ASSUME NEW i \in DOMAIN Fields, ReportMissing(i) PROVE StepKnows'
    <2>1. i \in Mask \ seen
      BY <1>7 DEF ReportMissing, Lowest, Missed
    <2> QED
      BY <1>1, <1>2, <1>7, <2>1 DEF ReportMissing, StepKnows
  <1>8. ASSUME End PROVE StepKnows'
    BY <1>1, <1>5, <1>8 DEF End, StepKnows, Malformed
  <1>9. ASSUME Required PROVE StepKnows'
    <2>1. CASE failures = <<>>
      <3>1. Mask \subseteq seen
        BY <1>9, <2>1 DEF Required, Missed
      <3> QED
        BY <1>1, <1>2, <1>9, <2>1, <3>1 DEF Required, StepKnows
    <2>2. CASE failures # <<>>
      BY <1>1, <1>2, <1>9, <2>2 DEF Required, StepKnows
    <2> QED
      BY <2>1, <2>2
  <1>10. ASSUME Trailing PROVE StepKnows'
    <2>1. Complete
      BY <1>10, WholeBody DEF Trailing, StepKnows
    <2>2. rest \in {"eof", "trailing"}
      BY <1>10 DEF Trailing, StepKnows, Shape
    <2> QED
      BY <1>1, <1>2, <1>5, <1>10, <2>1, <2>2 DEF Trailing, StepKnows, Malformed
  <1>11. ASSUME Validate PROVE StepKnows'
    BY <1>1, <1>2, <1>11 DEF Validate, StepKnows
  <1> QED
    BY <1>4, <1>6, <1>7, <1>8, <1>9, <1>10, <1>11

(* What was accepted is encoded, and decoded from the start.               *)
LEMMA EncodeStep ==
    ASSUME CodecInv, Encode
    PROVE  CodecInv'
PROOF
  <1> USE DEF CodecInv
  <1>1. PICK o \in Orders :
           /\ type' = type /\ wire' = encodeFields(o) /\ rest' = "eof" /\ pos' = 0
           /\ seen' = {} /\ struct' = Zero /\ step' = "members" /\ failures' = failures
           /\ step = "valid"
    BY DEF Encode
  <1>2. Fields' = Fields /\ Mask' = Mask
    BY <1>1 DEF Fields, Mask
  <1>3. DEFINE M == {Written(i, o)[1] : i \in 1 .. 3}
  <1>4. ASSUME NEW i \in 1 .. 3 PROVE IfWritten(i, o) \in Seq(M)
    <2>1. Written(i, o) = << Written(i, o)[1] >>
      BY DEF Written
    <2>2. << Written(i, o)[1] >> \in Seq(M) /\ <<>> \in Seq(M)
      OBVIOUS
    <2>3. IfWritten(i, o) \in {Written(i, o), <<>>}
      BY DEF IfWritten
    <2> QED
      BY <2>1, <2>2, <2>3
  <1>5. encodeFields(o) \in Seq(M)
    BY <1>4 DEF encodeFields
  <1>6. Len(wire') \in Nat /\ DOMAIN wire' = 1 .. Len(wire')
    BY <1>1, <1>5
  <1>7. Shape'
    BY <1>1, <1>2, <1>6 DEF Shape, Zero
  <1>8. ReadSoFar'
    BY <1>1, <1>2 DEF ReadSoFar, Read, Zero
  <1>9. StepKnows'
    BY <1>1 DEF StepKnows
  <1> QED
    BY <1>7, <1>8, <1>9

(* Every member, read, skipped or refused, keeps the struct and the        *)
(* required members seen in step with the prefix that was read.            *)
LEMMA CodecInvStep == CodecInv /\ [Next]_cvars => CodecInv'
PROOF
  <1> SUFFICES ASSUME CodecInv, [Next]_cvars PROVE CodecInv'
    OBVIOUS
  <1>1. CASE UNCHANGED cvars
    <2>1. Fields' = Fields /\ Mask' = Mask
      BY <1>1 DEF cvars, Fields, Mask
    <2> QED
      BY <1>1, <2>1 DEF cvars, CodecInv, Shape, ReadSoFar, Read, Latest, LastOf, StepKnows,
                        Malformed, WellTyped, Complete, Occurs
  <1>2. CASE Next
    BY <1>2, FieldStep, SkipStep, OtherSteps, EncodeStep DEF Next
  <1> QED
    BY <1>1, <1>2

---------------------------------------------------------------------------
(* The decoder keeps its invariant (Decode, Validate, encodeFields).       *)
THEOREM CodecInvariant == Spec => []CodecInv
PROOF
  <1> QED
    BY CodecInvInit, CodecInvStep, PTL DEF Spec

(* Of a duplicate key the last one counts, and an absent one leaves its    *)
(* field unset, for bodies of any length (the assignments of Decode).      *)
THEOREM LastOneWins == Spec => []LastWins
PROOF
  <1>1. ASSUME CodecInv PROVE LastWins
    <2> USE <1>1 DEF CodecInv
    <2>1. pos \in Nat
      BY DEF Shape
    <2>2. ASSUME NEW f \in DOMAIN Fields, NEW i \in 1 .. pos, LastOf(f, i, pos)
          PROVE  struct[f] = wire[i].value.text
      <3>1. Read(f)
        BY <2>2 DEF Read, LastOf
      <3>2. PICK j \in 1 .. pos : LastOf(f, j, pos) /\ struct[f] = wire[j].value.text
        BY <3>1 DEF ReadSoFar, Latest
      <3>3. i = j
        BY <2>1, <2>2, <3>2 DEF LastOf
      <3> QED
        BY <3>2, <3>3
    <2>3. ASSUME NEW f \in DOMAIN Fields, \A i \in 1 .. pos : wire[i].name # Fields[f].name
          PROVE  struct[f] = Unset
      BY <2>3 DEF ReadSoFar, Read
    <2> QED
      BY <2>2, <2>3 DEF LastWins
  <1> QED
    BY <1>1, CodecInvariant, PTL

(* The verdict of the decoder and the validator, which stop at the first   *)
(* error, is the one the body as a whole deserves.                         *)
THEOREM VerdictIsDeserved == Spec => []VerdictDeserved
PROOF
  <1>1. ASSUME CodecInv, step \in {"missing", "valid", "invalid"}
        PROVE  /\ WellTyped
               /\ Complete <=> Mask \subseteq seen
               /\ Complete =>
                    (AllValid <=> \A f \in DOMAIN Fields : Valid(Fields[f].kind, struct[f]))
    <2>1. pos = Len(wire)
      BY <1>1 DEF CodecInv, StepKnows
    <2> QED
      BY <1>1, <2>1, WholeBody DEF CodecInv
  <1>2. ASSUME CodecInv PROVE VerdictDeserved
    <2> USE <1>2 DEF CodecInv
    <2>1. CASE step = "malformed"
      BY <2>1 DEF StepKnows, VerdictDeserved
    <2>2. CASE step = "missing"
      <3>1. WellTyped /\ ~Complete /\ rest # "cut"
        BY <1>1, <2>2 DEF StepKnows
      <3> QED
        BY <2>2, <3>1 DEF VerdictDeserved, Malformed
    <2>3. CASE step \in {"valid", "invalid"}
      <3>1. WellTyped /\ Complete /\ rest = "eof"
        BY <1>1, <2>3 DEF StepKnows
      <3>2. step = "valid" <=> AllValid
        BY <1>1, <2>3, <3>1 DEF StepKnows
      <3> QED
        BY <2>3, <3>1, <3>2 DEF VerdictDeserved, Malformed
    <2>4. CASE step \notin Verdict
      BY <2>4 DEF VerdictDeserved
    <2> QED
      BY <2>1, <2>2, <2>3, <2>4 DEF Verdict
  <1> QED
    BY <1>2, CodecInvariant, PTL

---------------------------------------------------------------------------
(* The report of the missing fields: those found so far, lowest first; the *)
(* others come after them.                                                 *)
ReportOf(missed) ==
    /\ \A n \in DOMAIN failures : failures[n] = Fields[missed[n]].name
    /\ \A m, n \in DOMAIN failures : m < n => missed[m] < missed[n]
    /\ \A f \in Mask \ seen : (\E n \in DOMAIN failures : missed[n] = f)
                                \/ (\A n \in DOMAIN failures : missed[n] < f)

ReportInv ==
    /\ Len(failures) \in Nat /\ DOMAIN failures = 1 .. Len(failures)
    /\ \E missed \in [DOMAIN failures -> Mask \ seen] : ReportOf(missed)
    /\ step = "missing" => Missed = {}

(* Encoding any struct, as encodeFields does the one at hand, the payload  *)
(* in the order o.                                                         *)
Set(f, s) == f \in DOMAIN Fields /\ (Fields[f].required \/ s[f] # Unset)
Put(f, s, o) ==
    [name |-> Fields[f].name, value |-> OnTheWire(f, s[f], o)]
Encoded(s, o) ==
    (IF Set(1, s) THEN << Put(1, s, o) >> ELSE <<>>)
      \o (IF Set(2, s) THEN << Put(2, s, o) >> ELSE <<>>)
      \o (IF Set(3, s) THEN << Put(3, s, o) >> ELSE <<>>)

(* A struct that the decoder can have accepted.                            *)
Sound(s) ==
    /\ DOMAIN s = DOMAIN Fields
    /\ \A f \in DOMAIN Fields :
          IF s[f] = Unset THEN ~Fields[f].required
          ELSE s[f] \in Proper \cup {Odd}
                 /\ (Fields[f].kind # "text" => s[f] \in Proper)

(* A body has texts in it; the body of the second pass is what the first   *)
(* has accepted.                                                           *)
PassInv ==
    /\ struct = [f \in DOMAIN Fields |-> struct[f]]
    /\ \A i \in DOMAIN wire : /\ wire[i].value.text \in Proper \cup {Odd}
                              /\ wire[i].value.kind = "object" => wire[i].value.text \in Proper
    /\ accepted # <<>> => rest = "eof" /\ Sound(accepted)
    /\ accepted # <<>> => \E o \in Orders : wire = Encoded(accepted, o)

(* There is no report before the members are read.                         *)
LEMMA ReportInit == Init => ReportInv
PROOF
  <1> SUFFICES ASSUME Init PROVE ReportInv
    OBVIOUS
  <1>1. /\ failures = <<>> /\ Len(failures) = 0 /\ DOMAIN failures = {}
        /\ 1 .. 0 = {} /\ step = "members"
    BY DEF Init
  <1>2. PICK missed \in [DOMAIN failures -> Mask \ seen] : TRUE
    <2>1. [n \in {} |-> 1] \in [DOMAIN failures -> Mask \ seen]
      BY <1>1
    <2> QED
      BY <2>1
  <1>3. ReportOf(missed)
    BY <1>1 DEF ReportOf
  <1> QED
    BY <1>1, <1>2, <1>3 DEF ReportInv

(* One turn of the loop reports the lowest that was not reported.          *)
LEMMA ReportStep ==
    ASSUME CodecInv, ReportInv, NEW i \in DOMAIN Fields, ReportMissing(i)
    PROVE  ReportInv'
PROOF
  <1>1. /\ type' = type /\ seen' = seen /\ step = "required" /\ step' = "required"
        /\ failures' = Append(failures, Fields[i].name) /\ Lowest(i)
    BY DEF ReportMissing
  <1>2. Fields' = Fields /\ Mask' = Mask
    BY <1>1 DEF Fields, Mask
  <1> DEFINE len == Len(failures)
  <1>3. PICK missed \in [DOMAIN failures -> Mask \ seen] : ReportOf(missed)
    BY DEF ReportInv
  <1>4. len \in Nat /\ DOMAIN failures = 1 .. len
    BY DEF ReportInv
  <1>5. /\ Len(failures') = len + 1 /\ DOMAIN failures' = 1 .. len + 1
        /\ failures'[len + 1] = Fields[i].name
        /\ \A n \in 1 .. len : failures'[n] = failures[n]
    BY <1>1, <1>4
  <1>6. /\ DOMAIN Fields \subseteq Nat
        /\ \A f, g \in DOMAIN Fields : Fields[f].name = Fields[g].name => f = g
        /\ Mask \subseteq DOMAIN Fields
    BY FieldsFacts DEF CodecInv, Shape, Mask
  <1>7. /\ i \in Mask \ seen
        /\ \A n \in 1 .. len : missed[n] # i
        /\ \A f \in Mask \ seen : (\A n \in 1 .. len : missed[n] # f) => i <= f
    <2>1. \A f \in Mask \ seen : f \in Missed <=> \A n \in 1 .. len : missed[n] # f
      BY <1>3, <1>4, <1>6 DEF Missed, ReportOf
    <2> QED
      BY <1>1, <2>1, <1>4, <1>3 DEF Lowest, Missed
  <1>8. PICK more \in [1 .. len + 1 -> Mask \ seen] :
           more[len + 1] = i /\ \A n \in 1 .. len : more[n] = missed[n]
    <2> DEFINE f == [n \in 1 .. len + 1 |-> IF n = len + 1 THEN i ELSE missed[n]]
    <2>1. f \in [1 .. len + 1 -> Mask \ seen]
      BY <1>3, <1>4, <1>7
    <2>2. f[len + 1] = i /\ \A n \in 1 .. len : f[n] = missed[n]
      BY <1>4
    <2> QED
      BY <2>1, <2>2
  <1>9. /\ more[len + 1] = i
        /\ \A n \in 1 .. len : more[n] = missed[n] /\ missed[n] \in Mask \ seen
    BY <1>3, <1>4, <1>8
  <1>10. \A n \in 1 .. len + 1 : n \in 1 .. len \/ n = len + 1
    BY <1>4
  <1> HIDE DEF len
  <1>11. \A n \in 1 .. len + 1 : failures'[n] = Fields[more[n]].name
    BY <1>3, <1>4, <1>5, <1>9, <1>10 DEF ReportOf
  <1>12. \A m, n \in 1 .. len + 1 : m < n => more[m] < more[n]
    <2> SUFFICES ASSUME NEW m \in 1 .. len + 1, NEW n \in 1 .. len + 1, m < n
                 PROVE  more[m] < more[n]
      OBVIOUS
    <2>1. m \in 1 .. len
      BY <1>4
    <2>2. CASE n \in 1 .. len
      BY <1>3, <1>4, <1>9, <2>1, <2>2 DEF ReportOf
    <2>3. CASE n = len + 1
      BY <1>3, <1>4, <1>7, <1>9, <2>1, <2>3 DEF ReportOf
    <2> QED
      BY <1>10, <2>2, <2>3
  <1>13. \A f \in Mask \ seen : (\E n \in 1 .. len + 1 : more[n] = f)
                                  \/ (\A n \in 1 .. len + 1 : more[n] < f)
    <2> SUFFICES ASSUME NEW f \in Mask \ seen, \A n \in 1 .. len + 1 : more[n] # f
                 PROVE  \A n \in 1 .. len + 1 : more[n] < f
      OBVIOUS
    <2>1. \A n \in 1 .. len : n \in 1 .. len + 1 /\ missed[n] # f
      BY <1>4, <1>9
    <2>2. \A n \in 1 .. len : missed[n] < f
      BY <1>3, <1>4, <2>1 DEF ReportOf
    <2>3. i <= f /\ i # f /\ i \in Nat /\ f \in Nat
      BY <1>4, <1>6, <1>7, <1>9, <2>1
    <2> QED
      BY <1>9, <1>10, <2>2, <2>3
  <1>14. ReportOf(more)'
    BY <1>1, <1>2, <1>5, <1>11, <1>12, <1>13 DEF ReportOf
  <1>15. more \in [DOMAIN failures' -> Mask' \ seen']
    BY <1>1, <1>2, <1>5, <1>8
  <1> QED
    BY <1>1, <1>4, <1>5, <1>14, <1>15 DEF ReportInv, len

(* The other steps leave the report as it is.                              *)
LEMMA ReportOtherSteps ==
    ASSUME CodecInv, ReportInv,
           \/ \E i \in DOMAIN Fields : Field(i) \/ FieldFails(i)
           \/ Skip \/ End \/ Required \/ Trailing \/ Validate \/ Encode
           \/ UNCHANGED cvars
    PROVE  ReportInv'
PROOF
  <1>1. failures' = failures /\ type' = type
    BY DEF Field, FieldFails, Skip, End, Required, Trailing, Validate, Encode, cvars
  <1>2. Fields' = Fields /\ Mask' = Mask
    BY <1>1 DEF Fields, Mask
  <1>3. CASE seen' = seen
    <2>1. Missed' = Missed
      BY <1>1, <1>2, <1>3 DEF Missed
    <2>2. step' = "missing" => Missed = {}
      BY DEF ReportInv, Field, FieldFails, Skip, End, Required, Trailing, Validate, Encode, cvars
    <2>3. \A missed : ReportOf(missed) => ReportOf(missed)'
      BY <1>1, <1>2, <1>3 DEF ReportOf
    <2> QED
      BY <1>1, <1>2, <1>3, <2>1, <2>2, <2>3 DEF ReportInv
  <1>4. CASE seen' # seen
    <2>1. /\ step \notin {"required", "missing"} /\ step' = "members"
          /\ seen' \subseteq Mask
      BY <1>2, <1>4 DEF Field, FieldFails, Skip, End, Required, Trailing, Validate,
                        Encode, cvars, CodecInv, ReadSoFar
    <2>2. failures = <<>> /\ DOMAIN failures = {}
      BY <2>1 DEF CodecInv, StepKnows
    <2>3. PICK missed \in [DOMAIN failures -> Mask \ seen] : TRUE
      BY DEF ReportInv
    <2>4. missed \in [DOMAIN failures' -> Mask' \ seen']
      BY <1>1, <1>2, <2>2, <2>3
    <2>5. ReportOf(missed)'
      BY <1>1, <2>2 DEF ReportOf
    <2> QED
      BY <1>1, <2>1, <2>4, <2>5 DEF ReportInv
  <1> QED
    BY <1>3, <1>4

(* A refusal names the missing fields, each once and in their order (the   *)
(* loop over the bits of the mask).                                        *)
THEOREM MissingAreNamed == Spec => []MissingNamed
PROOF
  <1>1. CodecInv /\ ReportInv /\ [Next]_cvars => ReportInv'
    BY ReportStep, ReportOtherSteps DEF Next
  <1>2. ASSUME CodecInv, ReportInv PROVE MissingNamed
    <2> SUFFICES ASSUME step = "missing" PROVE MissingNamed
      BY DEF MissingNamed
    <2>1. pos = Len(wire) /\ DOMAIN wire = 1 .. Len(wire)
      BY <1>2 DEF CodecInv, StepKnows, Shape
    <2>2. \A f \in Mask : f \in seen <=> Occurs(f)
      BY <1>2, <2>1 DEF CodecInv, ReadSoFar, Read, Occurs
    <2>3. Mask \ seen = {f \in Mask : ~Occurs(f)}
      BY <2>2
    <2>4. PICK missed \in [DOMAIN failures -> Mask \ seen] : ReportOf(missed)
      BY <1>2 DEF ReportInv
    <2>5. \A f \in Mask \ seen : \E n \in DOMAIN failures : missed[n] = f
      <3>1. Missed = {}
        BY <1>2 DEF ReportInv
      <3> SUFFICES ASSUME NEW f \in Mask \ seen
                   PROVE  \E n \in DOMAIN failures : missed[n] = f
        OBVIOUS
      <3>2. PICK n \in DOMAIN failures : failures[n] = Fields[f].name
        BY <3>1 DEF Missed
      <3>3. missed[n] \in Mask /\ Fields[missed[n]].name = Fields[f].name
        BY <2>4, <3>2 DEF ReportOf
      <3> QED
        BY <1>2, <3>3, FieldsFacts DEF CodecInv, Shape, Mask
    <2> QED
      BY <2>3, <2>4, <2>5 DEF MissingNamed, ReportOf
  <1> QED
    BY <1>1, <1>2, ReportInit, CodecInvariant, PTL DEF Spec

---------------------------------------------------------------------------
(* The second pass.                                                        *)

(* The elements of three sequences in a row.                               *)
LEMMA ThreeInARow ==
    ASSUME NEW M, NEW a \in Seq(M), NEW b \in Seq(M), NEW c \in Seq(M)
    PROVE  LET all == a \o b \o c IN
           /\ all \in Seq(M) /\ Len(all) = Len(a) + Len(b) + Len(c)
           /\ \A i \in 1 .. Len(a) : all[i] = a[i]
           /\ \A i \in 1 .. Len(b) : all[Len(a) + i] = b[i]
           /\ \A i \in 1 .. Len(c) : all[Len(a) + Len(b) + i] = c[i]
PROOF
  OBVIOUS

(* The members of an encoded struct are the fields that are set.           *)
LEMMA EncodedMembers ==
    ASSUME NEW s, NEW o, DOMAIN Fields \in {1 .. 2, 1 .. 3}
    PROVE  /\ Len(Encoded(s, o)) \in Nat /\ DOMAIN Encoded(s, o) = 1 .. Len(Encoded(s, o))
           /\ \A i \in DOMAIN Encoded(s, o) :
                 \E f \in DOMAIN Fields : Set(f, s) /\ Encoded(s, o)[i] = Put(f, s, o)
           /\ \A f \in DOMAIN Fields : Set(f, s) =>
                 \E i \in DOMAIN Encoded(s, o) : Encoded(s, o)[i] = Put(f, s, o)
PROOF
  <1> DEFINE M == {Put(f, s, o) : f \in 1 .. 3}
             part(f) == IF Set(f, s) THEN << Put(f, s, o) >> ELSE <<>>
             all == part(1) \o part(2) \o part(3)
  <1>1. \A f \in 1 .. 3 :
           /\ part(f) \in Seq(M)
           /\ Set(f, s) => Len(part(f)) = 1 /\ part(f)[1] = Put(f, s, o)
           /\ ~Set(f, s) => Len(part(f)) = 0
    <2> SUFFICES ASSUME NEW f \in 1 .. 3
                 PROVE  /\ part(f) \in Seq(M)
                        /\ Set(f, s) => Len(part(f)) = 1 /\ part(f)[1] = Put(f, s, o)
                        /\ ~Set(f, s) => Len(part(f)) = 0
      OBVIOUS
    <2>1. Put(f, s, o) \in M
      OBVIOUS
    <2> HIDE DEF M
    <2>2. CASE Set(f, s)
      <3>1. part(f) = << Put(f, s, o) >>
        BY <2>2
      <3> QED
        BY <2>1, <2>2, <3>1
    <2>3. CASE ~Set(f, s)
      <3>1. part(f) = <<>>
        BY <2>3
      <3> QED
        BY <2>3, <3>1
    <2> QED
      BY <2>2, <2>3
  <1>2. Encoded(s, o) = all
    BY DEF Encoded
  <1>3. \A f \in DOMAIN Fields : f \in 1 .. 3
    OBVIOUS
  <1>4. \A f : Set(f, s) => f \in DOMAIN Fields
    BY DEF Set
  <1> HIDE DEF part, M
  <1>5. /\ all \in Seq(M) /\ Len(all) = Len(part(1)) + Len(part(2)) + Len(part(3))
        /\ \A i \in 1 .. Len(part(1)) : all[i] = part(1)[i]
        /\ \A i \in 1 .. Len(part(2)) : all[Len(part(1)) + i] = part(2)[i]
        /\ \A i \in 1 .. Len(part(3)) : all[Len(part(1)) + Len(part(2)) + i] = part(3)[i]
    BY <1>1, ThreeInARow
  <1> HIDE DEF all
  <1>6. Len(all) \in Nat /\ DOMAIN all = 1 .. Len(all)
    BY <1>5
  <1>7. ASSUME NEW i \in DOMAIN all
        PROVE  \E f \in 1 .. 3 : Set(f, s) /\ all[i] = Put(f, s, o)
    <2>1. \A f \in 1 .. 3 : Len(part(f)) \in {0, 1}
      BY <1>1
    <2>2. CASE i <= Len(part(1))
      BY <1>1, <1>5, <1>6, <2>1, <2>2
    <2>3. CASE i > Len(part(1)) /\ i <= Len(part(1)) + Len(part(2))
      <3>1. i = Len(part(1)) + 1 /\ Len(part(2)) = 1
        BY <1>5, <1>6, <2>1, <2>3
      <3> QED
        BY <1>1, <1>5, <3>1
    <2>4. CASE i > Len(part(1)) + Len(part(2))
      <3>1. i = Len(part(1)) + Len(part(2)) + 1 /\ Len(part(3)) = 1
        BY <1>5, <1>6, <2>1, <2>4
      <3> QED
        BY <1>1, <1>5, <3>1
    <2> QED
      BY <1>5, <1>6, <2>1, <2>2, <2>3, <2>4
  <1>8. \A f \in 1 .. 3 : Set(f, s) => \E i \in DOMAIN all : all[i] = Put(f, s, o)
    <2>1. Set(1, s) => 1 \in DOMAIN all /\ all[1] = Put(1, s, o)
      BY <1>1, <1>5, <1>6
    <2>2. Set(2, s) => Len(part(1)) + 1 \in DOMAIN all /\ all[Len(part(1)) + 1] = Put(2, s, o)
      BY <1>1, <1>5, <1>6
    <2>3. Set(3, s) => /\ Len(part(1)) + Len(part(2)) + 1 \in DOMAIN all
                       /\ all[Len(part(1)) + Len(part(2)) + 1] = Put(3, s, o)
      BY <1>1, <1>5, <1>6
    <2> QED
      BY <2>1, <2>2, <2>3
  <1> QED
    BY <1>2, <1>3, <1>4, <1>6, <1>7, <1>8

(* The kinds there are.                                                    *)
LEMMA Kinds ==
    ASSUME type \in Types, NEW f \in DOMAIN Fields
    PROVE  Fields[f].kind \in {"string", "object", "enum", "text", "uuid", "date"}
PROOF
  <1>1. CASE type = "CreateTaskRequest"
    <2>1. Fields = CreateTaskRequest
      BY <1>1 DEF Fields, Structs
    <2> QED
      BY <2>1 DEF CreateTaskRequest
  <1>2. CASE type = "Error"
    <2>1. Fields = Error
      BY <1>2 DEF Fields, Structs
    <2> QED
      BY <2>1 DEF Error
  <1>3. CASE type = "Task"
    <2>1. Fields = Task
      BY <1>3 DEF Fields, Structs
    <2> QED
      BY <2>1 DEF Task
  <1> QED
    BY <1>1, <1>2, <1>3 DEF Types

(* What the field decoders and validators take.                            *)
LEMMA DecodesIs ==
    ASSUME NEW v
    PROVE  /\ Decodes("object", v) <=> v.kind = "object"
           /\ Decodes("string", v) <=> v.kind = "string"
           /\ Decodes("text", v) <=> v.kind = "string"
           /\ Decodes("enum", v) <=> v.kind = "string"
           /\ Decodes("uuid", v) <=> v.kind = "string" /\ v.text \in Proper
           /\ Decodes("date", v) <=> v.kind = "string" /\ v.text \in Proper
PROOF
  BY DEF Decodes, DecodePayload, DecodeStr, DecodeEnum, DecodeUUID, DecodeDateTime

(* What a field says on the wire is as proper as it was, and says itself.  *)
LEMMA SaidFacts ==
    ASSUME NEW f \in DOMAIN Fields, NEW text
    PROVE  /\ text \in Proper => Said(f, text) \in Proper
           /\ text \in Proper \cup {Odd} => Said(f, text) \in Proper \cup {Odd}
           /\ Said(f, text) = Unset <=> text = Unset
           /\ Said(f, Said(f, text)) = Said(f, text)
PROOF
  BY WordsAssumption, DatesAssumption DEF Said, EncodeDateTime

(* The value that says it, whatever order a payload is written in.         *)
LEMMA OnTheWireIs ==
    ASSUME NEW f \in DOMAIN Fields, NEW text, NEW o
    PROVE  /\ OnTheWire(f, text, o).kind =
                IF Fields[f].kind = "object" THEN "object" ELSE "string"
           /\ OnTheWire(f, text, o).text = Said(f, text)
           /\ OnTheWire(f, Said(f, text), o) = OnTheWire(f, text, o)
PROOF
  <1>1. Said(f, Said(f, text)) = Said(f, text)
    BY SaidFacts
  <1>2. Fields[f].kind = "object" => Said(f, text) = text
    BY DEF Said
  <1> QED
    BY <1>1, <1>2 DEF OnTheWire

(* A field of a sound struct decodes and passes its validator.             *)
LEMMA PutDecodes ==
    ASSUME type \in Types, NEW s, NEW o, Sound(s), NEW f \in DOMAIN Fields, Set(f, s)
    PROVE  /\ Decodes(Fields[f].kind, Put(f, s, o).value)
           /\ Valid(Fields[f].kind, Put(f, s, o).value.text)
           /\ Put(f, s, o).name = Fields[f].name
           /\ Put(f, s, o).value.text = Said(f, s[f])
           /\ Put(f, s, o).value.text \in Proper \cup {Odd}
           /\ Put(f, s, o).value.kind = "object" => Put(f, s, o).value.text \in Proper
PROOF
  <1> DEFINE v == Put(f, s, o).value
  <1>1. /\ Put(f, s, o).name = Fields[f].name /\ v.text = Said(f, s[f])
        /\ v.kind = IF Fields[f].kind = "object" THEN "object" ELSE "string"
    BY OnTheWireIs DEF Put
  <1>2. s[f] \in Proper \cup {Odd} /\ (Fields[f].kind # "text" => s[f] \in Proper)
    BY DEF Sound, Set
  <1>3. v.text \in Proper \cup {Odd} /\ (Fields[f].kind # "text" => v.text \in Proper)
    BY <1>1, <1>2, SaidFacts
  <1>4. Fields[f].kind \in {"string", "object", "enum", "text", "uuid", "date"}
    BY Kinds
  <1> HIDE DEF v
  <1>5. Decodes(Fields[f].kind, v)
    BY <1>1, <1>3, <1>4, DecodesIs
  <1>6. Valid(Fields[f].kind, v.text)
    BY <1>3 DEF Valid, ValidString, ValidEnum
  <1> QED
    BY <1>1, <1>3, <1>5, <1>6 DEF v

(* What is accepted is sound.                                              *)
LEMMA AcceptedIsSound ==
    ASSUME CodecInv, PassInv, step = "valid"
    PROVE  Sound(struct)
PROOF
  <1>1. /\ type \in Types /\ DOMAIN struct = DOMAIN Fields /\ DOMAIN wire = 1 .. pos
    BY DEF CodecInv, Shape, StepKnows
  <1>2. ASSUME NEW f \in DOMAIN Fields
        PROVE  IF struct[f] = Unset THEN ~Fields[f].required
               ELSE struct[f] \in Proper \cup {Odd}
                      /\ (Fields[f].kind # "text" => struct[f] \in Proper)
    <2>1. CASE ~Read(f)
      <3>1. struct[f] = Unset /\ f \notin Mask
        BY <2>1 DEF CodecInv, ReadSoFar, StepKnows
      <3> QED
        BY <3>1 DEF Mask
    <2>2. CASE Read(f)
      <3>1. PICK i \in 1 .. pos : LastOf(f, i, pos) /\ struct[f] = wire[i].value.text
        BY <2>2 DEF CodecInv, ReadSoFar, Latest
      <3>2. /\ struct[f] \in Proper \cup {Odd} /\ struct[f] # Unset
            /\ wire[i].value.kind = "object" => struct[f] \in Proper
        BY <1>1, <3>1, WordsAssumption DEF PassInv
      <3>3. Decodes(Fields[f].kind, wire[i].value)
        BY <3>1 DEF CodecInv, ReadSoFar, LastOf
      <3>4. Valid(Fields[f].kind, struct[f])
        BY DEF CodecInv, StepKnows
      <3>5. Fields[f].kind # "text" => struct[f] \in Proper
        BY <1>1, <3>1, <3>2, <3>3, <3>4, Kinds, DecodesIs DEF Valid, ValidString, ValidEnum
      <3> QED
        BY <3>2, <3>5
    <2> QED
      BY <2>1, <2>2
  <1> QED
    BY <1>1, <1>2 DEF Sound

(* A body has texts in it, and nothing has been accepted before the first  *)
(* pass.                                                                   *)
LEMMA PassInit == Init => PassInv
PROOF
  <1> SUFFICES ASSUME Init PROVE PassInv
    OBVIOUS
  <1>1. struct = [f \in DOMAIN Fields |-> struct[f]] /\ accepted = <<>>
    BY DEF Init, Zero
  <1>2. PICK n \in 0 .. MaxMembers :
           wire \in [1 .. n -> [name : {Fields[i].name : i \in DOMAIN Fields},
                                value : Value] \cup {Stranger}]
    BY DEF Init, Bodies
  <1>3. \A v \in Value \cup {Stranger.value} :
           v.text \in Proper \cup {Odd} /\ (v.kind = "object" => v.text \in Proper)
    BY DEF Value, Stranger
  <1>4. \A i \in DOMAIN wire : wire[i].value \in Value \cup {Stranger.value}
    BY <1>2
  <1> QED
    BY <1>1, <1>3, <1>4 DEF PassInv

(* The encoder writes what was accepted.                                   *)
LEMMA PassEncode ==
    ASSUME CodecInv, PassInv, Encode
    PROVE  PassInv'
PROOF
  <1>1. PICK o \in Orders :
           /\ type' = type /\ accepted' = struct /\ wire' = encodeFields(o) /\ rest' = "eof"
           /\ struct' = Zero /\ step = "valid"
    BY DEF Encode
  <1>2. Fields' = Fields /\ type \in Types
    BY <1>1 DEF Fields, CodecInv, Shape
  <1>3. encodeFields(o) = Encoded(struct, o)
    BY DEF encodeFields, IfWritten, Written, Encoded, Set, Put
  <1>4. Sound(struct)
    BY <1>1, AcceptedIsSound
  <1>5. wire' = Encoded(accepted, o)'
    BY <1>1, <1>2, <1>3 DEF Encoded, Set, Put, OnTheWire, Said
  <1>6. \A i \in DOMAIN wire' :
           /\ wire'[i].value.text \in Proper \cup {Odd}
           /\ wire'[i].value.kind = "object" => wire'[i].value.text \in Proper
    BY <1>1, <1>2, <1>3, <1>4, FieldsFacts, EncodedMembers, PutDecodes
  <1>7. (struct = [f \in DOMAIN Fields |-> struct[f]])'
    BY <1>1, <1>2 DEF Zero
  <1>8. Sound(accepted)'
    BY <1>1, <1>2, <1>4 DEF Sound
  <1> QED
    BY <1>1, <1>5, <1>6, <1>7, <1>8 DEF PassInv

(* Reading leaves the body and what was accepted before alone; only the    *)
(* encoder changes them.                                                   *)
LEMMA PassStep == CodecInv /\ PassInv /\ [Next]_cvars => PassInv'
PROOF
  <1> SUFFICES ASSUME CodecInv, PassInv, [Next]_cvars, ~Encode PROVE PassInv'
    BY PassEncode
  <1>1. /\ type' = type /\ wire' = wire /\ rest' = rest /\ accepted' = accepted
        /\ \/ struct' = struct
           \/ \E i \in DOMAIN Fields : \E text : struct' = [struct EXCEPT ![i] = text]
    BY DEF Next, cvars, Field, FieldFails, ReportMissing, Skip, End, Required,
           Trailing, Validate
  <1>2. Fields' = Fields
    BY <1>1 DEF Fields
  <1>3. (struct = [f \in DOMAIN Fields |-> struct[f]])'
    BY <1>1, <1>2 DEF PassInv
  <1>4. ASSUME accepted # <<>>
        PROVE  Sound(accepted)' /\ \A o \in Orders : Encoded(accepted, o)' = Encoded(accepted, o)
    BY <1>1, <1>2, <1>4 DEF PassInv, Sound, Encoded, Set, Put, OnTheWire, Said
  <1> QED
    BY <1>1, <1>3, <1>4 DEF PassInv

(* What one side has accepted the other side accepts, with the same        *)
(* fields, and encodes to what it has read, up to the order of the         *)
(* payload's members (the codecs of oas_json_gen.go, one against the       *)
(* other).                                                                 *)
LEMMA RoundTripLemma ==
    ASSUME CodecInv, PassInv, LastWins, VerdictDeserved
    PROVE  RoundTrip
PROOF
  <1> SUFFICES ASSUME accepted # <<>>, step \in Verdict PROVE RoundTrip
    BY DEF RoundTrip
  <1> DEFINE a == accepted
  <1>0. PICK o \in Orders : wire = Encoded(a, o)
    BY DEF PassInv
  <1>1. /\ type \in Types /\ rest = "eof" /\ Sound(a) /\ wire = Encoded(a, o)
        /\ DOMAIN Fields \in {1 .. 2, 1 .. 3}
        /\ \A f, g \in DOMAIN Fields : Fields[f].name = Fields[g].name => f = g
    BY <1>0, FieldsFacts DEF CodecInv, Shape, PassInv
  <1> HIDE DEF a
  <1>2. ASSUME NEW f \in DOMAIN Fields, NEW i \in DOMAIN wire,
               wire[i].name = Fields[f].name
        PROVE  Set(f, a) /\ wire[i] = Put(f, a, o)
    <2>1. PICK g \in DOMAIN Fields : Set(g, a) /\ wire[i] = Put(g, a, o)
      BY <1>1, EncodedMembers
    <2>2. g = f
      BY <1>1, <1>2, <2>1, PutDecodes
    <2> QED
      BY <2>1, <2>2
  <1>3. \A f \in DOMAIN Fields : Set(f, a) => \E i \in DOMAIN wire : wire[i] = Put(f, a, o)
    BY <1>1, EncodedMembers
  <1>4. WellTyped
    BY <1>1, <1>2, PutDecodes DEF WellTyped
  <1>5. Complete
    BY <1>1, <1>3, PutDecodes DEF Complete, Mask, Set, Occurs
  <1>6. AllValid
    <2> SUFFICES ASSUME NEW f \in DOMAIN Fields, NEW i \in DOMAIN wire,
                        LastOf(f, i, Len(wire))
                 PROVE  Valid(Fields[f].kind, wire[i].value.text)
      BY DEF AllValid
    <2> QED
      BY <1>1, <1>2, PutDecodes DEF LastOf
  <1>7. step = "valid" /\ pos = Len(wire) /\ DOMAIN wire = 1 .. pos
    BY <1>1, <1>4, <1>5, <1>6 DEF VerdictDeserved, Malformed, CodecInv, StepKnows, Shape
  <1>8. ASSUME NEW f \in DOMAIN Fields PROVE struct[f] = Said(f, a[f])
    <2>1. CASE Set(f, a)
      <3>1. Read(f)
        BY <1>1, <1>3, <1>7, <2>1, PutDecodes DEF Read
      <3>2. PICK i \in 1 .. pos : LastOf(f, i, pos) /\ struct[f] = wire[i].value.text
        BY <3>1 DEF CodecInv, ReadSoFar, Latest
      <3> QED
        BY <1>1, <1>2, <1>7, <2>1, <3>2, PutDecodes DEF LastOf
    <2>2. CASE ~Set(f, a)
      <3>1. ~Read(f)
        BY <1>2, <1>7, <2>2 DEF Read
      <3>2. struct[f] = Unset /\ a[f] = Unset
        BY <2>2, <3>1 DEF CodecInv, ReadSoFar, Set
      <3> QED
        BY <3>2, SaidFacts
    <2> QED
      BY <2>1, <2>2
  <1>9. struct = [f \in DOMAIN Fields |-> Said(f, a[f])]
    BY <1>8 DEF PassInv
  <1>10. encodeFields(o) = wire
    <2>1. ASSUME NEW f \in DOMAIN Fields
          PROVE  (Set(f, struct) <=> Set(f, a)) /\ Put(f, struct, o) = Put(f, a, o)
      BY <1>8, SaidFacts, OnTheWireIs DEF Set, Put
    <2>2. \A f : f \notin DOMAIN Fields => ~Set(f, struct) /\ ~Set(f, a)
      BY DEF Set
    <2>3. Encoded(struct, o) = Encoded(a, o)
      BY <2>1, <2>2 DEF Encoded
    <2>4. encodeFields(o) = Encoded(struct, o)
      BY DEF encodeFields, IfWritten, Written, Encoded, Set, Put
    <2> QED
      BY <1>1, <2>3, <2>4
  <1> QED
    BY <1>7, <1>9, <1>10 DEF RoundTrip, a

(* A value that one side has accepted survives the other: it is accepted   *)
(* again, read as the same fields, a date in whole seconds, and written as *)
(* the same body but for the order of the payload's members, which ranging *)
(* over a map leaves open (Encode and Decode of oas_json_gen.go).          *)
THEOREM RoundTripIsStable == Spec => []RoundTrip
PROOF
  BY PassInit, PassStep, RoundTripLemma, CodecInvariant, LastOneWins, VerdictIsDeserved,
     PTL DEF Spec
=============================================================================
