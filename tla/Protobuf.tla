-------------------------------- MODULE Protobuf --------------------------------
(***************************************************************************)
(* What the generated code of src/proto/waku/v2 does with a message type.  *)
(* Every type has the same five functions (encode, decode, toJSON,         *)
(* fromJSON, fromPartial), which differ in the list of fields only: a type *)
(* is that list (ProtoFields), the functions are operators on it.  Those   *)
(* of the messages it embeds, which they call, are parameters.             *)
(*                                                                         *)
(* A message is a record of its fields, Undefined where JavaScript has no  *)
(* value.  Encoded it is the sequence of its fields as they come on the    *)
(* wire, each with its number; the bytes of a field are abstract.          *)
(***************************************************************************)
EXTENDS ProtoFields, Sequences, SequencesExt

CONSTANTS
    MaxSafeInteger,                                \* Number.MAX_SAFE_INTEGER
    SubEncode(_, _), SubDecode(_, _), SubThrows(_, _),        \* the functions of the
    SubToJSON(_, _), SubFromJSON(_, _), SubFromPartial(_, _)  \* embedded messages

Names(T) == {T[i].name : i \in DOMAIN T}
FieldOf(T, name) == T[CHOOSE i \in DOMAIN T : T[i].name = name]

-----------------------------------------------------------------------------
(* encode and decode *)

(* Fields at their zero value and undefined ones are not written. *)
EncodeField(f, v) ==
    CASE f.rule = "repeated" -> [i \in DOMAIN v |-> [num |-> f.num, val |-> SubEncode(f.type, v[i])]]
      [] f.rule # "repeated" /\ v = f.zero -> <<>>
      [] f.rule = "message" /\ v # f.zero -> <<[num |-> f.num, val |-> SubEncode(f.type, v)]>>
      [] OTHER -> <<[num |-> f.num, val |-> v]>>

Encode(T, m) == FlattenSeq([i \in DOMAIN T |-> EncodeField(T[i], m[T[i].name])])

(* Mutant of Chosen: what has been set stays. *)
FirstChosen(occurrences) == Head(occurrences)

(* Of a field that occurs several times the last is kept: an embedded       *)
(* message replaces the one before and is not merged with it.               *)
Chosen(occurrences) == Last(occurrences)

(* What a field of that number has been set to, one after the other. *)
Occurrences(w, num) ==
    FlattenSeq([i \in DOMAIN w |-> IF w[i].num = num THEN <<w[i].val>> ELSE <<>>])

DecodeField(f, w) ==
    LET all == Occurrences(w, f.num) IN
    CASE f.rule = "repeated" -> [i \in DOMAIN all |-> SubDecode(f.type, all[i])]
      [] f.rule # "repeated" /\ all = <<>> -> f.zero
      [] f.rule = "message" /\ all # <<>> -> SubDecode(f.type, Chosen(all))
      [] OTHER -> Chosen(all)

(* A field of an unknown number is skipped. *)
Decode(T, w) == [name \in Names(T) |-> DecodeField(FieldOf(T, name), w)]

(* longToNumber throws on what a JavaScript number does not hold, also for  *)
(* an occurrence that a later one replaces.                                 *)
Throws(T, w) ==
    \E i \in DOMAIN w, j \in DOMAIN T :
        /\ w[i].num = T[j].num
        /\ IF T[j].rule \in {"message", "repeated"}
           THEN SubThrows(T[j].type, w[i].val)
           ELSE T[j].type.tag = "uint64" /\ w[i].val > MaxSafeInteger

-----------------------------------------------------------------------------
(* toJSON, fromJSON and fromPartial *)

(* The name of an enum value, or of none. *)
EnumToJSON(names, v) == IF v + 1 \in DOMAIN names THEN names[v + 1] ELSE "UNKNOWN"

(* Mutant of EnumFromJSON: the names count from one. *)
EnumFromJSONByPosition(names, name) ==
    IF name \in ToSet(names) THEN CHOOSE i \in DOMAIN names : names[i] = name ELSE Unrecognized

EnumFromJSON(names, name) ==
    IF name \in ToSet(names)
    THEN (CHOOSE i \in DOMAIN names : names[i] = name) - 1
    ELSE Unrecognized

(* base64FromBytes and bytesFromBase64 *)
Base64(bytes) == [base64 |-> bytes]
FromBase64(text) == text.base64

ScalarToJSON(type, v) ==
    CASE type.tag = "enum" -> EnumToJSON(type.names, v)
      [] type.tag = "bytes" -> Base64(v)
      [] OTHER -> v

ScalarFromJSON(type, o) ==
    CASE type.tag = "enum" -> EnumFromJSON(type.names, o)
      [] type.tag = "bytes" -> FromBase64(o)
      [] OTHER -> o

(* Undefined fields are left out. *)
ToJSON(T, m) ==
    [name \in {n \in Names(T) : FieldOf(T, n).rule = "repeated" \/ m[n] # Undefined} |->
        LET f == FieldOf(T, name) IN
        CASE f.rule = "repeated" -> [i \in DOMAIN m[name] |-> SubToJSON(f.type, m[name][i])]
          [] f.rule = "message" -> SubToJSON(f.type, m[name])
          [] OTHER -> ScalarToJSON(f.type, m[name])]

(* No value of JSON is undefined. *)
FromJSON(T, o) ==
    [name \in Names(T) |->
        LET f == FieldOf(T, name) IN
        CASE name \notin DOMAIN o -> f.zero
          [] name \in DOMAIN o /\ f.rule = "repeated" ->
                [i \in DOMAIN o[name] |-> SubFromJSON(f.type, o[name][i])]
          [] name \in DOMAIN o /\ f.rule = "message" -> SubFromJSON(f.type, o[name])
          [] OTHER -> ScalarFromJSON(f.type, o[name])]

(* What is undefined gets its default, as what is left out does. *)
Given(o, name) == name \in DOMAIN o /\ o[name] # Undefined

FromPartial(T, o) ==
    [name \in Names(T) |->
        LET f == FieldOf(T, name) IN
        CASE ~Given(o, name) -> f.zero
          [] Given(o, name) /\ f.rule = "repeated" ->
                [i \in DOMAIN o[name] |-> SubFromPartial(f.type, o[name][i])]
          [] Given(o, name) /\ f.rule = "message" -> SubFromPartial(f.type, o[name])
          [] OTHER -> o[name]]

=============================================================================
