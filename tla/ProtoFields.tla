------------------------------ MODULE ProtoFields ------------------------------
(***************************************************************************)
(* The fields that the message types of src/proto/waku/v2 are made of.  A  *)
(* type is the list of its fields.                                         *)
(***************************************************************************)
EXTENDS Integers

CONSTANT Undefined   \* the JavaScript value

Plain == [tag |-> "plain"]
Bytes == [tag |-> "bytes"]
UInt64 == [tag |-> "uint64"]
Enum(names) == [tag |-> "enum", names |-> names]

(* A field that is left out when it has its zero value and has it when left *)
(* out; one that is left out when undefined; a message; a list of messages. *)
Implicit(num, name, type, zero) ==
    [num |-> num, name |-> name, rule |-> "implicit", type |-> type, zero |-> zero]
Optional(num, name, type) ==
    [num |-> num, name |-> name, rule |-> "optional", type |-> type, zero |-> Undefined]
Embedded(num, name, type) ==
    [num |-> num, name |-> name, rule |-> "message", type |-> type, zero |-> Undefined]
Repeated(num, name, type) ==
    [num |-> num, name |-> name, rule |-> "repeated", type |-> type, zero |-> <<>>]

(* UNRECOGNIZED, of every enumeration. *)
Unrecognized == -1

=============================================================================
