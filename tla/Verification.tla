---------------------------- MODULE Verification ----------------------------
(***************************************************************************)
(* VerifySomeIpType::verify (types.rs) over a table of types.              *)
(*                                                                         *)
(* A module of its own, as it is asked of two tables: the one that the     *)
(* (de)serializer is given, a constant, and the one that the derive macro  *)
(* builds, a variable.                                                     *)
(***************************************************************************)
EXTENDS Integers, Sequences

CONSTANT Max32      \* u32::MAX

NoId == -1
MaxFieldId == 4095

IsFixed(ty) == ty.kind \in {"prim", "bool", "enum"}

(* A type, given which of the others are accepted; the values of an enum   *)
(* are not modelled.                                                       *)
VerifyType(ty, accepted) ==
    CASE IsFixed(ty) -> TRUE
      [] ty.kind = "string" -> ty.min <= ty.max /\ ty.max <= Max32
      [] ty.kind = "seq" -> ty.min <= ty.max /\ ty.max <= Max32 /\ accepted[ty.elem]
      [] ty.kind = "struct" ->
           \A i \in DOMAIN ty.fields :
              /\ ty.tlv <=> ty.fields[i].id # NoId
              /\ ty.fields[i].id <= MaxFieldId
              /\ accepted[ty.fields[i].type]

VerifyTable(table) ==
    LET accepted[t \in DOMAIN table] == VerifyType(table[t], accepted)
    IN  accepted
=============================================================================
