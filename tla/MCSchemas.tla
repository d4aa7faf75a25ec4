----------------------------- MODULE MCSchemas ------------------------------
(***************************************************************************)
(* Instance of Schemas for TLC: one attribute beside the id, of types that *)
(* differ in each thing a push may change.                                 *)
(***************************************************************************)
EXTENDS Schemas

Type(kind, items, enum, optional, nullable) ==
  [kind |-> kind, items |-> items, enum |-> enum, optional |-> optional, nullable |-> nullable]

Text == Type("string", "none", {}, FALSE, FALSE)

MCTypes == {
  Text,
  Type("string", "none", {}, TRUE, FALSE),
  Type("string", "none", {}, FALSE, TRUE),
  Type("string", "none", {"x"}, TRUE, FALSE),
  Type("set", "string", {}, TRUE, FALSE)}

V(kind, of) == [kind |-> kind, of |-> of]

MCNone == V("none", "none")

MCIdValue == V("string", "id")

MCValues == {MCNone, MCIdValue, V("string", "x"), V("set", "string")}
Declares(type) == [a \in Attrs |-> IF a = Id THEN Text ELSE type]

MCClientSchemas == {NoSchema, [a \in {Id} |-> Text], Declares(Text),
                    Declares(Type("string", "none", {"x"}, TRUE, FALSE))}
=============================================================================
