------------------------------ MODULE FieldKinds ------------------------------
(***************************************************************************)
(* The kinds of conversion between a field of a specification and a field  *)
(* of a Glue request or answer.  A type is a function from its fields to   *)
(* their kinds; the fields of a nested type are found under "of".          *)
(***************************************************************************)
EXTENDS Sequences, TLC

Leaf(wire) == [wire |-> wire, of |-> <<>>]

(* The pointer is passed on as it is (text, flags, floats, times). *)
Pointers(fields) == [f \in fields |-> Leaf("pointer")]

(* A pointer to text here, plain text there: empty text stands for nil. *)
Enums(fields) == [f \in fields |-> Leaf("enum")]

(* A pointer to 64 bits here, a pointer to 32 bits there. *)
Int32Pointers(fields) == [f \in fields |-> Leaf("int32 pointer")]

(* A pointer to 64 bits here, a plain 32-bit number there. *)
Int32Values(fields) == [f \in fields |-> Leaf("int32")]

(* A pointer to a flag here, a plain flag there. *)
BoolValues(fields) == [f \in fields |-> Leaf("bool")]

(* Slices and maps of text. *)
Collections(fields) == [f \in fields |-> Leaf("collection")]

(* A pointer to a nested type, and a slice or map of one. *)
Struct(type) == [wire |-> "struct", of |-> type]
Each(type) == [wire |-> "collection", of |-> type]

(* Every field below a type, and the kind of one: "none" if it is missing. *)
RECURSIVE Paths(_), KindAt(_, _)
Paths(type) ==
    UNION {{<<f>>} \cup {<<f>> \o p : p \in Paths(type[f].of)} :
           f \in DOMAIN type}
KindAt(type, path) ==
    IF Head(path) \notin DOMAIN type THEN "none"
    ELSE IF Len(path) = 1 THEN type[path[1]].wire
    ELSE KindAt(type[path[1]].of, Tail(path))
===============================================================================
