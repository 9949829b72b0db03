------------------------------ MODULE FieldTables ------------------------------
(***************************************************************************)
(* The fields of a Database and of a Job, and the kind of conversion each  *)
(* has in the Create request, in the Update request and in what is read.   *)
(***************************************************************************)
EXTENDS Naturals, FieldKinds

Sent == INSTANCE FieldsSent
Resent == INSTANCE FieldsUpdated
Got == INSTANCE FieldsRead

Created == [Job |-> Struct(Sent!Job), Database |-> Struct(Sent!Database)]
Updated == [Job |-> Struct(Resent!Job), Database |-> Struct(Resent!Database)]
Observed == [Job |-> Struct(Got!Job), Database |-> Struct(Got!Database)]

(* The identity of a resource, which Controller is about, and the tags,    *)
(* which TagSync is about.                                                 *)
Elsewhere == {<<"Job", "Name">>, <<"Database", "Name">>, <<"Job", "Tags">>}
AllFields == {p \in Paths(Created) : Len(p) > 1} \ Elsewhere

CreateKinds == [p \in AllFields |-> KindAt(Created, p)]
UpdateKinds == [p \in AllFields |-> KindAt(Updated, p)]
ReadKinds == [p \in AllFields |-> KindAt(Observed, p)]
===============================================================================
