------------------------- MODULE FieldConversionProofs -------------------------
(***************************************************************************)
(* Proofs about FieldConversion, for every width of the narrow integers,   *)
(* everything users write and any table of fields whose four translations  *)
(* agree (the run "fields" finds that those of the code do).               *)
(***************************************************************************)
EXTENDS FieldConversion, TLAPS

LEMMA ChangesBound == MaxChanges \in Nat
BY FieldAssumption

(* Passing an integer that fits through the narrow type keeps it.          *)
LEMMA WrappedKeeps == ASSUME NEW n \in Narrow PROVE Wrapped(n) = n
<1>1. Half \in Nat \ {0}
  BY FieldAssumption
<1>2. n + Half \in 0..(2 * Half - 1)
  BY <1>1 DEF Narrow, MinInt, MaxInt
<1>3. (n + Half) % (2 * Half) = n + Half
  BY <1>1, <1>2
<1> QED  BY <1>1, <1>3 DEF Wrapped, Narrow, MinInt, MaxInt

(* Nil is no value of any kind. *)
LEMMA NilIsNoValue ==
    ASSUME NEW k \in Kinds
    PROVE  Nil \notin Values(k, Numbers) \cup Values(k, Narrow)
BY FieldAssumption DEF Values, Integral, Kinds

(* The builders pass on what was written, exactly.                         *)
LEMMA EncodeKeeps ==
    ASSUME NEW k \in Kinds,
           NEW v \in Values(k, Numbers) \cup Values(k, Narrow)
                         \cup {Unset(k), Nil},
           Fits(k, v)
    PROVE  /\ Encode(k, v) = IF v = Nil THEN Unset(k) ELSE v
           /\ Encode(k, v) \in Values(k, Narrow) \cup {Unset(k)}
<1>1. CASE v = Nil
  BY <1>1 DEF Encode
<1>2. CASE v # Nil /\ Integral(k)
  <2>1. v \in Narrow
    BY <1>2 DEF Fits
  <2>2. Encode(k, v) = v
    BY <1>2, <2>1, WrappedKeeps DEF Encode, Integral
  <2> QED  BY <1>2, <2>1, <2>2 DEF Values
<1>3. CASE v # Nil /\ ~Integral(k)
  <2>1. Encode(k, v) = v
    BY <1>3 DEF Encode, Kinds
  <2>2. Values(k, Numbers) = Values(k, Narrow)
    BY <1>3 DEF Values, Integral, Kinds
  <2> QED  BY <1>3, <2>1, <2>2
<1> QED  BY <1>1, <1>2, <1>3

(* Nothing is to be written for the field. *)
Quiet == ~Differs(field, spec, Decode(ReadKind[field], glue))

(* The current specification cannot be sent. *)
Unsendable == blocked \/ ~Fits(CreateKind[field], spec)

(* What two undisturbed passes rest on: the one under way knows the         *)
(* specification and the resource as they are, and one is behind us that   *)
(* could not send, or left nothing to write but what never rests.          *)
FieldInv ==
    /\ field \in Fields
    /\ pass = "observed" /\ calm >= 1 =>
          /\ desired = spec /\ stuck = blocked
          /\ latest = IF exists THEN Decode(ReadKind[field], glue) ELSE Nil
    /\ calm = 2 \/ (pass = "idle" /\ calm >= 1) =>
          Unsendable \/ (exists /\ (Quiet \/ Restless))
    /\ SuccessMeansApplied
    /\ WrittenFieldsRest

(* What a request for a specification that fits leaves in Glue. *)
LEMMA SendKeeps ==
    ASSUME TypeOK, field \in Fields, Agrees(field), NEW kind,
           kind \in {CreateKind[field], UpdateKind[field]}, Send(kind)
    PROVE  /\ kind = CreateKind[field]
           /\ glue' \in Kept(IF desired = Nil THEN Unset(kind) ELSE desired)
           /\ glue' \in WireValues(field)
<1> DEFINE k == CreateKind[field]
<1>1. kind = k /\ k \in Kinds
  BY FieldAssumption DEF Agrees
<1>2. desired \in Values(k, Numbers) \cup Values(k, Narrow) \cup {Unset(k), Nil}
  BY DEF TypeOK, SpecValues, WireValues
<1>3. /\ Encode(k, desired) = IF desired = Nil THEN Unset(k) ELSE desired
      /\ Encode(k, desired) \in WireValues(field)
  BY <1>1, <1>2, EncodeKeeps DEF Send, WireValues
<1>4. k = "collection" => Nil \in WireValues(field)
  BY DEF Unset, WireValues
<1>5. glue' \in Kept(Encode(k, desired)) /\ own \in WireValues(field)
  BY <1>1 DEF Send, TypeOK
<1> QED  BY <1>1, <1>3, <1>4, <1>5 DEF Kept

(* The field that is followed is one of the table's, and every variable    *)
(* keeps its type.                                                         *)
LEMMA TypeInvariant ==
    ASSUME \A p \in Fields : Agrees(p)
    PROVE  Spec => [](field \in Fields /\ TypeOK)
<1> DEFINE Inv == field \in Fields /\ TypeOK
<1>1. Init => Inv
  <2> SUFFICES ASSUME Init PROVE Inv
    OBVIOUS
  <2>1. 0 \in 0..MaxChanges /\ 0 \in 0..2
    BY ChangesBound
  <2>2. Nil \in SpecValues(field) /\ Unset(CreateKind[field]) \in WireValues(field)
    BY DEF SpecValues, WireValues
  <2>3. blocked \in BOOLEAN
    BY DEF Init
  <2> QED  BY <2>1, <2>2, <2>3 DEF Init, TypeOK
<1>2. Inv /\ [Next]_vars => Inv'
  <2> SUFFICES ASSUME Inv, [Next]_vars PROVE Inv'
    OBVIOUS
  <2>0. Agrees(field) /\ ReadKind[field] = CreateKind[field]
    BY DEF Agrees
  <2>r. \A w \in WireValues(field) : Decode(ReadKind[field], w) \in WireValues(field) \cup {Nil}
    BY DEF Decode
  <2>w. \A w \in WireValues(field) : Kept(w) \subseteq WireValues(field)
    <3>1. CreateKind[field] = "collection" => Nil \in WireValues(field)
      BY DEF Unset, WireValues
    <3> QED  BY <3>1 DEF Kept, TypeOK
  <2>l. ASSUME LateInitialize, glue' \in WireValues(field)
        PROVE  spec' \in SpecValues(field) \cup WireValues(field)
    BY <2>l, <2>r DEF LateInitialize, TypeOK, SpecValues
  <2>f. ASSUME NEW result \in {"ok", "error"}, NEW sent \in BOOLEAN,
               Finish(result, sent), exists' \in BOOLEAN,
               glue' \in WireValues(field),
               spec' \in SpecValues(field) \cup WireValues(field)
        PROVE  Inv'
    BY <2>f DEF Finish, TypeOK, SpecValues, WireValues
  <2>s. ASSUME NEW kind \in {CreateKind[field], UpdateKind[field]},
               Send(kind) \/ Unbuildable(kind)
        PROVE  Inv'
    <3>1. CASE Send(kind)
      BY <3>1, <2>0, <2>l, <2>f, SendKeeps DEF Send
    <3>2. CASE Unbuildable(kind)
      BY <3>2, <2>f DEF Unbuildable, TypeOK
    <3> QED  BY <2>s, <3>1, <3>2
  <2>1. CASE Edit
    <3>1. changes' \in 0..MaxChanges
      BY <2>1, ChangesBound DEF Edit, TypeOK
    <3>2. spec' \in SpecValues(field) /\ blocked' \in BOOLEAN
      BY <2>1 DEF Edit
    <3> QED  BY <2>1, <3>1, <3>2 DEF Edit, TypeOK, SpecValues, WireValues
  <2>2. CASE Drift
    <3>1. glue' \in WireValues(field)
      BY <2>2, <2>w DEF Drift
    <3>2. changes' \in 0..MaxChanges
      BY <2>2, ChangesBound DEF Drift, TypeOK
    <3> QED  BY <2>2, <3>1, <3>2 DEF Drift, TypeOK, SpecValues, WireValues
  <2>3. CASE Observe
    <3>1. latest' \in WireValues(field) \cup {Nil}
      BY <2>3, <2>r DEF Observe, TypeOK
    <3>2. calm \in 0..2 /\ calm' = IF calm = 2 THEN 2 ELSE calm + 1
      BY <2>3 DEF Observe, TypeOK
    <3>3. calm' \in 0..2
      BY <3>2
    <3> QED  BY <2>3, <3>1, <3>3 DEF Observe, TypeOK, SpecValues, WireValues
  <2>4. CASE Create
    BY <2>4, <2>s DEF Create
  <2>5. CASE Update
    BY <2>5, <2>s DEF Update
  <2>6. CASE AtRest
    BY <2>6, <2>l, <2>f DEF AtRest, TypeOK
  <2>7. CASE UNCHANGED vars
    BY <2>7 DEF vars, TypeOK, SpecValues, WireValues
  <2> QED  BY <2>1, <2>2, <2>3, <2>4, <2>5, <2>6, <2>7 DEF Next
<1> QED  BY <1>1, <1>2, PTL DEF Spec

(* What Glue holds fits the width of the request's field, and a plain      *)
(* field of a request is never left undefined, whatever users write        *)
(* (newCreateRequestPayload, newJobUpdate).                                *)
THEOREM TypeCorrect ==
    ASSUME \A p \in Fields : Agrees(p)
    PROVE  Spec => []TypeOK
BY TypeInvariant, PTL

-------------------------------------------------------------------------------
(* The cases of the operators, kind by kind.                               *)
LEMMA UnsetOf ==
    ASSUME NEW k \in Kinds
    PROVE  /\ k = "int32" => Unset(k) = 0
           /\ k = "bool" => Unset(k) = FALSE
           /\ k = "enum" => Unset(k) = ""
           /\ k \notin {"int32", "bool", "enum"} => Unset(k) = Nil
BY DEF Unset

LEMMA DiffersOf ==
    ASSUME NEW p \in Fields, Agrees(p), NEW v, NEW w
    PROVE  /\ CreateKind[p] = "collection"
                 => (Differs(p, v, w) <=> OrEmpty(v) # OrEmpty(w))
           /\ p \in NilEqualsZero
                 => (Differs(p, v, w) <=> v # w /\ {v, w} # {Nil, ""})
           /\ CreateKind[p] # "collection" /\ p \notin NilEqualsZero
                 => (Differs(p, v, w) <=> v # w)
BY DEF Differs, Agrees

LEMMA PlainOf ==
    ASSUME NEW v
    PROVE  /\ CreateKind[field] = "collection" => Plain(v) = OrEmpty(v)
           /\ CreateKind[field] \in {"pointer", "enum"}
                 => Plain(v) = IF v = Nil THEN "" ELSE v
           /\ CreateKind[field] \notin {"collection", "pointer", "enum"}
                 => Plain(v) = v
BY DEF Plain

(* A plain number or flag is never nil.                                    *)
LEMMA PlainFieldsSet ==
    ASSUME TypeOK, field \in Fields, CreateKind[field] \in {"int32", "bool"}
    PROVE  glue # Nil
<1>1. 0 \in Narrow /\ Nil \notin Narrow
  <2>1. Half \in Nat \ {0}
    BY FieldAssumption
  <2>2. 0 \in Narrow
    BY <2>1 DEF Narrow, MinInt, MaxInt
  <2> QED  BY <2>2, FieldAssumption
<1>2. Nil \notin BOOLEAN
  BY FieldAssumption
<1> QED  BY <1>1, <1>2, UnsetOf DEF TypeOK, WireValues, Values, Integral, Kinds

(* After a request for the current specification, what Glue holds is what  *)
(* was written, and the next pass has nothing to write but what never      *)
(* rests.                                                                  *)
LEMMA SendRests ==
    ASSUME TypeOK, field \in Fields, Agrees(field), desired = spec,
           NEW kind \in {CreateKind[field], UpdateKind[field]}, Send(kind)
    PROVE  /\ IF spec' = Nil \/ Unsayable(spec)'
              THEN Plain(glue)' \in {Plain(own)', Plain(Unset(CreateKind[field]))'}
              ELSE Plain(glue)' = Plain(spec)'
           /\ Quiet' \/ Restless'
<1> DEFINE k == CreateKind[field]
<1>1. /\ kind = k /\ k \in Kinds /\ ReadKind[field] = k
      /\ glue' \in Kept(IF spec = Nil THEN Unset(k) ELSE spec)
      /\ field' = field /\ own' = own
  BY SendKeeps, FieldAssumption DEF Agrees, Send, Finish
<1>2. spec' = IF LateInitialized(field) /\ spec = Nil /\ Decode(k, glue') # Nil
              THEN Decode(k, glue') ELSE spec
  BY <1>1 DEF Send, LateInitialize
<1>3. /\ LateInitialized(field) => k = "collection"
      /\ field \in NilEqualsZero => k = "pointer"
  BY DEF Agrees
<1>4. /\ Plain(glue)' = Plain(glue') /\ Plain(own)' = Plain(own)
      /\ Plain(spec)' = Plain(spec') /\ Plain(Unset(k))' = Plain(Unset(k))
      /\ Unsayable(spec)' <=> spec' # Nil /\ spec' = Unset(k)
      /\ Quiet' <=> ~Differs(field, spec', Decode(k, glue'))
  BY <1>1 DEF Plain, Unsayable, Quiet
<1>5. Restless' <=>
        /\ spec' = Nil \/ spec' = Unset(k)
        /\ ~LateInitialized(field)
        /\ ~(field \in NilEqualsZero /\ own = "")
        /\ \/ own # Unset(k)
           \/ k \in {"int32", "bool"} /\ spec' = Nil
           \/ k = "enum" /\ spec' = ""
  BY <1>1, <1>4 DEF Restless, Unsayable
<1>6. CASE spec = Nil \/ spec = Unset(k)
  <2>1. glue' = own
    BY <1>1, <1>6 DEF Kept
  <2>2. CASE spec' # spec
    <3>1. spec' = glue' /\ k = "collection" /\ spec' # Nil
      BY <1>2, <1>3, <2>2 DEF Decode
    <3> QED  BY <1>1, <1>3, <1>4, <3>1, UnsetOf, DiffersOf DEF Decode
  <2>3. CASE spec' = spec
    <3>1. Quiet' \/ Restless'
      <4> SUFFICES ASSUME ~Quiet' PROVE Restless'
        OBVIOUS
      <4>1. Differs(field, spec, Decode(k, own))
        BY <1>4, <2>1, <2>3
      <4>2. ~LateInitialized(field)
        BY <1>1, <1>2, <1>3, <1>6, <2>1, <2>3, <4>1, UnsetOf, DiffersOf DEF Decode
      <4>3. ~(field \in NilEqualsZero /\ own = "")
        BY <1>1, <1>3, <1>6, <4>1, UnsetOf, DiffersOf DEF Decode
      <4>4. own = Unset(k) => \/ k \in {"int32", "bool"} /\ spec = Nil
                              \/ k = "enum" /\ spec = ""
        <5> SUFFICES ASSUME own = Unset(k), k # "enum" \/ spec # ""
                     PROVE  k \in {"int32", "bool"} /\ spec = Nil
          OBVIOUS
        <5>1. spec # Decode(k, own)
          BY <1>1, <4>1, DiffersOf
        <5>2. k # "enum"
          BY <1>1, <1>6, <5>1, UnsetOf DEF Decode
        <5>3. Decode(k, own) = Unset(k) /\ spec = Nil
          BY <1>1, <1>6, <5>1, <5>2 DEF Decode, Kinds
        <5> QED  BY <1>1, <5>1, <5>2, <5>3, UnsetOf
      <4> QED  BY <1>5, <1>6, <2>3, <4>2, <4>3, <4>4
    <3> QED  BY <1>4, <1>6, <2>1, <2>3, <3>1
  <2> QED  BY <2>2, <2>3
<1>7. CASE spec # Nil /\ spec # Unset(k)
  <2>1. spec' = spec
    BY <1>2, <1>7
  <2>2. glue' = spec \/ (k = "collection" /\ spec = <<>> /\ glue' = Nil)
    BY <1>1, <1>7 DEF Kept
  <2>3. Plain(glue)' = Plain(spec)'
    BY <1>4, <2>1, <2>2, PlainOf DEF OrEmpty
  <2>4. Quiet'
    <3>1. Decode(k, glue') = glue'
      BY <1>1, <1>7, <2>2, UnsetOf DEF Decode, Kinds
    <3>2. CASE glue' = spec
      BY <1>1, <1>3, <1>4, <2>1, <3>1, <3>2, DiffersOf
    <3>3. CASE k = "collection" /\ spec = <<>> /\ glue' = Nil
      BY <1>4, <2>1, <3>1, <3>3, DiffersOf DEF OrEmpty
    <3> QED  BY <2>2, <3>2, <3>3
  <2> QED  BY <1>4, <1>7, <2>1, <2>3, <2>4
<1> QED  BY <1>6, <1>7

(* A pass that finds no difference leaves the same.                        *)
LEMMA RestStays ==
    ASSUME TypeOK, field \in Fields, Agrees(field), desired = spec,
           latest = Decode(ReadKind[field], glue), AtRest
    PROVE  /\ IF spec' = Nil \/ Unsayable(spec)'
              THEN Plain(glue)' \in {Plain(own)', Plain(Unset(CreateKind[field]))'}
              ELSE Plain(glue)' = Plain(spec)'
           /\ Quiet'
<1> DEFINE k == CreateKind[field]
<1>1. /\ k \in Kinds /\ ReadKind[field] = k
      /\ field' = field /\ own' = own /\ glue' = glue
      /\ ~Differs(field, spec, Decode(k, glue))
  BY FieldAssumption DEF Agrees, AtRest, MustUpdate, Finish
<1>2. spec' = IF LateInitialized(field) /\ spec = Nil /\ Decode(k, glue) # Nil
              THEN Decode(k, glue) ELSE spec
  BY <1>1 DEF AtRest, LateInitialize
<1>3. /\ LateInitialized(field) => k = "collection"
      /\ field \in NilEqualsZero => k = "pointer"
  BY DEF Agrees
<1>4. /\ Plain(glue)' = Plain(glue) /\ Plain(own)' = Plain(own)
      /\ Plain(spec)' = Plain(spec') /\ Plain(Unset(k))' = Plain(Unset(k))
      /\ Unsayable(spec)' <=> spec' # Nil /\ spec' = Unset(k)
      /\ Quiet' <=> ~Differs(field, spec', Decode(k, glue))
  BY <1>1 DEF Plain, Unsayable, Quiet
<1>5. CASE spec' # spec
  <2>1. spec' = glue /\ k = "collection" /\ spec' # Nil
    BY <1>2, <1>3, <1>5 DEF Decode
  <2> QED  BY <1>1, <1>3, <1>4, <2>1, UnsetOf, DiffersOf DEF Decode
<1>6. CASE spec' = spec
  <2>1. Quiet'
    BY <1>1, <1>4, <1>6
  <2>2. CASE k = "collection"
    <3>1. OrEmpty(spec) = OrEmpty(glue) /\ Unset(k) = Nil
      BY <1>1, <2>2, UnsetOf, DiffersOf DEF Decode
    <3> QED  BY <1>4, <1>6, <2>1, <2>2, <3>1, PlainOf
  <2>3. CASE field \in NilEqualsZero
    <3>1. spec = glue \/ {spec, glue} = {Nil, ""}
      BY <1>1, <1>3, <2>3, DiffersOf DEF Decode
    <3>2. Plain(spec) = Plain(glue) /\ Unset(k) = Nil
      BY <1>1, <1>3, <2>3, <3>1, PlainOf, UnsetOf
    <3> QED  BY <1>4, <1>6, <2>1, <3>2
  <2>4. CASE k # "collection" /\ field \notin NilEqualsZero
    <3>1. spec = Decode(k, glue)
      BY <1>1, <2>4, DiffersOf
    <3>2. spec = glue \/ (k = "enum" /\ glue = "" /\ spec = Nil)
      BY <1>1, <3>1 DEF Decode, Kinds
    <3>3. Plain(spec) = Plain(glue)
      BY <3>2, PlainOf
    <3>4. spec = Nil => Plain(glue) = Plain(Unset(k))
      <4>1. CASE k \in {"int32", "bool"}
        BY <3>2, <4>1, PlainFieldsSet
      <4>2. CASE k = "enum"
        <5>1. Plain(Nil) = "" /\ Plain("") = ""
          BY <4>2, PlainOf
        <5> QED  BY <1>1, <3>3, <4>2, <5>1, UnsetOf
      <4>3. CASE k \notin {"int32", "bool", "enum"}
        BY <1>1, <3>3, <4>3, UnsetOf
      <4> QED  BY <4>1, <4>2, <4>3
    <3> QED  BY <1>4, <1>6, <2>1, <3>3, <3>4
  <2> QED  BY <2>2, <2>3, <2>4
<1> QED  BY <1>5, <1>6

-------------------------------------------------------------------------------
LEMMA FieldInvariant ==
    ASSUME \A p \in Fields : Agrees(p)
    PROVE  Spec => []FieldInv
<1>1. Init => FieldInv
  BY DEF Init, FieldInv, SuccessMeansApplied, WrittenFieldsRest
<1>2. TypeOK /\ FieldInv /\ [Next]_vars => FieldInv'
  <2> SUFFICES ASSUME TypeOK, FieldInv, [Next]_vars PROVE FieldInv'
    OBVIOUS
  <2>0. /\ field \in Fields /\ Agrees(field)
        /\ UpdateKind[field] = CreateKind[field]
    BY DEF FieldInv, Agrees
  <2>1. CASE Edit
    BY <2>1 DEF Edit, FieldInv, SuccessMeansApplied, WrittenFieldsRest
  <2>2. CASE Drift
    BY <2>2 DEF Drift, FieldInv, SuccessMeansApplied, WrittenFieldsRest
  <2>3. CASE Observe
    <3>1. /\ pass = "idle" /\ pass' = "observed"
          /\ UNCHANGED <<field, own, spec, blocked, exists, glue>>
          /\ desired' = spec /\ stuck' = blocked
          /\ latest' = IF exists THEN Decode(ReadKind[field], glue) ELSE Nil
      BY <2>3 DEF Observe
    <3>2. calm' = 2 => calm >= 1
      <4>1. calm \in 0..2 /\ calm' = IF calm = 2 THEN 2 ELSE calm + 1
        BY <2>3 DEF Observe, TypeOK
      <4> QED  BY <4>1
    <3>3. /\ Unsendable' <=> Unsendable
          /\ Quiet' <=> Quiet
          /\ Restless' <=> Restless
      BY <3>1 DEF Unsendable, Quiet, Restless, Unsayable
    <3>4. calm' = 2 => Unsendable \/ (exists /\ (Quiet \/ Restless))
      BY <3>1, <3>2 DEF FieldInv
    <3> QED
      BY <2>0, <3>1, <3>3, <3>4
         DEF FieldInv, SuccessMeansApplied, WrittenFieldsRest
  <2>4. ASSUME NEW kind \in {CreateKind[field], UpdateKind[field]},
               Send(kind), pass = "observed",
               exists => MustUpdate
        PROVE  FieldInv'
    <3>1. /\ pass' = "idle" /\ outcome' = "ok" /\ exists' /\ calm' = calm
          /\ field' = field /\ own' = own /\ blocked' = blocked
          /\ ~stuck /\ Fits(CreateKind[field], desired)
      BY <2>0, <2>4 DEF Send, Finish
    <3>2. CASE calm >= 1
      <4>1. /\ desired = spec /\ stuck = blocked
            /\ latest = IF exists THEN Decode(ReadKind[field], glue) ELSE Nil
        BY <2>4, <3>2 DEF FieldInv
      <4>2. SuccessMeansApplied' /\ (Quiet' \/ Restless')
        BY <2>0, <2>4, <4>1, SendRests DEF SuccessMeansApplied
      <4>3. calm = 2 => Restless'
        <5> SUFFICES ASSUME calm = 2 PROVE Restless'
          OBVIOUS
        <5>1. ~Unsendable
          BY <3>1, <4>1 DEF Unsendable
        <5>2. exists /\ (Quiet \/ Restless)
          BY <5>1 DEF FieldInv
        <5>3. Restless
          BY <2>4, <3>1, <4>1, <5>2 DEF MustUpdate, Quiet
        <5>4. spec' = spec
          BY <2>4, <5>3 DEF Send, LateInitialize, Restless
        <5> QED  BY <3>1, <5>3, <5>4 DEF Restless, Unsayable
      <4> QED
        BY <2>0, <3>1, <4>2, <4>3 DEF FieldInv, WrittenFieldsRest
    <3>3. CASE ~(calm >= 1)
      BY <2>0, <3>1, <3>3 DEF FieldInv, TypeOK, SuccessMeansApplied, WrittenFieldsRest
    <3> QED  BY <3>2, <3>3
  <2>5. ASSUME NEW kind \in {CreateKind[field], UpdateKind[field]},
               Unbuildable(kind), pass = "observed"
        PROVE  FieldInv'
    <3>1. /\ pass' = "idle" /\ outcome' = "error" /\ calm' = calm
          /\ UNCHANGED <<field, spec, blocked>>
          /\ stuck \/ ~Fits(CreateKind[field], desired)
      BY <2>0, <2>5 DEF Unbuildable, Finish
    <3>2. calm >= 1 => Unsendable'
      BY <2>5, <3>1 DEF FieldInv, Unsendable
    <3>3. calm = 2 => calm >= 1
      OBVIOUS
    <3> QED
      BY <2>0, <3>1, <3>2, <3>3
         DEF FieldInv, SuccessMeansApplied, WrittenFieldsRest
  <2>6. CASE Create
    BY <2>4, <2>5, <2>6 DEF Create
  <2>7. CASE Update
    BY <2>4, <2>5, <2>7 DEF Update
  <2>8. CASE AtRest
    <3>1. /\ pass = "observed" /\ pass' = "idle" /\ exists /\ exists' = exists
          /\ calm' = calm /\ ~wrote' /\ field' = field
      BY <2>8 DEF AtRest, Finish
    <3>2. calm >= 1 => SuccessMeansApplied' /\ Quiet'
      BY <2>0, <2>8, <3>1, RestStays DEF FieldInv, SuccessMeansApplied
    <3>3. ~(calm >= 1) => SuccessMeansApplied'
      BY <3>1 DEF SuccessMeansApplied
    <3>4. calm = 2 => calm >= 1
      OBVIOUS
    <3> QED
      BY <2>0, <3>1, <3>2, <3>3, <3>4 DEF FieldInv, WrittenFieldsRest
  <2>9. CASE UNCHANGED vars
    BY <2>9 DEF vars, FieldInv, SuccessMeansApplied, WrittenFieldsRest,
       Unsendable, Quiet, Restless, Unsayable, Plain
  <2> QED  BY <2>1, <2>2, <2>3, <2>6, <2>7, <2>8, <2>9 DEF Next
<1> QED  BY <1>1, <1>2, TypeCorrect, PTL DEF Spec

(* After an undisturbed pass without an error Glue holds of every field    *)
(* what the user wrote, exact to the last bit, and of one left out nothing *)
(* that was there before (sdkCreate, sdkUpdate).                           *)
THEOREM SuccessIsApplied ==
    ASSUME \A p \in Fields : Agrees(p)
    PROVE  Spec => []SuccessMeansApplied
<1>1. FieldInv => SuccessMeansApplied
  BY DEF FieldInv
<1> QED  BY <1>1, FieldInvariant, PTL

(* The second of two undisturbed passes sends nothing, unless the field is *)
(* one that never rests (newResourceDelta and sdkFind undo each other).    *)
THEOREM WrittenFieldRests ==
    ASSUME \A p \in Fields : Agrees(p)
    PROVE  Spec => []WrittenFieldsRest
<1>1. FieldInv => WrittenFieldsRest
  BY DEF FieldInv
<1> QED  BY <1>1, FieldInvariant, PTL
===============================================================================
