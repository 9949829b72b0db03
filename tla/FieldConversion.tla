---------------------------- MODULE FieldConversion ----------------------------
(***************************************************************************)
(* The way of one field between a custom resource and Glue: built into the *)
(* request (newCreateRequestPayload, newJobUpdate), kept by Glue, read by  *)
(* sdkFind, compared by newResourceDelta.  The field is any field, however *)
(* deeply nested, of a Database or a Job; the rest of the specification is *)
(* one flag, whether some other field keeps the request from being built.  *)
(***************************************************************************)
EXTENDS Integers, Sequences, TLC

CONSTANTS
    Fields,     \* paths into a resource: its kind, a field, a nested field ...
    CreateKind, \* the conversion of each in the Create request,
    UpdateKind, \* in the Update request
    ReadKind,   \* and in what sdkFind takes over ("none": not at all)
    Nil,        \* a nil pointer, map or slice
    Half,       \* half the number of narrow integers (2^31 in the code)
    Numbers, Texts, Lists,  \* what users write
    MaxChanges  \* bounds the edits and foreign writes

MaxInt == Half - 1
MinInt == -Half
Narrow == MinInt..MaxInt

(* The kinds of conversion (FieldKinds). *)
Kinds == {"int32", "int32 pointer", "bool", "pointer", "enum", "collection",
          "struct"}

ASSUME FieldAssumption ==
    /\ CreateKind \in [Fields -> Kinds]
    /\ UpdateKind \in [Fields -> Kinds \cup {"none"}]
    /\ ReadKind \in [Fields -> Kinds \cup {"none"}]
    /\ Half \in Nat \ {0} /\ Numbers \subseteq Int
    /\ "" \in Texts /\ <<>> \in Lists
    /\ Nil \notin Numbers \cup Narrow
    /\ Nil \notin Texts \cup {"set"}
    /\ Nil \notin Lists /\ Nil \notin BOOLEAN
    /\ MaxChanges \in Nat

-------------------------------------------------------------------------------
(* What newResourceDelta looks at: fields, and fields of nested types. *)
JobDelta ==
    [f \in {"CodeGenConfigurationNodes", "DefaultArguments", "Description",
            "ExecutionClass", "GlueVersion", "JobMode",
            "JobRunQueuingEnabled", "LogURI", "MaintenanceWindow",
            "MaxCapacity", "MaxRetries", "NonOverridableArguments",
            "NumberOfWorkers", "Role", "SecurityConfiguration", "Timeout",
            "WorkerType"} |-> {}]
    @@ [Command |-> {"Name", "PythonVersion", "Runtime", "ScriptLocation"},
        Connections |-> {"Connections"},
        ExecutionProperty |-> {"MaxConcurrentRuns"},
        NotificationProperty |-> {"NotifyDelayAfter"},
        SourceControlDetails |->
            {"AuthStrategy", "AuthToken", "Branch", "Folder", "LastCommitID",
             "Owner", "Provider", "Repository"}]
(* Misses the region of a resource link. *)
DatabaseDelta_noRegion ==
    [f \in {"Description", "LocationURI", "Parameters",
            "TableDefaultPermissions"} |-> {}]
    @@ [FederatedDatabase |-> {"ConnectionName", "Identifier"},
        TargetDatabase |-> {"CatalogID", "DatabaseName"}]
DatabaseDelta ==
    [f \in {"Description", "LocationURI", "Parameters",
            "TableDefaultPermissions"} |-> {}]
    @@ [FederatedDatabase |-> {"ConnectionName", "Identifier"},
        TargetDatabase |-> {"CatalogID", "DatabaseName", "Region"}]

(* Compared as a whole, with equality.Semantic. *)
Deep(p) == p[2] \in {"CodeGenConfigurationNodes", "TableDefaultPermissions"}
NilEqualsZero == {<<"Database", "Description">>, <<"Database", "LocationURI">>}

Compared(p) ==
    LET delta == IF p[1] = "Job" THEN JobDelta ELSE DatabaseDelta
    IN  /\ p[2] \in DOMAIN delta
        /\ Len(p) > 2 /\ ~Deep(p) => p[3] \in delta[p[2]]

(* Slices and maps are compared by length and content: an empty one and    *)
(* none are the same, to newResourceDelta and to equality.Semantic.        *)
OrEmpty(v) == IF v = Nil THEN <<>> ELSE v

Differs(p, a, b) ==
    /\ Compared(p)
    /\ CASE CreateKind[p] = "collection" -> OrEmpty(a) # OrEmpty(b)
         [] p \in NilEqualsZero -> a # b /\ {a, b} # {Nil, ""}
         [] OTHER -> a # b

-------------------------------------------------------------------------------
Wrapped(n) == ((n + Half) % (2 * Half)) - Half

Integral(kind) == kind \in {"int32", "int32 pointer"}

(* What a field of a specification may hold, and a field of a request. *)
Values(kind, numbers) ==
    CASE Integral(kind) -> numbers
      [] kind = "bool" -> BOOLEAN
      [] kind \in {"pointer", "enum"} -> Texts
      [] kind = "collection" -> Lists
      [] kind = "struct" -> {"set"}
SpecValues(p) == Values(CreateKind[p], Numbers) \cup {Nil}

(* What the field of a request or an answer is when nobody sets it. *)
Unset(kind) ==
    CASE kind = "int32" -> 0
      [] kind = "bool" -> FALSE
      [] kind = "enum" -> ""
      [] OTHER -> Nil
WireValues(p) ==
    Values(CreateKind[p], Narrow) \cup {Unset(CreateKind[p])}

(* Checks only the upper boundary. *)
Fits_upper(kind, v) ==
    Integral(kind) /\ v # Nil => v <= MaxInt
(* The range check of the request builders. *)
Fits(kind, v) ==
    Integral(kind) /\ v # Nil => v \in Narrow

(* Passes nil on to a plain field. *)
Encode_keepsNil(kind, v) ==
    IF v # Nil /\ Integral(kind) THEN Wrapped(v) ELSE v
(* The statement a request builder has for a field. *)
Encode(kind, v) ==
    IF v = Nil \/ kind = "none" THEN Unset(kind)
    ELSE IF Integral(kind) THEN Wrapped(v)
    ELSE v

(* The statement sdkFind has for a field: plain numbers and flags are      *)
(* always taken over, plain text unless it is empty.                       *)
Decode(kind, w) ==
    IF kind = "none" \/ (kind = "enum" /\ w = "") THEN Nil ELSE w

(* Only a Job has narrow numbers, and so requests that cannot be built. *)
Blockable(p) == p[1] = "Job"

-------------------------------------------------------------------------------
VARIABLES
    field,     \* the field followed
    own,       \* what Glue puts into it when a request leaves it out
    spec,      \* its value in the custom resource
    blocked,   \* another field of the specification is out of range
    exists,    \* there is a resource in Glue
    glue,      \* the field in Glue
    pass,      \* "idle" | "observed"
    desired, latest, stuck,  \* what the pass took from spec, glue, blocked
    outcome,   \* of the last pass: "none" | "ok" | "error"
    wrote,     \* the last pass sent a Create or an Update
    calm,      \* passes since the last change by anybody else, up to 2
    changes    \* edits and foreign writes so far

vars == <<field, own, spec, blocked, exists, glue, pass, desired, latest,
          stuck, outcome, wrote, calm, changes>>

Init ==
    /\ field \in Fields
    /\ own \in WireValues(field)
    /\ spec \in SpecValues(field)
    /\ blocked \in {b \in BOOLEAN : b => Blockable(field)}
    /\ exists = FALSE /\ glue = Unset(CreateKind[field])
    /\ pass = "idle" /\ desired = Nil /\ latest = Nil /\ stuck = FALSE
    /\ outcome = "none" /\ wrote = FALSE /\ calm = 0 /\ changes = 0

(* Glue keeps what it is sent; what it is not sent it fills in, and an     *)
(* empty collection it may answer as none.                                 *)
Kept(w) ==
    IF w = Unset(CreateKind[field]) THEN {own}
    ELSE IF CreateKind[field] = "collection" /\ w = <<>> THEN {w, Nil}
    ELSE {w}

(* A user edits the specification. *)
Edit ==
    /\ changes < MaxChanges
    /\ changes' = changes + 1
    /\ spec' \in SpecValues(field)
    /\ blocked' \in {b \in BOOLEAN : b => Blockable(field)}
    /\ calm' = 0
    /\ UNCHANGED <<field, own, exists, glue, pass, desired, latest, stuck,
                   outcome, wrote>>

(* Another client writes the field in Glue. *)
Drift ==
    /\ exists
    /\ changes < MaxChanges
    /\ changes' = changes + 1
    /\ \E w \in WireValues(field) : glue' \in Kept(w)
    /\ calm' = 0
    /\ UNCHANGED <<field, own, spec, blocked, exists, pass, desired, latest,
                   stuck, outcome, wrote>>

(* A pass takes its copy of the custom resource and reads the resource. *)
Observe ==
    /\ pass = "idle"
    /\ pass' = "observed"
    /\ desired' = spec /\ stuck' = blocked
    /\ latest' = IF exists THEN Decode(ReadKind[field], glue) ELSE Nil
    /\ calm' = IF calm = 2 THEN 2 ELSE calm + 1
    /\ UNCHANGED <<field, own, spec, blocked, exists, glue, outcome, wrote,
                   changes>>

(* A Database's permissions that the user left out are taken over from     *)
(* Glue into the specification at the end of a pass.                       *)
LateInitialized(p) == p = <<"Database", "TableDefaultPermissions">>
LateInitialize ==
    spec' = IF LateInitialized(field) /\ desired = Nil
               /\ Decode(ReadKind[field], glue') # Nil
            THEN Decode(ReadKind[field], glue') ELSE spec

(* The end of a pass. *)
Finish(result, sent) ==
    /\ pass' = "idle" /\ desired' = Nil /\ latest' = Nil /\ stuck' = FALSE
    /\ outcome' = result /\ wrote' = sent
    /\ UNCHANGED <<field, own, blocked, calm, changes>>

Send(kind) ==
    /\ ~stuck /\ Fits(kind, desired)
    /\ glue' \in Kept(Encode(kind, desired))
    /\ exists' = TRUE
    /\ LateInitialize
    /\ Finish("ok", TRUE)

Unbuildable(kind) ==
    /\ stuck \/ ~Fits(kind, desired)
    /\ UNCHANGED <<exists, glue, spec>>
    /\ Finish("error", FALSE)

Create ==
    /\ pass = "observed" /\ ~exists
    /\ Send(CreateKind[field]) \/ Unbuildable(CreateKind[field])

(* A value out of range differs from everything that is read. *)
MustUpdate == stuck \/ Differs(field, desired, latest)

Update ==
    /\ pass = "observed" /\ exists /\ MustUpdate
    /\ Send(UpdateKind[field]) \/ Unbuildable(UpdateKind[field])

AtRest ==
    /\ pass = "observed" /\ exists /\ ~MustUpdate
    /\ UNCHANGED <<exists, glue>>
    /\ LateInitialize
    /\ Finish("ok", FALSE)

Next == Edit \/ Drift \/ Observe \/ Create \/ Update \/ AtRest

Spec == Init /\ [][Next]_vars

-------------------------------------------------------------------------------
(* Every value stays one the program's types allow: what Glue holds fits   *)
(* the width of the request's field, and the builders never leave a plain  *)
(* field undefined.                                                        *)
TypeOK ==
    /\ own \in WireValues(field)
    /\ spec \in SpecValues(field) \cup WireValues(field)
    /\ glue \in WireValues(field)
    /\ desired \in SpecValues(field) \cup WireValues(field)
    /\ latest \in WireValues(field) \cup {Nil}
    /\ blocked \in BOOLEAN /\ exists \in BOOLEAN
    /\ stuck \in BOOLEAN /\ wrote \in BOOLEAN
    /\ pass \in {"idle", "observed"} /\ outcome \in {"none", "ok", "error"}
    /\ calm \in 0..2 /\ changes \in 0..MaxChanges

(* Four translations of every field are written out separately, the Create *)
(* and the Update builder, sdkFind and newResourceDelta: they treat the    *)
(* field alike.  What is taken over from Glue is a collection, and what    *)
(* newResourceDelta takes for the same when it is empty is plain text.     *)
Agrees(p) ==
    /\ UpdateKind[p] = CreateKind[p] /\ ReadKind[p] = CreateKind[p]
    /\ Compared(p)
    /\ LateInitialized(p) => CreateKind[p] = "collection"
    /\ p \in NilEqualsZero => CreateKind[p] = "pointer"
FieldAgrees == Agrees(field)

(* Text and collections mean the same empty or absent. *)
Plain(v) ==
    CASE CreateKind[field] = "collection" -> OrEmpty(v)
      [] CreateKind[field] \in {"pointer", "enum"} /\ v = Nil -> ""
      [] OTHER -> v

(* A written value that a request cannot tell from one left out. *)
Unsayable(v) == v # Nil /\ v = Unset(CreateKind[field])

(* After a pass that ended without an error, and nobody else having        *)
(* changed anything, Glue holds of every field what the user wrote, exact  *)
(* to the last bit, and of a field left out nothing that once was there:   *)
(* the Create and the Update builder, sdkFind and newResourceDelta agree   *)
(* on the field.                                                           *)
SuccessMeansApplied ==
    pass = "idle" /\ calm >= 1 /\ outcome = "ok" =>
        IF spec = Nil \/ Unsayable(spec)
        THEN Plain(glue) \in {Plain(own), Plain(Unset(CreateKind[field]))}
        ELSE Plain(glue) = Plain(spec)

(* What a request cannot say, or sdkFind cannot tell from nothing: a field *)
(* Glue fills in of itself, a plain number or flag that was left out, empty *)
(* text for an enum.                                                       *)
Restless ==
    /\ spec = Nil \/ Unsayable(spec)
    /\ ~LateInitialized(field)
    /\ ~(field \in NilEqualsZero /\ own = "")
    /\ \/ own # Unset(CreateKind[field])
       \/ CreateKind[field] \in {"int32", "bool"} /\ spec = Nil
       \/ CreateKind[field] = "enum" /\ spec = ""

(* What the user wrote comes to rest: the second pass of two that nobody   *)
(* disturbs sends nothing, unless the field is one of the few above.  The  *)
(* empty Description and LocationUri Glue has for a resource link          *)
(* (delta_test.go) are no reason to write.                                 *)
WrittenFieldsRest ==
    pass = "idle" /\ calm = 2 /\ outcome = "ok" /\ wrote => Restless

(* generator.yaml:110 says of Description and LocationUri that nil in the  *)
(* specification against an empty value from AWS is a difference that      *)
(* calls Update, and has them compared otherwise; delta_test.go wants no   *)
(* difference for what is unset in the specification and empty in AWS.     *)
(* Said of every field: one the user left out and Glue has nothing for is  *)
(* at rest.                                                                *)
EmptyFromGlueRests ==
    pass = "idle" /\ calm = 2 /\ outcome = "ok" /\ spec = Nil
    /\ own = Unset(CreateKind[field]) => ~wrote
===============================================================================
