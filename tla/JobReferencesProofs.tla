--------------------------- MODULE JobReferencesProofs ---------------------------
(*****************************************************************************)
(* Proofs about JobReferences, for any set of ARNs and any number of changes.  *)
(*****************************************************************************)
EXTENDS JobReferences, TLAPS

\* The types of what ResolveReferences and ClearResolvedReferences return.
LEMMA ReferenceTypes ==
    ASSUME NEW ko \in JobSpecs, NEW obj \in RoleObjects
    PROVE  /\ ResolveReferences(ko, obj).ko \in JobSpecs
           /\ ResolveReferences(ko, obj).err \in {"none", "both", "neither", "unresolved"}
           /\ ClearResolvedReferences(ko) \in JobSpecs
<1>1. validateReferenceFields(ko) \in {"none", "both", "neither"}
  BY DEF validateReferenceFields
<1>2. getReferencedResourceState_Role(obj) => obj.arn \in Arns
  BY DEF getReferencedResourceState_Role, RoleObjects
<1> QED  BY <1>1, <1>2 DEF ResolveReferences, Resolves, ClearResolvedReferences, JobSpecs

\* What ResolveReferences does to the object it is given.
LEMMA ResolveMeans ==
    ASSUME NEW ko \in JobSpecs, NEW obj \in RoleObjects,
           NEW result, result = ResolveReferences(ko, obj)
    PROVE  /\ result.ko.ref = ko.ref
           /\ ko.ref \notin Namespaces => result.ko = ko
           /\ result.err = "both" => ko.ref # "absent" /\ ko.role # NoRole
           /\ result.err = "neither" => ko.ref = "absent" /\ ko.role = NoRole
           /\ result.err = "none" =>
                 /\ ko.ref = "absent" => ko.role # NoRole
                 /\ ko.ref # "absent" => ko.role = NoRole
                 /\ ko.ref # "unnamed"
                 /\ ko.ref \in Namespaces =>
                       /\ ValidateCrossNamespaceReference(ko.ref)
                       /\ <<ko.ref, result.ko.role>> \in ReadyArns(obj)
<1>1. /\ validateReferenceFields(ko) = "both" <=> ko.ref # "absent" /\ ko.role # NoRole
      /\ validateReferenceFields(ko) = "neither" <=> ko.ref = "absent" /\ ko.role = NoRole
      /\ validateReferenceFields(ko) \in {"none", "both", "neither"}
  BY DEF validateReferenceFields
<1>2. getReferencedResourceState_Role(obj) => <<obj.where, obj.arn>> \in ReadyArns(obj)
  BY DEF getReferencedResourceState_Role, ReadyArns, RoleObjects
<1>3. CASE Resolves(ko.ref, obj)
  <2>1. result.ko = [ko EXCEPT !.role = obj.arn] /\ result.err = validateReferenceFields(ko)
    BY <1>3 DEF ResolveReferences
  <2>2. /\ ko.ref \in Namespaces /\ obj.where = ko.ref
        /\ ValidateCrossNamespaceReference(ko.ref)
        /\ getReferencedResourceState_Role(obj)
    BY <1>3 DEF Resolves
  <2>3. ko.ref # "absent" /\ ko.ref # "unnamed"
    BY <2>2 DEF Namespaces
  <2>4. result.ko.ref = ko.ref /\ result.ko.role = obj.arn
    BY <2>1 DEF JobSpecs
  <2> QED  BY <1>1, <1>2, <2>1, <2>2, <2>3, <2>4
<1>4. CASE ~Resolves(ko.ref, obj)
  <2>1. result.ko = ko
    BY <1>4 DEF ResolveReferences
  <2>2. result.err = IF ko.ref \in {"absent", "empty"} THEN validateReferenceFields(ko)
                     ELSE "unresolved"
    BY <1>4 DEF ResolveReferences
  <2> QED  BY <1>1, <2>1, <2>2 DEF Namespaces
<1> QED  BY <1>3, <1>4

-----------------------------------------------------------------------------
\* Every variable keeps its type, and what is about to be sent by reference is
\* an ARN.
THEOREM TypeCorrect == Spec => []TypeOK
<1>1. Init => TypeOK
  <2> SUFFICES ASSUME Init PROVE TypeOK
    OBVIOUS
  <2>1. role \in RoleObjects
    BY DEF Init, RoleObjects, Namespaces
  <2>2. job \in UserSpecs /\ fetched \in UserSpecs
    BY DEF Init
  <2>3. job \in JobSpecs
    BY <2>2, ReferencesAssumption DEF UserSpecs, JobSpecs
  <2>4. sent \in JobSpecs
    BY DEF Init, JobSpecs, Refs
  <2>5. edits \in 0..MaxEdits
    BY ReferencesAssumption DEF Init
  <2> QED  BY <2>1, <2>2, <2>3, <2>4, <2>5 DEF Init, TypeOK
<1>2. ASSUME TypeOK, [Next]_vars PROVE TypeOK'
  <2> USE <1>2 DEF TypeOK
  <2>u. UserSpecs \subseteq JobSpecs
    BY ReferencesAssumption DEF UserSpecs, JobSpecs
  <2>r. \A obj \in RoleObjects : ReadyArns(obj) \subseteq Namespaces \X Arns
    BY DEF ReadyArns
  <2>1. CASE StartPass  BY <2>1, <2>u, <2>r DEF StartPass
  <2>2. CASE Resolve
    <3> DEFINE result == ResolveReferences(desired, role)
    <3>1. result.ko \in JobSpecs /\ result.err \in {"none", "both", "neither", "unresolved"}
      BY ReferenceTypes
    <3>2. result.err = "none" /\ result.ko.ref # "empty" => result.ko.role \in Arns
      <4>1. CASE desired.ref \in Namespaces
        BY <4>1, ResolveMeans DEF ReadyArns
      <4>2. CASE desired.ref \notin Namespaces
        BY <4>2, ResolveMeans DEF JobSpecs, Refs
      <4> QED  BY <4>1, <4>2
    <3> HIDE DEF result
    <3>3. /\ desired' = result.ko
          /\ err' = result.err
          /\ pc' \in {"idle", "manage", "send"}
          /\ pc' = "send" => result.err = "none"
          /\ UNCHANGED <<job, managed, role, fetched, sent, ready, edits>>
      BY <2>2 DEF Resolve, result
    <3> QED  BY <3>1, <3>2, <3>3
  <2>3. CASE Manage  BY <2>3, ReferenceTypes DEF Manage
  <2>4. CASE Send  BY <2>4 DEF Send
  <2>5. CASE UserEdit
    <3>1. job' \in UserSpecs  BY <2>5 DEF UserEdit
    <3>2. edits' \in 0..MaxEdits  BY <2>5, ReferencesAssumption DEF UserEdit
    <3> QED  BY <3>1, <3>2, <2>5 DEF UserEdit
  <2>6. CASE RoleChange
    <3>1. role' \in RoleObjects  BY <2>6 DEF RoleChange
    <3>2. edits' \in 0..MaxEdits  BY <2>6, ReferencesAssumption DEF RoleChange
    <3>3. ready' \subseteq Namespaces \X Arns  BY <3>1, <2>6, <2>r DEF RoleChange
    <3> QED  BY <3>1, <3>2, <3>3, <2>6 DEF RoleChange
  <2>7. CASE UNCHANGED vars  BY <2>7 DEF vars
  <2> QED  BY <2>1, <2>2, <2>3, <2>4, <2>5, <2>6, <2>7 DEF Next, Reconcile
<1> QED  BY <1>1, <1>2, PTL DEF Spec

\* What is known of the object of a pass before and after each call of
\* ResolveReferences: it is the user's until it is resolved, its cleared copy is
\* the user's again (ClearResolvedReferences), and what is about to be sent is the
\* user's role or an ARN a Role had while it was ready.
THEOREM ReferenceInvariant == Spec => []ReferenceInv
<1>1. Init => ReferenceInv
  BY DEF Init, ReferenceInv, VerdictIsUsers
<1>2. ASSUME TypeOK, ReferenceInv, [Next]_vars PROVE ReferenceInv'
  <2> USE <1>2 DEF TypeOK
  <2>1. CASE StartPass
    BY <2>1 DEF StartPass, ReferenceInv, VerdictIsUsers
  <2>2. CASE Resolve
    <3> DEFINE result == ResolveReferences(desired, role)
    <3>1. /\ result.ko.ref = desired.ref
          /\ desired.ref \notin Namespaces => result.ko = desired
          /\ result.err = "both" => desired.ref # "absent" /\ desired.role # NoRole
          /\ result.err = "neither" => desired.ref = "absent" /\ desired.role = NoRole
          /\ result.err = "none" =>
                /\ desired.ref = "absent" => desired.role # NoRole
                /\ desired.ref # "absent" => desired.role = NoRole
                /\ desired.ref # "unnamed"
                /\ desired.ref \in Namespaces =>
                      /\ ValidateCrossNamespaceReference(desired.ref)
                      /\ <<desired.ref, result.ko.role>> \in ReadyArns(role)
      BY ResolveMeans
    <3> HIDE DEF result
    <3>2. /\ desired' = result.ko
          /\ err' = result.err
          /\ pc \in {"resolve", "again"}
          /\ pc' \in {"idle", "manage", "send"}
          /\ pc' # "idle" => result.err = "none"
          /\ UNCHANGED <<job, managed, role, fetched, sent, ready, edits>>
      BY <2>2 DEF Resolve, result
    <3>3. ReadyArns(role) \subseteq ready
      BY <3>2 DEF ReferenceInv
    <3>4. VerdictIsUsers'
      BY <3>1, <3>2 DEF ReferenceInv, VerdictIsUsers
    <3>5. pc' = "send" => MayCarry(desired)'
      <4> SUFFICES ASSUME pc' = "send" PROVE MayCarry(desired)'
        OBVIOUS
      <4>1. result.err = "none"
        BY <3>2
      <4>2. CASE desired.ref = "absent"
        BY <3>1, <3>2, <4>1, <4>2 DEF ReferenceInv, UserSpecs, Namespaces, MayCarry
      <4>3. CASE desired.ref = "empty"
        BY <3>1, <3>2, <4>1, <4>3 DEF Namespaces, MayCarry
      <4>4. CASE desired.ref \in Namespaces
        BY <3>1, <3>2, <3>3, <4>1, <4>4 DEF Namespaces, MayCarry
      <4> QED  BY <3>1, <4>1, <4>2, <4>3, <4>4 DEF JobSpecs, Refs
    <3>6. ReadyArns(role') = ReadyArns(role)
      BY <3>2
    <3> QED  BY <3>1, <3>2, <3>3, <3>4, <3>5, <3>6 DEF ReferenceInv, Namespaces
  <2>3. CASE Manage
    BY <2>3 DEF Manage, ClearResolvedReferences, JobSpecs, ReferenceInv, VerdictIsUsers
  <2>4. CASE Send
    BY <2>4 DEF Send, ReferenceInv, VerdictIsUsers
  <2>5. CASE UserEdit
    BY <2>5 DEF UserEdit, ReferenceInv, VerdictIsUsers, MayCarry
  <2>6. CASE RoleChange
    BY <2>6 DEF RoleChange, ReferenceInv, VerdictIsUsers, MayCarry
  <2>7. CASE UNCHANGED vars
    BY <2>7 DEF vars, ReferenceInv, VerdictIsUsers, MayCarry
  <2> QED  BY <2>1, <2>2, <2>3, <2>4, <2>5, <2>6, <2>7 DEF Next, Reconcile
<1> QED  BY <1>1, <1>2, TypeCorrect, PTL DEF Spec

\* A user is told of a conflict or of a missing role only for what the user wrote.
THEOREM VerdictsAreUsers == Spec => []VerdictIsUsers
<1>1. ReferenceInv => VerdictIsUsers  BY DEF ReferenceInv
<1> QED  BY <1>1, ReferenceInvariant, PTL

\* A request carries the user's role, or an ARN the referenced Role had while it
\* was ready in the course of the pass.
THEOREM RequestsNameReadyRole == Spec => RequestNamesReadyRole
<1>1. ASSUME ReferenceInv, [Next]_vars, pc = "send", pc' # pc
      PROVE  MayCarry(sent')
  <2>1. Send
    BY <1>1 DEF Next, Reconcile, StartPass, Resolve, Manage, UserEdit, RoleChange, vars
  <2> QED  BY <2>1, <1>1 DEF Send, ReferenceInv
<1> QED  BY <1>1, ReferenceInvariant, PTL DEF Spec, RequestNamesReadyRole

-----------------------------------------------------------------------------
\* A reference to a Role that is ready goes through at either resolution.
LEMMA ReadyStep ==
    ASSUME TypeOK, ReferenceInv, Resolve, RefersToReady(fetched)
    PROVE  err' = "none" /\ desired'.role = role.arn /\ pc' \in {"manage", "send"}
<1>1. /\ fetched.ref \in Namespaces /\ fetched.ref = role.where
      /\ role.arn \in Arns
      /\ role.exists /\ role.synced /\ ~role.terminal
  BY DEF RefersToReady, ReadyArns
<1>2. desired.ref = fetched.ref /\ desired.ref # "absent"
  BY <1>1 DEF ReferenceInv, Namespaces
<1>3. desired.role = NoRole
  BY <1>2 DEF RefersToReady, ReferenceInv, Resolve
<1>4. Resolves(desired.ref, role)
  BY <1>1, <1>2, ReferencesAssumption
     DEF RefersToReady, Resolves, getReferencedResourceState_Role
<1>5. validateReferenceFields(desired) = "none"
  BY <1>2, <1>3 DEF validateReferenceFields
<1>6. ResolveReferences(desired, role)
          = [ko |-> [desired EXCEPT !.role = role.arn], err |-> "none"]
  BY <1>4, <1>5 DEF ResolveReferences
<1> QED  BY <1>6 DEF Resolve, TypeOK, JobSpecs

\* Such a reference resolves in every pass, also in the one that resolves twice; the
\* safety half of ReferenceReachesGlue.
THEOREM ReadyRolesResolve == Spec => ReadyRoleResolves
<1>1. TypeOK /\ ReferenceInv
          => (Resolve /\ RefersToReady(fetched)
                => err' = "none" /\ desired'.role = role.arn /\ pc' \in {"manage", "send"})
  BY ReadyStep
<1> QED  BY <1>1, ReferenceInvariant, TypeCorrect, PTL DEF Spec, ReadyRoleResolves

\* How much of a pass is ahead.
Ahead(at) ==
    CASE at = "resolve" -> 4 [] at = "manage" -> 3 [] at = "again" -> 2 [] at = "send" -> 1
      [] OTHER -> 0

\* A pass adds the finalizer and resolves again once at most, and then sends or gives
\* up: every step of the reconciler but a pass's first has less of the pass ahead of
\* it, and a change of the Job or of the Role lengthens none.
PassesEnd ==
  [][/\ (Resolve \/ Manage \/ Send) => Ahead(pc') < Ahead(pc)
     /\ (UserEdit \/ RoleChange) => pc' = pc]_vars

THEOREM ResolvingEnds == Spec => PassesEnd
<1>1. ASSUME Resolve \/ Manage \/ Send
      PROVE  Ahead(pc') < Ahead(pc)
  <2>1. CASE Resolve
    <3>1. /\ pc \in {"resolve", "again"}
          /\ pc' \in {"idle", "manage", "send"}
          /\ pc = "again" => pc' # "manage"
      BY <2>1 DEF Resolve
    <3> QED  BY <3>1 DEF Ahead
  <2>2. CASE Manage \/ Send
    BY <2>2 DEF Manage, Send, Ahead
  <2> QED  BY <1>1, <2>1, <2>2
<1>2. UserEdit \/ RoleChange => pc' = pc
  BY DEF UserEdit, RoleChange
<1>3. [Next]_vars => [/\ (Resolve \/ Manage \/ Send) => Ahead(pc') < Ahead(pc)
                      /\ (UserEdit \/ RoleChange) => pc' = pc]_vars
  BY <1>1, <1>2
<1> QED  BY <1>3, PTL DEF Spec, PassesEnd

-----------------------------------------------------------------------------
\* A history variable remembers whether the Job or the Role changed since the last
\* pass began; it says nothing that JobReferences reads.
VARIABLE quiet

QuietVars == <<vars, quiet>>

Remember ==
  quiet' = IF pc = "idle" /\ pc' # "idle" THEN TRUE ELSE quiet /\ edits' = edits

QuietSpec == Init /\ quiet = FALSE /\ [][Next /\ Remember]_QuietVars

\* What one pass without changes is enough for.
QuietPassSends ==
  pc = "idle" /\ quiet /\ RefersToReady(job) => err = "none" /\ sent.role = role.arn

\* A quiet pass works on the Job as it is, and the Role has been ready in its course
\* only with the ARN it has.
QuietInv ==
  /\ quiet => fetched = job /\ ready = ReadyArns(role)
  /\ QuietPassSends

LEMMA QuietStep ==
    ASSUME TypeOK, ReferenceInv, QuietInv, [Next /\ Remember]_QuietVars
    PROVE  QuietInv'
<1> USE DEF QuietInv, QuietPassSends, RefersToReady
<1>1. CASE UNCHANGED QuietVars
  BY <1>1 DEF QuietVars, vars
<1>2. CASE Remember /\ StartPass
  BY <1>2 DEF StartPass
<1>3. CASE Remember /\ Resolve
  <2>1. /\ quiet' => quiet
        /\ UNCHANGED <<job, role, fetched, sent, ready>>
    BY <1>3 DEF Remember, Resolve
  <2>2. quiet' /\ RefersToReady(job) => pc' # "idle"
    BY <1>3, <2>1, ReadyStep
  <2> QED  BY <2>1, <2>2
<1>4. CASE Remember /\ Manage
  BY <1>4 DEF Remember, Manage
<1>5. CASE Remember /\ Send
  <2>1. /\ quiet' => quiet
        /\ UNCHANGED <<job, role, fetched, err, ready>>
        /\ sent' = desired /\ err = "none" /\ MayCarry(desired)
        /\ desired.ref = fetched.ref
    BY <1>5 DEF Remember, Send, ReferenceInv
  <2>2. ASSUME quiet', RefersToReady(job)
        PROVE  desired.role = role.arn
    <3>1. desired.ref \in Namespaces /\ ready = ReadyArns(role)
      BY <2>1, <2>2 DEF ReadyArns
    <3>2. <<desired.ref, desired.role>> \in ReadyArns(role)
      BY <2>1, <3>1 DEF MayCarry, Namespaces
    <3> QED  BY <3>2 DEF ReadyArns
  <2> QED  BY <2>1, <2>2
<1>6. CASE Remember /\ (UserEdit \/ RoleChange)
  <2>1. pc' = pc /\ edits' # edits
    BY <1>6, ReferencesAssumption DEF UserEdit, RoleChange, TypeOK
  <2> QED  BY <1>6, <2>1 DEF Remember
<1> QED  BY <1>1, <1>2, <1>3, <1>4, <1>5, <1>6 DEF Next, Reconcile

\* One pass in whose course neither the Job nor the Role changes is enough to bring the
\* ARN of a Role that is ready to Glue, whatever the passes before it have sent; the
\* safety half of ReferenceReachesGlue.
THEOREM QuietPassIsEnough == QuietSpec => []QuietPassSends
<1>1. QuietSpec => Spec
  <2>1. [Next /\ Remember]_QuietVars => [Next]_vars
    BY DEF QuietVars
  <2> QED  BY <2>1, PTL DEF QuietSpec, Spec
<1>2. Init /\ quiet = FALSE => QuietInv
  BY DEF QuietInv, QuietPassSends
<1>3. QuietInv => QuietPassSends
  BY DEF QuietInv
<1> QED  BY <1>1, <1>2, <1>3, QuietStep, ReferenceInvariant, TypeCorrect, PTL DEF QuietSpec
=================================================================================
