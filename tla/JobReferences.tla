------------------------------ MODULE JobReferences ------------------------------
(*****************************************************************************)
(* The role of a Job: given in spec.role, or taken from the status of an IAM   *)
(* Role custom resource named in spec.roleRef (pkg/resource/job/references.go).*)
(*                                                                           *)
(* A pass resolves the reference on its copy of the custom resource; when it   *)
(* has to add the finalizer it patches the custom resource and resolves again. *)
(* The IAM controller and users change the Role and the Job at any moment.     *)
(*****************************************************************************)
EXTENDS Naturals

CONSTANTS
    Arns,       \* the ARNs of roles
    UserRoles,  \* what users write in spec.role
    NoRole,     \* a nil pointer
    EnableCrossNamespace,   \* a reference may name another namespace
    MaxEdits    \* bound on changes by users and by the IAM controller

ASSUME ReferencesAssumption ==
    /\ UserRoles \subseteq Arns
    /\ NoRole \notin Arns
    /\ EnableCrossNamespace \in BOOLEAN
    /\ MaxEdits \in Nat

\* The namespace of the Job, which a reference means that names none, and another.
Namespaces == {"own", "foreign"}

\* spec.roleRef: absent, without From, without a name, or naming a Role in one of
\* the namespaces.
Refs == {"absent", "empty", "unnamed"} \cup Namespaces

JobSpecs == [role : Arns \cup {NoRole}, ref : Refs]

\* The Role custom resource: where it is and what its status says.
RoleObjects ==
    [exists : BOOLEAN, where : Namespaces, terminal : BOOLEAN, synced : BOOLEAN,
     arn : Arns \cup {NoRole}]

\* The error validateReferenceFields returns.
validateReferenceFields(ko) ==
    CASE ko.ref # "absent" /\ ko.role # NoRole -> "both"
      [] ko.ref = "absent" /\ ko.role = NoRole -> "neither"
      [] OTHER -> "none"

\* Mutants: the ResourceSynced condition of the Role is not looked at; nor is
\* its ARN.
getReferencedResourceState_Role_anyState(obj) == obj.exists /\ obj.arn # NoRole
getReferencedResourceState_Role_anyARN(obj) ==
    obj.exists /\ ~obj.terminal /\ obj.synced

\* getReferencedResourceState_Role returns no error.
getReferencedResourceState_Role(obj) ==
    obj.exists /\ ~obj.terminal /\ obj.synced /\ obj.arn # NoRole

\* ackrt.ValidateCrossNamespaceReference returns no error.
ValidateCrossNamespaceReference(ref) == ref = "own" \/ EnableCrossNamespace

\* Mutant: any Role of that name will do.
Resolves_anyNamespace(ref, obj) ==
    ref \in Namespaces /\ getReferencedResourceState_Role(obj)

\* resolveReferenceForRole finds a Role that it takes the ARN of.
Resolves(ref, obj) ==
    /\ ref \in Namespaces
    /\ ValidateCrossNamespaceReference(ref)
    /\ obj.where = ref
    /\ getReferencedResourceState_Role(obj)

\* Mutant: the fields are validated after the reference has been resolved.
ResolveReferences_validatesLast(ko, obj) ==
    IF Resolves(ko.ref, obj)
    THEN [ko |-> [ko EXCEPT !.role = obj.arn], err |-> "both"]
    ELSE [ko |-> ko, err |-> validateReferenceFields(ko)]

\* ResolveReferences: the resource afterwards, and the error.  A reference that
\* resolves is written even if validation has failed; without From there is
\* nothing to resolve, and no error either.
ResolveReferences(ko, obj) ==
    IF Resolves(ko.ref, obj)
    THEN [ko |-> [ko EXCEPT !.role = obj.arn], err |-> validateReferenceFields(ko)]
    ELSE [ko  |-> ko,
          err |-> IF ko.ref \in {"absent", "empty"} THEN validateReferenceFields(ko)
                  ELSE "unresolved"]

\* Mutant: the resolved value is kept.
ClearResolvedReferences_keeps(ko) == ko

ClearResolvedReferences(ko) ==
    IF ko.ref # "absent" THEN [ko EXCEPT !.role = NoRole] ELSE ko

VARIABLES
    job,       \* the specification of the Job in the API server
    managed,   \* the Job carries the ACK finalizer
    role,      \* the Role custom resource
    pc,        \* "idle", or about to "resolve", "manage", "again" or "send"
    fetched,   \* the specification the pass read
    desired,   \* the object the pass works on, the argument of ResolveReferences
    err,       \* the error of the last ResolveReferences
    sent,      \* the specification of the last request to Glue
    ready,     \* where the Role was and what ARN it had, while ready, since the
               \* pass began (ghost)
    edits

vars == <<job, managed, role, pc, fetched, desired, err, sent, ready, edits>>

UserSpecs == [role : UserRoles \cup {NoRole}, ref : Refs]

TypeOK ==
    /\ job \in UserSpecs
    /\ managed \in BOOLEAN
    /\ role \in RoleObjects
    /\ pc \in {"idle", "resolve", "manage", "again", "send"}
    /\ fetched \in UserSpecs
    /\ desired \in JobSpecs
    /\ pc = "send" /\ desired.ref # "empty" => desired.role \in Arns
    /\ err \in {"none", "both", "neither", "unresolved"}
    /\ sent \in JobSpecs
    /\ ready \subseteq Namespaces \X Arns
    /\ edits \in 0..MaxEdits

\* What a Role that is there, synced and not terminal says its ARN is, and where.
ReadyArns(obj) ==
    {p \in Namespaces \X Arns :
        p = <<obj.where, obj.arn>> /\ obj.exists /\ obj.synced /\ ~obj.terminal}

Init ==
    /\ job \in UserSpecs
    /\ managed = FALSE
    /\ role = [exists |-> FALSE, where |-> "own", terminal |-> FALSE, synced |-> FALSE,
               arn |-> NoRole]
    /\ pc = "idle"
    /\ fetched = job
    /\ desired = job
    /\ err = "none"
    /\ sent = [role |-> NoRole, ref |-> "empty"]
    /\ ready = {}
    /\ edits = 0

-----------------------------------------------------------------------------
StartPass ==
    /\ pc = "idle"
    /\ pc' = "resolve"
    /\ fetched' = job
    /\ desired' = job
    /\ err' = "none"
    /\ ready' = ReadyArns(role)
    /\ UNCHANGED <<job, managed, role, sent, edits>>

\* The object handed over is the one that is changed and returned.  An error
\* ends the pass.
Resolve ==
    /\ pc \in {"resolve", "again"}
    /\ LET result == ResolveReferences(desired, role)
       IN  /\ desired' = result.ko
           /\ err' = result.err
           /\ pc' = IF result.err # "none" THEN "idle"
                    ELSE IF pc = "resolve" /\ ~managed THEN "manage" ELSE "send"
    /\ UNCHANGED <<job, managed, role, fetched, sent, ready, edits>>

\* The finalizer is patched into the custom resource; the object that is patched
\* has its resolved references cleared and takes the place of desired.
Manage ==
    /\ pc = "manage"
    /\ pc' = "again"
    /\ managed' = TRUE
    /\ desired' = ClearResolvedReferences(desired)
    /\ UNCHANGED <<job, role, fetched, err, sent, ready, edits>>

\* Create or Update.
Send ==
    /\ pc = "send"
    /\ pc' = "idle"
    /\ sent' = desired
    /\ UNCHANGED <<job, managed, role, fetched, desired, err, ready, edits>>

-----------------------------------------------------------------------------
\* A user edits the role or the reference of the Job.
UserEdit ==
    /\ edits < MaxEdits
    /\ edits' = edits + 1
    /\ \E s \in UserSpecs : s # job /\ job' = s
    /\ UNCHANGED <<managed, role, pc, fetched, desired, err, sent, ready>>

\* The Role is created, changes its state or its ARN, or is deleted; one of the
\* same name may come up in the other namespace.
RoleChange ==
    /\ edits < MaxEdits
    /\ edits' = edits + 1
    /\ \E r \in RoleObjects : r # role /\ role' = r
    /\ ready' = ready \cup ReadyArns(role')
    /\ UNCHANGED <<job, managed, pc, fetched, desired, err, sent>>

Reconcile == StartPass \/ Resolve \/ Manage \/ Send

Next == Reconcile \/ UserEdit \/ RoleChange

Spec == Init /\ [][Next]_vars

\* A pass that fails is retried, and every resource is resynced periodically.
FairSpec == Spec /\ WF_vars(Reconcile)

-----------------------------------------------------------------------------
\* What a request to Glue carries: the role the user wrote, or an ARN the Role
\* had in the namespace the reference means, while it was ready in the course of
\* this very pass, also when the Role changes between the two resolutions or after
\* the last (getReferencedResourceState_Role), and never one of another namespace
\* where that is not allowed.  A reference without From, which
\* validateReferenceFields lets through, leaves the role out.
MayCarry(ko) ==
    CASE ko.ref = "absent" -> ko.role \in UserRoles
      [] ko.ref = "empty" -> ko.role = NoRole
      [] ko.ref = "unnamed" -> FALSE
      [] OTHER -> <<ko.ref, ko.role>> \in ready /\ ValidateCrossNamespaceReference(ko.ref)

RequestNamesReadyRole ==
    [][pc = "send" /\ pc' # pc => MayCarry(sent')]_vars

\* A user is told that the role and its reference exclude each other, or that
\* one of them is required, only for what the user wrote: resolving writes into
\* the very field that is validated, and is done twice in the pass that adds
\* the finalizer (ClearResolvedReferences in between).
VerdictIsUsers ==
    /\ err = "both" => fetched.ref # "absent" /\ fetched.role # NoRole
    /\ err = "neither" => fetched.ref = "absent" /\ fetched.role = NoRole

\* What a pass knows of its object: before each resolution a reference has no
\* role but the user's beside it, and what is ready to be sent is what a request
\* may carry.  Makes the two properties above inductive.
ReferenceInv ==
    /\ desired.ref = fetched.ref
    /\ desired.ref = "absent" => desired.role = fetched.role
    /\ pc \in {"idle", "resolve"} \/ err = "none"
    /\ pc = "resolve" => desired = fetched
    /\ pc = "again" /\ desired.ref # "absent" => desired.role = NoRole
    /\ pc # "idle" => ReadyArns(role) \subseteq ready
    /\ pc = "send" => MayCarry(desired)
    /\ VerdictIsUsers

\* The Role that specification s refers to, with no role of the user's beside it, is
\* ready and may be used.
RefersToReady(s) ==
    /\ s.role = NoRole
    /\ <<s.ref, role.arn>> \in ReadyArns(role)
    /\ ValidateCrossNamespaceReference(s.ref)

\* A reference to a Role that is ready, beside no role of the user's, goes through at
\* either resolution: the pass goes on with the Role's ARN, and what the first
\* resolution has written does not make the second fail (ClearResolvedReferences
\* before the validation).
ReadyRoleResolves ==
    [][Resolve /\ RefersToReady(fetched)
          => err' = "none" /\ desired'.role = role.arn /\ pc' \in {"manage", "send"}]_vars

\* Once changes stop, a reference to a Role that is ready is what Glue gets.
ReferenceReachesGlue == <>[](RefersToReady(job) => sent.role = role.arn)
=================================================================================
