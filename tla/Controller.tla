------------------------------- MODULE Controller --------------------------------
(*****************************************************************************)
(* One custom resource, the AWS Glue resource it describes, and the           *)
(* reconciler between them.                                                   *)
(*                                                                           *)
(* The calls to Glue and what is done with their answers are the methods of   *)
(* pkg/resource/{database,job}: ReadOne, Create, Update, Delete and            *)
(* LateInitialize.  The order in which they are called, and the patches of     *)
(* the custom resource between them, are the ACK runtime's, which is not in    *)
(* the repository.  Users edit and delete the custom resource, other clients   *)
(* write to Glue, calls fail, answers get lost and the process dies between    *)
(* any two steps.                                                             *)
(*                                                                           *)
(* A specification is an identity (catalogID of a Database, name of a Job) and *)
(* a body.  A Database may leave the identity out: Glue takes the account's    *)
(* catalog, and the controller writes it back (late initialization).           *)
(*****************************************************************************)
EXTENDS Conditions, Naturals, FiniteSets

CONSTANTS
    Ids,          \* where a resource can be in Glue
    NilId,        \* the identity left out of the specification
    DefaultId,    \* the identity Glue takes then
    SpecIds,      \* the identities users write
    Bodies,       \* the rest of the specification
    Refused,      \* the bodies Glue answers with InvalidInputException
    Unencodable,  \* the bodies the request builder fails on (Job: int32 range)
    NoBody,       \* no resource
    LateInit,     \* the kind has fields to late initialize: TRUE for Database
    Resends,      \* the AWS client sends a request again whose answer was lost
    MaxEdits,     \* bound on edits by users and other clients of Glue
    MaxFaults     \* bound on failed calls and crashes

ASSUME ControllerAssumption ==
    /\ NilId \notin Ids
    /\ DefaultId \in Ids
    /\ SpecIds \subseteq Ids \cup {NilId}
    /\ Refused \subseteq Bodies
    /\ Unencodable \subseteq Bodies
    /\ NoBody \notin Bodies
    /\ LateInit \in BOOLEAN
    /\ Resends \in BOOLEAN
    /\ MaxEdits \in Nat
    /\ MaxFaults \in Nat

Specs == [id : Ids \cup {NilId}, body : Bodies]

\* The bodies Glue takes.
Acceptable == Bodies \ (Refused \cup Unencodable)

\* Where Glue looks for an identity, and the resource a specification is about.
Place(id) == IF id = NilId THEN DefaultId ELSE id
IdOf(s) == Place(s.id)

\* Users do not move the resource by editing its identity.
StableIdentity == \A a, b \in SpecIds : Place(a) = Place(b)

\* Mutant: the body is not compared.
Differs_ignoresBody(a, b) == a.id # b.id

\* newResourceDelta finds a difference: every field is compared, and nil differs
\* from a value.
Differs(a, b) == a # b

VARIABLES
    crPhase,    \* the custom resource: "live", "deleting" (marked) or "gone"
    finalizer,  \* the custom resource carries the ACK finalizer
    spec,       \* its specification
    status,     \* its conditions
    synced,     \* its ACK.ResourceSynced condition
    glue,       \* for each identity, the body of the resource there or NoBody
    made,       \* the resources this custom resource's Create made (ghost)
    pc,         \* the reconciler's next step
    desired,    \* the specification the current pass works from
    latest,     \* the specification last read or written in this pass
    cond,       \* the conditions of the resource the pass will report
    err,        \* the error the pass ends with
    fresh,      \* nobody interfered since the last pass began (ghost)
    clean,      \* and nothing failed since then (ghost)
    edits, faults

crVars == <<crPhase, finalizer, spec, status, synced>>
glueVars == <<glue, made>>
passVars == <<desired, latest, cond, err>>
counters == <<edits, faults, clean>>
vars == <<crVars, glueVars, pc, passVars, fresh, counters>>

Steps == {"idle", "read", "manage", "create", "readBack", "unmanage", "update",
          "lateInit", "patchSpec", "deleteRead", "delete", "release", "publish"}

TypeOK ==
    /\ crPhase \in {"live", "deleting", "gone"}
    /\ finalizer \in BOOLEAN
    /\ spec \in Specs
    /\ status \in Conditions
    /\ synced \in BOOLEAN
    /\ glue \in [Ids -> Bodies \cup {NoBody}]
    /\ made \subseteq Ids
    /\ pc \in Steps
    /\ desired \in Specs
    /\ latest \in Specs
    /\ cond \in Conditions
    /\ err \in PassErrors
    /\ fresh \in BOOLEAN
    /\ clean \in BOOLEAN
    /\ edits \in 0..MaxEdits
    /\ faults \in 0..MaxFaults

\* A custom resource that has just been created; other clients of Glue may have
\* been there first.
Init ==
    /\ crPhase = "live"
    /\ finalizer = FALSE
    /\ spec \in [id : SpecIds, body : Bodies]
    /\ status = NoConditions
    /\ synced = FALSE
    /\ glue = [i \in Ids |-> NoBody]
    /\ made = {}
    /\ pc = "idle"
    /\ desired = spec
    /\ latest = spec
    /\ cond = NoConditions
    /\ err = "none"
    /\ fresh = FALSE
    /\ clean = FALSE
    /\ edits = 0
    /\ faults = 0

-----------------------------------------------------------------------------
\* Shared by the steps of the reconciler.

\* The next step, or the end of the pass with an error.
Goto(step) == pc' = step /\ UNCHANGED err

EndVia(step, result) == pc' = step /\ cond' = result.cond /\ err' = result.err

End(result) == EndVia("publish", result)

Fault == faults < MaxFaults /\ faults' = faults + 1 /\ clean' = FALSE

Target == IdOf(desired)

\* The errors a call may get at any time.
CallFails(c, e) ==
    /\ Fault
    /\ e \in {"OtherCode", "Transport"}
    /\ End(onError(c, e))

-----------------------------------------------------------------------------
\* Reading.

\* The runtime takes the custom resource from its queue.
StartPass ==
    /\ pc = "idle"
    /\ crPhase # "gone"
    /\ Goto(IF crPhase = "live" THEN "read" ELSE "deleteRead")
    /\ desired' = spec
    /\ latest' = spec
    /\ cond' = status
    /\ fresh' = TRUE
    /\ clean' = TRUE
    /\ UNCHANGED <<crVars, glueVars, edits, faults>>

\* What sdkFind makes of a resource it finds: every field of the specification
\* is overwritten, the identity too.
Observed(s) == [id |-> IdOf(s), body |-> glue[IdOf(s)]]

\* Mutant: a missing resource is taken for one that was found.
ReadFinds_unchecked ==
    /\ pc = "read"
    /\ latest' = Observed(desired)
    /\ cond' = onSuccess(cond)
    /\ Goto(IF Differs(desired, Observed(desired)) THEN "update" ELSE "lateInit")
    /\ UNCHANGED <<crVars, glueVars, desired, fresh, counters>>

\* ReadOne finds the resource, and it is the controller's: Update if the delta
\* is not empty, else on to late initialization.
ReadFinds ==
    /\ pc = "read"
    /\ glue[Target] # NoBody
    /\ latest' = Observed(desired)
    /\ IF finalizer
       THEN /\ cond' = onSuccess(cond)
            /\ Goto(IF Differs(desired, Observed(desired)) THEN "update" ELSE "lateInit")
       ELSE End([cond |-> [onSuccess(cond) EXCEPT !.terminal = "True"],
                 err  |-> "Terminal"])
    /\ UNCHANGED <<crVars, glueVars, desired, fresh, counters>>

\* Mutant: the finalizer is left for later.
ReadFindsNothing_unmanaged ==
    /\ pc = "read"
    /\ glue[Target] = NoBody
    /\ Goto("create")
    /\ UNCHANGED <<crVars, glueVars, desired, latest, cond, fresh, counters>>

\* ReadOne returns ackerr.NotFound; the conditions it sets are dropped.
ReadFindsNothing ==
    /\ pc = "read"
    /\ glue[Target] = NoBody
    /\ Goto(IF finalizer THEN "create" ELSE "manage")
    /\ UNCHANGED <<crVars, glueVars, desired, latest, cond, fresh, counters>>

\* Mutant: every failed read is taken for NotFound (no look at the error code).
ReadFails_asNotFound ==
    /\ pc \in {"read", "deleteRead"}
    /\ Fault
    /\ Goto(CASE pc = "deleteRead" -> "release"
              [] finalizer -> "create"
              [] OTHER -> "manage")
    /\ UNCHANGED <<crVars, glueVars, desired, latest, cond, fresh, edits>>

\* GetDatabase or GetJob fails with any error but EntityNotFoundException.
ReadFails ==
    /\ pc \in {"read", "deleteRead"}
    /\ \E e \in CallErrors : CallFails(cond, e)
    /\ UNCHANGED <<crVars, glueVars, desired, latest, fresh, edits>>

-----------------------------------------------------------------------------
\* Creating.

\* MarkManaged, patched into the custom resource before Create is called.  The
\* API server accepts no new finalizer on an object that is being deleted.
Manage ==
    /\ pc = "manage"
    /\ IF crPhase = "live"
       THEN finalizer' = TRUE /\ Goto("create") /\ UNCHANGED cond
       ELSE End([cond |-> cond, err |-> "Transport"]) /\ UNCHANGED finalizer
    /\ UNCHANGED <<crPhase, spec, status, synced, glueVars, desired, latest, fresh,
                   counters>>

CreateEffect ==
    /\ glue' = [glue EXCEPT ![Target] = desired.body]
    /\ made' = made \cup {Target}

\* sdkCreate succeeds.
Create ==
    /\ pc = "create"
    /\ desired.body \in Acceptable
    /\ glue[Target] = NoBody
    /\ CreateEffect
    /\ latest' = desired
    /\ cond' = onSuccess(cond)
    /\ Goto("readBack")
    /\ UNCHANGED <<crVars, desired, fresh, counters>>

\* After a failed Create the runtime gives the finalizer up if the error it gets
\* is the service's.  A terminal error no longer is: onError has replaced it.
CreateEnds(result) ==
    EndVia(IF AWSError(result.err) THEN "unmanage" ELSE "publish", result)

\* The service answers with an error code: nothing was created.
CreateRefused ==
    /\ pc = "create"
    /\ desired.body \notin Unencodable
    /\ \/ /\ desired.body \in Refused
          /\ CreateEnds(onError(cond, "InvalidInput"))
          /\ UNCHANGED <<faults, clean>>
       \/ /\ desired.body \notin Refused
          /\ glue[Target] # NoBody
          /\ CreateEnds(onError(cond, "OtherCode"))
          /\ UNCHANGED <<faults, clean>>
       \/ Fault /\ CreateEnds(onError(cond, "OtherCode"))
    /\ UNCHANGED <<crVars, glueVars, desired, latest, fresh, edits>>

\* MarkUnmanaged, patched into the custom resource.  Without its finalizer an
\* object marked for deletion is gone.
RemoveFinalizer ==
    /\ finalizer' = FALSE
    /\ crPhase' = IF crPhase = "deleting" THEN "gone" ELSE crPhase

Unmanage ==
    /\ pc = "unmanage"
    /\ RemoveFinalizer
    /\ Goto("publish")
    /\ UNCHANGED <<spec, status, synced, glueVars, desired, latest, cond, fresh,
                   counters>>

\* The request builder fails before any call.
CreateUnencodable ==
    /\ pc = "create"
    /\ desired.body \in Unencodable
    /\ CreateEnds(onError(cond, "Range"))
    /\ UNCHANGED <<crVars, glueVars, desired, latest, fresh, counters>>

\* The answer is lost; the resource may have been created.  The error is not the
\* service's, so the finalizer stays.
CreateAnswerLost ==
    /\ pc = "create"
    /\ desired.body \notin Unencodable
    /\ Fault
    /\ \/ UNCHANGED glueVars
       \/ desired.body \in Acceptable /\ glue[Target] = NoBody /\ CreateEffect
    /\ End(onError(cond, "Transport"))
    /\ UNCHANGED <<crVars, desired, latest, fresh, edits>>

\* The answer is lost and the AWS client sends the request again by itself.  The
\* answer to the second is that there is such a resource, and the runtime takes
\* it for an error of a Create that made nothing.
CreateResent ==
    /\ pc = "create"
    /\ Resends
    /\ desired.body \in Acceptable
    /\ glue[Target] = NoBody
    /\ Fault
    /\ CreateEffect
    /\ CreateEnds(onError(cond, "OtherCode"))
    /\ UNCHANGED <<crVars, desired, latest, fresh, edits>>

\* The runtime reads the new resource back and takes the status from it.
ReadBack ==
    /\ pc = "readBack"
    /\ glue[Target] # NoBody
    /\ cond' = onSuccess(cond)
    /\ Goto("lateInit")
    /\ UNCHANGED <<crVars, glueVars, desired, latest, fresh, counters>>

\* The read after a create fails.  The runtime gives the finalizer up only for an
\* error of Create itself.
ReadBackFails ==
    /\ pc = "readBack"
    /\ \/ /\ glue[Target] = NoBody
          /\ End(onError(cond, "NotFound"))
          /\ UNCHANGED <<faults, clean>>
       \/ \E e \in CallErrors : CallFails(cond, e)
    /\ UNCHANGED <<crVars, glueVars, desired, latest, fresh, edits>>

-----------------------------------------------------------------------------
\* Updating and late initialization.

\* sdkUpdate succeeds and returns a copy of desired.
Update ==
    /\ pc = "update"
    /\ desired.body \in Acceptable
    /\ glue[Target] # NoBody
    /\ glue' = [glue EXCEPT ![Target] = desired.body]
    /\ latest' = desired
    /\ cond' = onSuccess(cond)
    /\ Goto("lateInit")
    /\ UNCHANGED <<crVars, made, desired, fresh, counters>>

\* The request cannot be built, or the service answers with an error code.
UpdateRefused ==
    /\ pc = "update"
    /\ \/ desired.body \in Unencodable /\ End(onError(cond, "Range"))
       \/ desired.body \in Refused \ Unencodable /\ End(onError(cond, "InvalidInput"))
       \/ /\ desired.body \in Acceptable
          /\ glue[Target] = NoBody
          /\ End(onError(cond, "OtherCode"))
    /\ UNCHANGED <<crVars, glueVars, desired, latest, fresh, counters>>

UpdateFails ==
    /\ pc = "update"
    /\ desired.body \notin Unencodable
    /\ \E e \in CallErrors :
          /\ CallFails(cond, e)
          /\ \/ UNCHANGED glue
             \/ /\ e = "Transport"
                /\ desired.body \in Acceptable
                /\ glue[Target] # NoBody
                /\ glue' = [glue EXCEPT ![Target] = desired.body]
    /\ UNCHANGED <<crVars, made, desired, latest, fresh, edits>>

\* LateInitialize reads the resource once more and fills in what the
\* specification leaves out, and nothing else.
LateInitialize ==
    /\ pc = "lateInit"
    /\ LateInit => glue[IdOf(latest)] # NoBody
    /\ latest' = IF LateInit THEN [latest EXCEPT !.id = IdOf(latest)] ELSE latest
    /\ Goto("patchSpec")
    /\ UNCHANGED <<crVars, glueVars, desired, cond, fresh, counters>>

\* Its ReadOne fails: the conditions reported are those of the copy it was made
\* on, not those onError returned.
LateInitializeFails ==
    /\ pc = "lateInit"
    /\ LateInit
    /\ \/ /\ glue[IdOf(latest)] = NoBody
          /\ End([cond |-> cond, err |-> onError(cond, "NotFound").err])
          /\ UNCHANGED <<faults, clean>>
       \/ /\ Fault
          /\ \E e \in {"OtherCode", "Transport"} :
                End([cond |-> cond, err |-> onError(cond, e).err])
    /\ UNCHANGED <<crVars, glueVars, desired, latest, fresh, edits>>

\* What late initialization added is patched into the custom resource, whatever
\* a user wrote there meanwhile.
PatchSpec ==
    /\ pc = "patchSpec"
    /\ Goto("publish")
    /\ spec' = IF crPhase # "gone" /\ desired.id = NilId /\ latest.id # NilId
               THEN [spec EXCEPT !.id = latest.id]
               ELSE spec
    /\ UNCHANGED <<crPhase, finalizer, status, synced, glueVars, passVars, fresh,
                   counters>>

-----------------------------------------------------------------------------
\* Deleting.

DeleteReadFinds ==
    /\ pc = "deleteRead"
    /\ glue[Target] # NoBody
    /\ latest' = Observed(desired)
    /\ cond' = onSuccess(cond)
    /\ Goto("delete")
    /\ UNCHANGED <<crVars, glueVars, desired, fresh, counters>>

\* Mutant: a resource that is already gone counts as an error.
DeleteReadFindsNothing_fails ==
    /\ pc = "deleteRead"
    /\ glue[Target] = NoBody
    /\ End(onError(cond, "NotFound"))
    /\ UNCHANGED <<crVars, glueVars, desired, latest, fresh, counters>>

DeleteReadFindsNothing ==
    /\ pc = "deleteRead"
    /\ glue[Target] = NoBody
    /\ Goto("release")
    /\ UNCHANGED <<crVars, glueVars, desired, latest, cond, fresh, counters>>

DeleteEffect ==
    /\ glue' = [glue EXCEPT ![IdOf(latest)] = NoBody]
    /\ made' = made \ {IdOf(latest)}

\* sdkDelete succeeds.
Delete ==
    /\ pc = "delete"
    /\ glue[IdOf(latest)] # NoBody
    /\ DeleteEffect
    /\ Goto("release")
    /\ UNCHANGED <<crVars, desired, latest, cond, fresh, counters>>

\* Someone else deleted the resource since it was read, or the call fails, or
\* its answer is lost, or that of the request sent again is that there is no such
\* resource.
DeleteFails ==
    /\ pc = "delete"
    /\ \/ /\ glue[IdOf(latest)] = NoBody
          /\ End(onError(cond, "OtherCode"))
          /\ UNCHANGED <<glueVars, faults, clean>>
       \/ \E e \in CallErrors :
             /\ CallFails(cond, e)
             /\ \/ UNCHANGED glueVars
                \/ (e = "Transport" \/ Resends) /\ DeleteEffect
    /\ UNCHANGED <<crVars, desired, latest, fresh, edits>>

Release ==
    /\ pc = "release"
    /\ RemoveFinalizer
    /\ pc' = "idle"
    /\ UNCHANGED <<spec, status, synced, glueVars, passVars, fresh, counters>>

-----------------------------------------------------------------------------
\* The end of a pass, and the environment.

\* The status patch.
Publish ==
    /\ pc = "publish"
    /\ pc' = "idle"
    /\ err' = "none"
    /\ IF crPhase = "gone"
       THEN UNCHANGED <<status, synced>>
       ELSE status' = cond /\ synced' = (err = "none")
    /\ UNCHANGED <<crPhase, finalizer, spec, glueVars, desired, latest, cond, fresh,
                   counters>>

\* The process dies; nothing of the pass survives.
Crash ==
    /\ pc # "idle"
    /\ Fault
    /\ pc' = "idle"
    /\ err' = "none"
    /\ fresh' = FALSE
    /\ UNCHANGED <<crVars, glueVars, desired, latest, cond, edits>>

Edit == edits < MaxEdits /\ edits' = edits + 1 /\ fresh' = FALSE

UserEdit ==
    /\ crPhase = "live"
    /\ Edit
    /\ \E s \in [id : SpecIds, body : Bodies] : s # spec /\ spec' = s
    /\ UNCHANGED <<crPhase, finalizer, status, synced, glueVars, pc, passVars, faults,
                   clean>>

\* The API server keeps an object that has a finalizer.
UserDelete ==
    /\ crPhase = "live"
    /\ Edit
    /\ crPhase' = IF finalizer THEN "deleting" ELSE "gone"
    /\ UNCHANGED <<finalizer, spec, status, synced, glueVars, pc, passVars, faults,
                   clean>>

\* Another client of Glue creates, updates or deletes a resource.
OtherWrite ==
    /\ Edit
    /\ \E i \in Ids, b \in Acceptable \cup {NoBody} :
          /\ b # glue[i]
          /\ glue' = [glue EXCEPT ![i] = b]
          /\ made' = IF b = NoBody THEN made \ {i} ELSE made
    /\ UNCHANGED <<crVars, pc, passVars, faults, clean>>

-----------------------------------------------------------------------------
\* Steps that need no failure to happen.
Progress ==
    \/ StartPass \/ ReadFinds \/ ReadFindsNothing
    \/ Manage \/ Create \/ CreateRefused \/ CreateUnencodable \/ Unmanage \/ ReadBack
    \/ Update \/ UpdateRefused \/ LateInitialize \/ PatchSpec
    \/ DeleteReadFinds \/ DeleteReadFindsNothing \/ Delete \/ Release
    \/ ReadBackFails \/ LateInitializeFails \/ DeleteFails \/ Publish

Failure == ReadFails \/ CreateAnswerLost \/ CreateResent \/ UpdateFails \/ Crash

Environment == UserEdit \/ UserDelete \/ OtherWrite

Next == Progress \/ Failure \/ Environment

Spec == Init /\ [][Next]_vars

\* Controller-runtime retries a failed pass and resyncs periodically, and calls
\* are answered.
FairSpec == Spec /\ WF_vars(Progress)

-----------------------------------------------------------------------------
\* Properties.

\* The finalizer is there whenever a pass is about to write, and an object
\* without it is gone as soon as it is deleted.
FinalizerInv ==
    /\ crPhase = "deleting" => finalizer
    /\ crPhase = "gone" => ~finalizer
    /\ pc \in {"create", "readBack", "update", "unmanage", "deleteRead", "delete",
              "release"} => finalizer

\* What the controller has made: one resource at most, the one every version of
\* the specification designates, and none when a pass is about to create it or
\* to give the finalizer up.
OwnershipInv ==
    /\ \A a \in SpecIds : Place(a) = IdOf(spec)
    /\ IdOf(desired) = IdOf(spec)
    /\ IdOf(latest) = IdOf(spec)
    /\ \A i \in made : i = IdOf(spec) /\ glue[i] # NoBody
    /\ made # {} => finalizer
    /\ pc \in {"manage", "create", "unmanage", "release"} => made = {}

\* ACK.ResourceSynced is shown True only for what is really in Glue.
SyncedMeansApplied ==
    (pc = "idle" /\ fresh /\ synced /\ crPhase = "live")
        => glue[IdOf(spec)] = spec.body

\* What an undisturbed pass knows: it still works from the current specification,
\* it goes past its write only when Glue holds that specification's body, and
\* its error is set exactly when it is on its way out.
AppliedInv ==
    /\ pc \in {"deleteRead", "delete", "release"} => crPhase # "live"
    /\ pc \notin {"unmanage", "publish"} => err = "none"
    /\ pc = "unmanage" => err # "none"
    /\ fresh /\ pc # "idle" =>
          /\ spec.body = desired.body
          /\ IdOf(spec) = IdOf(desired)
          /\ IdOf(latest) = IdOf(desired)
    /\ fresh /\ err = "none" =>
          (pc \in {"readBack", "lateInit", "patchSpec", "publish"}
              => glue[IdOf(desired)] = desired.body)
    /\ SyncedMeansApplied

\* Nothing the controller created is left behind: as long as a resource Create
\* made is there, so is the custom resource, with its finalizer, and it still
\* designates that resource (MarkManaged: "the underlying CR may not be deleted
\* until ACK is finished cleaning up any backend AWS service resources").
NoOrphan ==
    \A i \in made : crPhase # "gone" /\ finalizer /\ IdOf(spec) = i

\* The same of the moment the custom resource disappears, whatever became of its
\* identity meanwhile.
NothingLeftBehind == crPhase = "gone" => made = {}

\* The controller implements Ownership, with the finalizer as its claim on the
\* one resource that every version of the specification designates.
Owner == INSTANCE Ownership WITH
    Contents <- Bodies,
    Nothing  <- NoBody,
    phase    <- crPhase,
    claimed  <- finalizer,
    resource <- glue[IdOf(spec)],
    ours     <- made # {},
    moves    <- edits

KeepsOwnership == Owner!Spec

\* Glue is written only on behalf of a custom resource that holds the finalizer
\* at that moment (IsManaged), whatever happened since the pass read it.
WritesOnlyManaged ==
    [][pc' # pc => glue' = glue \/ (finalizer /\ crPhase # "gone")]_vars

\* The Terminal condition is shown only when Glue refuses the specification or
\* the resource is not the controller's; correcting the specification clears it
\* with the next completed pass.
TerminalMeansRefused ==
    (pc = "idle" /\ fresh /\ crPhase = "live" /\ status.terminal = "True")
        => spec.body \in Refused \/ ~finalizer

\* A pass without an error leaves neither error condition standing.
SuccessClearsErrors ==
    synced => status.terminal # "True" /\ status.recoverable # "True"

\* A custom resource marked for deletion goes away.
DeletionCompletes == crPhase = "deleting" ~> crPhase = "gone"

\* What the controller is there for: a specification Glue accepts is in Glue and
\* is reported as synced, unless the resource there is not the controller's.
Settled ==
    (/\ crPhase = "live"
     /\ spec.body \in Acceptable
     /\ glue[IdOf(spec)] # NoBody => finalizer)
    => (glue[IdOf(spec)] = spec.body /\ synced)

\* One pass is enough: undisturbed and without a failure it leaves the
\* specification applied, whatever the passes before it left half done (a lost
\* answer, a crash after MarkManaged or Create), and a deletion completed.
CleanPassSettles ==
    (pc = "idle" /\ fresh /\ clean) => Settled /\ crPhase # "deleting"

\* Once edits and failures stop, it gets there and stays there.
Converges == <>[]Settled
=================================================================================
